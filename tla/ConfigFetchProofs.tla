-------------------------- MODULE ConfigFetchProofs --------------------------
(***************************************************************************)
(* Proofs about ConfigFetch and its culler, for any number of directories, *)
(* any contents, and any number of restarts; and about Agency, in which    *)
(* the files fetched are parsed, for any files.                            *)
(***************************************************************************)
EXTENDS ConfigFetch, Agency,
        FiniteSetTheorems, SequenceTheorems, WellFoundedInduction, TLAPS

(* The directories that are about to be removed.                           *)
Doomed == {toCull[i] : i \in DOMAIN toCull}
Safe(d) == d \in Dirs /\ Intact(d) /\ d \notin Doomed

(* The directories no fetch writes to any more.                            *)
Fetching == pcf \in {"fetching", "adding"}
Settled == {d \in Dirs : d < fetches \/ (d = fetches /\ ~Fetching)}

(* Why a directory may be removed.                                         *)
IsMiddle(d) ==
  \E e, f \in Settled :
    /\ e < d /\ d < f
    /\ Safe(e) /\ Safe(f)
    /\ written[e] = written[d] /\ written[f] = written[d]
IsLess(d) ==
  \E e \in Dirs :
    Safe(e) /\ written[d] \subseteq written[e] /\ written[d] # written[e]

RemovalJustified ==
  \A d \in Dirs : ~Intact(d) \/ d \in Doomed =>
    d \in Settled /\ (IsMiddle(d) \/ IsLess(d))

(* The sequence of equal directories the culler knows is on the disk.      *)
SequenceKept ==
  /\ firstDir = NoDir <=> prevDir = NoDir
  /\ prevDir # NoDir =>
       /\ {firstDir, prevDir} \subseteq Settled
       /\ Safe(firstDir) /\ Safe(prevDir)
       /\ firstDir <= prevDir
       /\ written[firstDir] = written[prevDir]
  /\ culler = "compare" <=> currentDir # NoDir
  /\ currentDir # NoDir =>
       /\ currentDir \in Settled /\ Safe(currentDir)
       /\ prevDir # NoDir /\ prevDir < currentDir
  /\ culler \in {"mark", "files", "remove", "dirs"} <=> toCull # <<>>
  /\ prevDir \in Settled \union {NoDir}

(* The goroutine that fetches, and PeriodicConfigFetcher, agree.           *)
FetchInProgress ==
  /\ fetcher # "none" => pcf = "fetching" /\ ~doneCh
  /\ Fetching => Intact(fetches) /\ prevDir < fetches /\ currentDir < fetches
  /\ \A d \in Dirs : d > fetches => disk[d] = {} /\ written[d] = {}
  /\ fetcher \in {"check", "fetch", "wait"} =>
       \A q \in disk[fetches] : q[1] < file

Types ==
  /\ disk \in [Dirs -> SUBSET Items]
  /\ written \in [Dirs -> SUBSET Items]
  /\ \A d \in Dirs : disk[d] \subseteq written[d]
  /\ toCull \in Seq(Dirs)
  /\ {firstDir, prevDir, currentDir} \subseteq Dirs \union {NoDir}
  /\ fetches \in Dirs
  /\ file \in Files

IInv == Types /\ SequenceKept /\ FetchInProgress /\ RemovalJustified

----------------------------------------------------------------------------
(* Whoever is culled first is doomed; who is left then was so before.      *)
LEMMA DoomedTail ==
  ASSUME toCull \in Seq(Dirs), toCull # <<>>
  PROVE  /\ Culling \in Doomed
         /\ Culling \in Dirs
         /\ Tail(toCull) \in Seq(Dirs)
         /\ {Tail(toCull)[i] : i \in DOMAIN Tail(toCull)} \subseteq Doomed
<1>1. Len(toCull) \in Nat \ {0} /\ DOMAIN toCull = 1 .. Len(toCull)
  OBVIOUS
<1>2. Culling = toCull[1]
  BY DEF Culling
<1>3. \A i \in DOMAIN Tail(toCull) :
        Tail(toCull)[i] = toCull[i + 1] /\ i + 1 \in DOMAIN toCull
  BY <1>1
<1> QED
  BY <1>1, <1>2, <1>3 DEF Doomed

LEMMA NoneDoomed ==
  ASSUME toCull = <<>>
  PROVE  Doomed = {}
BY DEF Doomed

(* A step that takes the safety of no directory, dooms none and writes to  *)
(* none that is settled leaves every removal justified.                    *)
LEMMA JustifiedKept ==
  ASSUME RemovalJustified,
         \A d \in Dirs : Safe(d) => Safe(d)',
         \A d \in Dirs : (~Intact(d) \/ d \in Doomed)' => ~Intact(d) \/ d \in Doomed,
         Settled \subseteq Settled',
         \A d \in Settled : written'[d] = written[d],
         \A d \in Dirs : written[d] \subseteq written'[d]
  PROVE  RemovalJustified'
<1> SUFFICES ASSUME NEW d \in Dirs, (~Intact(d) \/ d \in Doomed)'
             PROVE  d \in Settled' /\ (IsMiddle(d)' \/ IsLess(d)')
  BY DEF RemovalJustified
<1>1. d \in Settled /\ (IsMiddle(d) \/ IsLess(d))
  BY DEF RemovalJustified
<1>2. CASE IsMiddle(d)
  <2>1. PICK e \in Settled, f \in Settled :
          /\ e < d /\ d < f
          /\ Safe(e) /\ Safe(f)
          /\ written[e] = written[d] /\ written[f] = written[d]
    BY <1>2 DEF IsMiddle
  <2>2. e \in Dirs /\ f \in Dirs
    BY <2>1 DEF Safe
  <2>3. Safe(e)' /\ Safe(f)'
    BY <2>1, <2>2
  <2> QED
    BY <1>1, <2>1, <2>3 DEF IsMiddle
<1>3. CASE IsLess(d)
  <2>1. PICK e \in Dirs :
          Safe(e) /\ written[d] \subseteq written[e] /\ written[d] # written[e]
    BY <1>3 DEF IsLess
  <2>2. Safe(e)'
    BY <2>1
  <2>3. written'[d] = written[d] /\ written[e] \subseteq written'[e]
    BY <1>1, <2>1
  <2>4. written'[d] \subseteq written'[e] /\ written'[d] # written'[e]
    BY <2>1, <2>3
  <2> QED
    BY <1>1, <2>2, <2>4 DEF IsLess
<1> QED
  BY <1>1, <1>2, <1>3

(* The invariant depends on these variables only.                          *)
LEMMA Frame ==
  ASSUME IInv,
         UNCHANGED <<disk, written, culler, firstDir, prevDir, currentDir, toCull,
                     pcf, fetcher, file, doneCh, fetches>>
  PROVE  IInv'
BY DEF IInv, Types, SequenceKept, FetchInProgress, RemovalJustified, Doomed,
   Safe, Fetching, Settled, IsMiddle, IsLess, Intact

----------------------------------------------------------------------------
LEMMA InitIInv == Init => IInv
<1> SUFFICES ASSUME Init PROVE IInv
  OBVIOUS
<1> USE FetchAssumption, CullerAssumption DEF Init, InitDisk, InitCuller
<1>1. Types
  BY DEF Types, RouteList
<1>2. Doomed = {}
  BY NoneDoomed
<1>3. SequenceKept
  BY DEF SequenceKept, NoDir
<1>4. FetchInProgress
  BY DEF FetchInProgress, Fetching, Intact, NoDir
<1>5. RemovalJustified
  BY <1>2 DEF RemovalJustified, Intact
<1> QED
  BY <1>1, <1>3, <1>4, <1>5 DEF IInv

(* fetchAll writes only to the directory of the fetch, which is new.       *)
LEMMA FetcherIInv == IInv /\ FetcherStep => IInv'
<1> SUFFICES ASSUME IInv, FetcherStep PROVE IInv'
  OBVIOUS
<1> USE CullerAssumption
<1>c. UNCHANGED <<culler, firstDir, prevDir, currentDir, toCull, pcf, fetches>>
  BY DEF FetcherStep, cullerVars, seqVars, cullVars
<1>s. Doomed' = Doomed /\ Settled' = Settled
  BY <1>c DEF Doomed, Settled, Fetching
<1>d. Dirs \subseteq Nat \ {0} /\ fetches \in Dirs
  BY DEF IInv, Types
<1>1. CASE FetcherStops \/ Check \/ NotSaved \/ FetchFails \/ WaitOver
  <2>1. UNCHANGED <<disk, written>>
    BY <1>1 DEF FetcherStops, Check, NotSaved, FetchFails, WaitOver, diskVars
  <2>2. RemovalJustified'
    BY <1>c, <1>s, <2>1, JustifiedKept DEF IInv, Safe, Intact
  <2>3. /\ file' \in Files
        /\ fetcher' # "none" => fetcher # "none" /\ doneCh' = doneCh
        /\ fetcher' \in {"check", "fetch", "wait"} =>
             fetcher \in {"check", "fetch", "wait"} /\ file' \in {file, file + 1}
    BY <1>1, FetchAssumption DEF IInv, Types, FetcherStops, Check, NotSaved,
       FetchFails, WaitOver, NextFile, RouteList
  <2>4. Types' /\ SequenceKept'
    BY <1>c, <1>s, <2>1, <2>3 DEF IInv, Types, SequenceKept, Safe, Intact
  <2>5. FetchInProgress'
    <3>1. file \in Nat /\ \A q \in disk[fetches] : q[1] \in Nat
      BY <1>d DEF IInv, Types, Files
    <3>2. Fetching' = Fetching /\ (Fetching => Intact(fetches)')
      BY <1>c, <2>1 DEF IInv, FetchInProgress, Fetching, Intact
    <3>3. fetcher' \in {"check", "fetch", "wait"} =>
            \A q \in disk'[fetches'] : q[1] < file'
      BY <1>c, <2>1, <2>3, <3>1 DEF IInv, FetchInProgress
    <3>4. fetcher' # "none" => pcf' = "fetching" /\ ~doneCh'
      BY <1>c, <2>3 DEF IInv, FetchInProgress
    <3> QED
      BY <1>c, <2>1, <3>2, <3>3, <3>4 DEF IInv, FetchInProgress
  <2> QED
    BY <2>2, <2>4, <2>5 DEF IInv
<1>2. CASE Fetched
  <2>1. PICK p \in Items :
          /\ p[1] = file
          /\ disk' = [disk EXCEPT ![fetches] = @ \union {p}]
          /\ written' = [written EXCEPT ![fetches] = @ \union {p}]
    BY <1>2 DEF Fetched
  <2>2. pcf = "fetching" /\ ~doneCh /\ fetcher = "fetch" /\ Fetching
    BY <1>2 DEF IInv, FetchInProgress, Fetched, Fetching
  <2>3. \A d \in Dirs : Intact(d) => Intact(d)'
    BY <2>1 DEF IInv, Types, Intact
  <2>4. \A d \in Dirs \ {fetches} : disk'[d] = disk[d] /\ written'[d] = written[d]
    BY <2>1 DEF IInv, Types
  <2>5. /\ disk' \in [Dirs -> SUBSET Items] /\ written' \in [Dirs -> SUBSET Items]
        /\ \A d \in Dirs : disk'[d] \subseteq written'[d]
        /\ \A d \in Dirs : written[d] \subseteq written'[d]
    BY <2>1 DEF IInv, Types
  <2>6. fetches \notin Settled
    BY <1>d, <2>2 DEF Settled
  <2>7. Intact(fetches)
    BY <2>2 DEF IInv, FetchInProgress
  <2>8. \A d \in Dirs : Intact(d)' => Intact(d)
    BY <2>4, <2>7 DEF Intact
  <2>9. RemovalJustified'
    BY <1>s, <2>3, <2>4, <2>5, <2>6, <2>8, JustifiedKept DEF IInv, Safe, Settled
  <2>10. /\ file' \in Files
         /\ fetcher' # "none" => fetcher' = "check" /\ file' = file + 1 /\ ~doneCh'
    BY <1>2, <2>2, FetchAssumption DEF Fetched, NextFile, RouteList
  <2>11. Types'
    BY <1>c, <2>5, <2>10 DEF IInv, Types
  <2>12. SequenceKept'
    <3>1. firstDir # fetches /\ prevDir # fetches /\ currentDir # fetches
      BY <1>d, <2>2, <2>6 DEF IInv, SequenceKept, FetchInProgress, NoDir
    <3>2. \A d \in Dirs : Safe(d) => Safe(d)'
      BY <1>s, <2>3 DEF Safe
    <3> QED
      BY <1>c, <1>s, <2>4, <3>1, <3>2 DEF IInv, SequenceKept, Settled
  <2>13. FetchInProgress'
    <3>1. file \in Nat /\ \A q \in disk[fetches] : q[1] \in Nat /\ q[1] < file
      BY <1>d, <2>2 DEF IInv, Types, Files, FetchInProgress
    <3>2. disk'[fetches] = disk[fetches] \union {p}
      BY <1>d, <2>1 DEF IInv, Types
    <3>3. fetcher' # "none" => \A q \in disk'[fetches] : q[1] < file'
      BY <2>1, <2>10, <3>1, <3>2
    <3>4. \A d \in Dirs : d > fetches => disk'[d] = {} /\ written'[d] = {}
      BY <1>d, <2>4 DEF IInv, FetchInProgress
    <3>5. Intact(fetches)'
      BY <1>c, <1>d, <2>1, <2>7 DEF Intact, IInv, Types
    <3> QED
      BY <1>c, <2>2, <2>10, <3>3, <3>4, <3>5 DEF IInv, FetchInProgress, Fetching
  <2> QED
    BY <2>9, <2>11, <2>12, <2>13 DEF IInv
<1> QED
  BY <1>1, <1>2 DEF FetcherStep

----------------------------------------------------------------------------
(* Dooming directories that are redundant leaves every removal justified:  *)
(* what was redundant because of a doomed one is so because of what makes  *)
(* that one redundant.                                                     *)
LEMMA DoomedRedundant ==
  ASSUME RemovalJustified, Doomed = {}, Types,
         UNCHANGED <<disk, written>>, Settled' = Settled,
         \A x \in Doomed' : x \in Settled /\ (IsMiddle(x)' \/ IsLess(x)')
  PROVE  RemovalJustified'
<1> SUFFICES ASSUME NEW d \in Dirs, (~Intact(d) \/ d \in Doomed)'
             PROVE  d \in Settled' /\ (IsMiddle(d)' \/ IsLess(d)')
  BY DEF RemovalJustified
<1>0. Dirs \subseteq Nat
  BY CullerAssumption
<1>1. CASE d \in Doomed'
  BY <1>1
<1>2. CASE d \notin Doomed'
  <2>1. d \in Settled /\ (IsMiddle(d) \/ IsLess(d))
    BY <1>2 DEF RemovalJustified, Intact
  <2>2. \A e : Safe(e) => Safe(e)' \/ e \in Doomed'
    BY DEF Safe, Intact
  <2>3. ASSUME NEW e \in Dirs, e \in Doomed', IsLess(e)',
               written[d] \subseteq written[e]
        PROVE  IsLess(d)'
    <3>1. PICK g \in Dirs :
            Safe(g)' /\ written'[e] \subseteq written'[g] /\ written'[e] # written'[g]
      BY <2>3 DEF IsLess
    <3>2. written'[d] \subseteq written'[g] /\ written'[d] # written'[g]
      BY <2>3, <3>1
    <3> QED
      BY <3>1, <3>2 DEF IsLess
  <2>4. CASE IsLess(d)
    <3>1. PICK e \in Dirs :
            Safe(e) /\ written[d] \subseteq written[e] /\ written[d] # written[e]
      BY <2>4 DEF IsLess
    <3>2. CASE Safe(e)'
      BY <2>1, <3>1, <3>2 DEF IsLess
    <3>3. CASE e \in Doomed' /\ IsMiddle(e)'
      <4>1. PICK lo \in Settled' : Safe(lo)' /\ written'[lo] = written'[e]
        BY <3>3 DEF IsMiddle
      <4>2. lo \in Dirs
        BY <4>1 DEF Safe
      <4> QED
        BY <2>1, <3>1, <4>1, <4>2 DEF IsLess
    <3>4. CASE e \in Doomed' /\ IsLess(e)'
      BY <2>1, <2>3, <3>1, <3>4
    <3> QED
      BY <2>2, <3>1, <3>2, <3>3, <3>4
  <2>5. CASE IsMiddle(d)
    <3>1. PICK e \in Settled, f \in Settled :
            /\ e < d /\ d < f
            /\ Safe(e) /\ Safe(f)
            /\ written[e] = written[d] /\ written[f] = written[d]
      BY <2>5 DEF IsMiddle
    <3>2. e \in Dirs /\ f \in Dirs
      BY <3>1 DEF Safe
    <3>3. CASE \E x \in {e, f} : x \in Doomed' /\ IsLess(x)'
      BY <2>1, <2>3, <3>1, <3>2, <3>3
    <3>4. CASE \A x \in {e, f} : x \in Doomed' => IsMiddle(x)'
      <4>1. \E lo \in Settled' : lo < d /\ Safe(lo)' /\ written'[lo] = written'[d]
        <5>1. CASE e \notin Doomed'
          BY <2>2, <3>1, <5>1
        <5>2. CASE e \in Doomed'
          <6>1. PICK lo \in Settled' : lo < e /\ Safe(lo)' /\ written'[lo] = written'[e]
            BY <3>4, <5>2 DEF IsMiddle
          <6>2. lo \in Dirs
            BY <6>1 DEF Safe
          <6> QED
            BY <1>0, <3>1, <3>2, <6>1, <6>2
        <5> QED
          BY <5>1, <5>2
      <4>2. \E hi \in Settled' : d < hi /\ Safe(hi)' /\ written'[hi] = written'[d]
        <5>1. CASE f \notin Doomed'
          BY <2>2, <3>1, <5>1
        <5>2. CASE f \in Doomed'
          <6>1. PICK hi \in Settled' : f < hi /\ Safe(hi)' /\ written'[hi] = written'[f]
            BY <3>4, <5>2 DEF IsMiddle
          <6>2. hi \in Dirs
            BY <6>1 DEF Safe
          <6> QED
            BY <1>0, <3>1, <3>2, <6>1, <6>2
        <5> QED
          BY <5>1, <5>2
      <4> QED
        BY <2>1, <4>1, <4>2 DEF IsMiddle
    <3>5. \A x \in {e, f} : x \in Doomed' => IsMiddle(x)' \/ IsLess(x)'
      OBVIOUS
    <3> QED
      BY <3>3, <3>4, <3>5
  <2> QED
    BY <2>1, <2>4, <2>5
<1> QED
  BY <1>1, <1>2

----------------------------------------------------------------------------
(* What the culler does to the three directories of its sequence.          *)
LEMMA CullerIsSane ==
  ASSUME IInv
  PROVE  /\ Dirs \subseteq Nat \ {0} /\ Settled \subseteq Dirs
         /\ fetches \in Dirs
         /\ Fetching => fetches \notin Settled
BY CullerAssumption DEF IInv, Types, Settled

(* The directories of an unchanged disk of which none is to be culled.     *)
LEMMA DoneCulling ==
  ASSUME IInv, UNCHANGED <<disk, written>>, toCull' \in Seq(Dirs),
         Doomed' \subseteq Doomed, Settled \subseteq Settled'
  PROVE  RemovalJustified'
BY JustifiedKept DEF IInv, Types, Safe, Intact

(* A comparison that was not completed.                                    *)
LEMMA CompareFailsIInv ==
  IInv /\ CompareFails /\ UNCHANGED <<pcf, fetcher, file, doneCh, fetches>> => IInv'
<1> SUFFICES ASSUME IInv, CompareFails, UNCHANGED <<pcf, fetcher, file, doneCh, fetches>>
             PROVE  IInv'
  OBVIOUS
<1>1. /\ UNCHANGED <<disk, written, toCull>>
      /\ culler = "compare" /\ culler' = "select"
      /\ firstDir' = NoDir /\ prevDir' = NoDir /\ currentDir' = NoDir
  BY DEF CompareFails, diskVars, cullVars
<1>2. Doomed' = Doomed /\ Settled' = Settled
  BY <1>1 DEF Doomed, Settled, Fetching
<1>3. Types' /\ RemovalJustified'
  BY <1>1, <1>2, DoneCulling DEF IInv, Types
<1>4. SequenceKept'
  BY <1>1, <1>2 DEF IInv, SequenceKept
<1>5. FetchInProgress'
  BY <1>1, CullerIsSane DEF IInv, FetchInProgress, Fetching, Intact, NoDir
<1> QED
  BY <1>3, <1>4, <1>5 DEF IInv

(* A comparison dooms only directories that are redundant.                 *)
LEMMA CompareDoneIInv ==
  IInv /\ CompareDone /\ UNCHANGED <<pcf, fetcher, file, doneCh, fetches>> => IInv'
<1> SUFFICES ASSUME IInv, CompareDone, UNCHANGED <<pcf, fetcher, file, doneCh, fetches>>
             PROVE  IInv'
  OBVIOUS
<1>1. PICK s \in {"DirectoriesEquivalent", "Dir1MoreComplete", "Dir2MoreComplete",
                  "DirectoriesDifferent"} :
        /\ s \in {Similarity(disk[prevDir], disk[currentDir]), "DirectoriesDifferent"}
        /\ \/ toCull' = toCull /\ culler' = "select"
           \/ /\ toCull' = Culled(s)
              /\ culler' = IF Culled(s) = <<>> THEN "select" ELSE "mark"
        /\ prevDir' = IF s = "Dir1MoreComplete" THEN prevDir ELSE currentDir
        /\ firstDir' = IF s \in {"DirectoriesDifferent", "Dir2MoreComplete"}
                       THEN currentDir ELSE firstDir
  BY DEF CompareDone, Similarity
<1>2. /\ UNCHANGED <<disk, written>> /\ Settled' = Settled
      /\ culler = "compare" /\ currentDir' = NoDir
  BY DEF CompareDone, diskVars, Settled, Fetching
<1>3. toCull = <<>> /\ Doomed = {}
  BY <1>2, NoneDoomed DEF IInv, SequenceKept
<1>4. /\ {firstDir, prevDir, currentDir} \subseteq Settled
      /\ {firstDir, prevDir, currentDir} \subseteq Dirs \ {NoDir}
      /\ Intact(firstDir) /\ Intact(prevDir) /\ Intact(currentDir)
      /\ firstDir <= prevDir /\ prevDir < currentDir
      /\ written[firstDir] = written[prevDir]
  BY <1>2, CullerIsSane DEF IInv, SequenceKept, Safe
<1>5. Intact(firstDir)' /\ Intact(prevDir)' /\ Intact(currentDir)
  BY <1>1, <1>2, <1>4 DEF Intact
<1>6. /\ s = "DirectoriesEquivalent" => written[prevDir] = written[currentDir]
      /\ s = "Dir1MoreComplete" => /\ written[currentDir] \subseteq written[prevDir]
                                   /\ written[currentDir] # written[prevDir]
      /\ s = "Dir2MoreComplete" => /\ written[prevDir] \subseteq written[currentDir]
                                   /\ written[prevDir] # written[currentDir]
  BY <1>1, <1>4 DEF Similarity, Intact
<1>7. firstDir \in Nat /\ prevDir \in Nat /\ currentDir \in Nat
  BY <1>4, CullerIsSane
<1>8. \/ toCull' = <<>> /\ Doomed' = {}
      \/ /\ s = "DirectoriesEquivalent" /\ firstDir # prevDir
         /\ toCull' = <<prevDir>> /\ Doomed' = {prevDir}
      \/ /\ s = "Dir1MoreComplete"
         /\ toCull' = <<currentDir>> /\ Doomed' = {currentDir}
      \/ /\ s = "Dir2MoreComplete"
         /\ toCull' \in {<<prevDir>>, <<firstDir, prevDir>>}
         /\ Doomed' \subseteq {firstDir, prevDir}
  <2>1. toCull' = <<>> => Doomed' = {}
    BY DEF Doomed
  <2>2. \A x : toCull' = <<x>> => Doomed' = {x}
    BY DEF Doomed
  <2>3. \A x, y : toCull' = <<x, y>> => Doomed' \subseteq {x, y}
    BY DEF Doomed
  <2> QED
    BY <1>1, <1>3, <2>1, <2>2, <2>3 DEF Culled
<1>9. PICK a, b, c : a = firstDir /\ b = prevDir /\ c = currentDir
  OBVIOUS
<1>10. /\ {a, b, c} \subseteq Settled' /\ {a, b, c} \subseteq Dirs
       /\ Intact(a)' /\ Intact(b)' /\ Intact(c)'
       /\ a \in Nat /\ b \in Nat /\ c \in Nat /\ a <= b /\ b < c
       /\ written'[a] = written'[b]
  BY <1>2, <1>4, <1>7, <1>9 DEF Intact
<1>11. \A x \in Doomed' : x \in Settled /\ (IsMiddle(x)' \/ IsLess(x)')
  <2>1. CASE s = "DirectoriesEquivalent" /\ a # b /\ Doomed' = {b}
    <3>1. Safe(a)' /\ Safe(c)' /\ a < b
      BY <1>10, <2>1 DEF Safe
    <3>2. written'[c] = written'[b]
      BY <1>2, <1>6, <1>9, <2>1
    <3>3. IsMiddle(b)'
      BY <1>10, <3>1, <3>2 DEF IsMiddle
    <3> QED
      BY <1>2, <1>10, <2>1, <3>3
  <2>2. CASE s = "Dir1MoreComplete" /\ Doomed' = {c}
    <3>1. Safe(b)'
      BY <1>10, <2>2 DEF Safe
    <3>2. IsLess(c)'
      BY <1>2, <1>6, <1>9, <1>10, <2>2, <3>1 DEF IsLess
    <3> QED
      BY <1>2, <1>10, <2>2, <3>2
  <2>3. CASE s = "Dir2MoreComplete" /\ Doomed' \subseteq {a, b}
    <3>1. Safe(c)'
      BY <1>10, <2>3 DEF Safe
    <3>2. written'[b] \subseteq written'[c] /\ written'[b] # written'[c]
      BY <1>2, <1>6, <1>9, <2>3
    <3>3. IsLess(a)' /\ IsLess(b)'
      BY <1>10, <3>1, <3>2 DEF IsLess
    <3> QED
      BY <1>2, <1>10, <2>3, <3>3
  <2> QED
    BY <1>8, <1>9, <2>1, <2>2, <2>3
<1>12. RemovalJustified'
  BY <1>2, <1>3, <1>11, DoomedRedundant DEF IInv
<1>13. toCull' \in Seq(Dirs)
  <2>1. toCull' \in {<<>>, <<b>>, <<c>>, <<a, b>>}
    BY <1>8, <1>9
  <2>2. a \in Dirs /\ b \in Dirs /\ c \in Dirs
    BY <1>10
  <2>3. /\ <<>> \in Seq(Dirs) /\ <<b>> \in Seq(Dirs) /\ <<c>> \in Seq(Dirs)
        /\ <<a, b>> \in Seq(Dirs)
    BY <2>2
  <2> QED
    BY <2>1, <2>3
<1>14. Types'
  BY <1>1, <1>2, <1>4, <1>13 DEF IInv, Types
<1>15. SequenceKept'
  <2>1. firstDir' # NoDir /\ prevDir' # NoDir /\ {firstDir', prevDir'} \subseteq {a, b, c}
    BY <1>1, <1>4, <1>9
  <2>2. Safe(firstDir)' /\ Safe(prevDir)'
    <3>1. firstDir' \notin Doomed' /\ prevDir' \notin Doomed'
      BY <1>1, <1>8, <1>9, <1>10
    <3> QED
      BY <1>5, <1>10, <2>1, <3>1 DEF Safe
  <2>3. firstDir' <= prevDir' /\ written'[firstDir'] = written'[prevDir']
    BY <1>1, <1>2, <1>6, <1>9, <1>10
  <2>4. culler' \in {"mark", "files", "remove", "dirs"} <=> toCull' # <<>>
    BY <1>1, <1>3
  <2>5. culler' # "compare" /\ currentDir' = NoDir
    BY <1>1, <1>2
  <2> QED
    BY <1>10, <2>1, <2>2, <2>3, <2>4, <2>5 DEF SequenceKept
<1>16. FetchInProgress'
  <2>1. Fetching => prevDir' < fetches /\ currentDir' < fetches
    BY <1>1, <1>2, CullerIsSane DEF IInv, FetchInProgress, NoDir
  <2> QED
    BY <1>2, <2>1 DEF IInv, FetchInProgress, Fetching, Intact
<1> QED
  BY <1>12, <1>14, <1>15, <1>16 DEF IInv

(* The steps of the deletion: only doomed directories lose files.          *)
LEMMA DeletionIInv ==
  ASSUME IInv, Mark \/ VisitFile \/ RemoveFile \/ FilesGone \/ DeletionAbandoned
         \/ RemoveDirs \/ DirsLeft,
         UNCHANGED <<pcf, fetcher, file, doneCh, fetches>>
  PROVE  IInv'
<1>s. UNCHANGED <<firstDir, prevDir, currentDir, written>> /\ Settled' = Settled
  BY DEF Mark, VisitFile, RemoveFile, FilesGone, DeletionAbandoned, RemoveDirs,
     DirsLeft, NextToCull, seqVars, cullVars, diskVars, Settled, Fetching
<1>1. culler \in {"mark", "files", "remove", "dirs"} /\ toCull # <<>>
  BY DEF IInv, SequenceKept, Mark, VisitFile, RemoveFile, FilesGone,
     DeletionAbandoned, RemoveDirs, DirsLeft
<1>2. /\ Culling \in Doomed /\ Culling \in Dirs
      /\ Tail(toCull) \in Seq(Dirs)
      /\ {Tail(toCull)[i] : i \in DOMAIN Tail(toCull)} \subseteq Doomed
  BY <1>1, DoomedTail DEF IInv, Types
<1>3. CASE Mark \/ VisitFile \/ FilesGone
  <2>1. UNCHANGED <<disk, toCull>> /\ culler' \in {"files", "remove", "dirs"}
    BY <1>3 DEF Mark, VisitFile, FilesGone, cullVars, diskVars
  <2>2. Doomed' = Doomed
    BY <2>1 DEF Doomed
  <2>3. Types' /\ RemovalJustified'
    BY <1>s, <2>1, <2>2, DoneCulling DEF IInv, Types
  <2>4. SequenceKept' /\ FetchInProgress'
    BY <1>s, <1>1, <2>1, <2>2 DEF IInv, SequenceKept, FetchInProgress,
       Fetching, Safe, Intact
  <2> QED
    BY <2>3, <2>4 DEF IInv
<1>4. CASE RemoveFile
  <2>1. UNCHANGED toCull /\ culler' = "files" /\ Doomed' = Doomed
    BY <1>4 DEF RemoveFile, Doomed
  <2>2. \E S : disk' = [disk EXCEPT ![Culling] = @ \ S]
    <3>1. CASE UNCHANGED disk
      <4>1. disk' = [disk EXCEPT ![Culling] = @ \ {}]
        BY <3>1 DEF IInv, Types
      <4> QED
        BY <4>1
    <3> QED
      BY <1>4, <3>1 DEF RemoveFile
  <2>3. /\ disk' \in [Dirs -> SUBSET Items]
        /\ \A d \in Dirs : disk'[d] \subseteq disk[d]
        /\ \A d \in Dirs \ {Culling} : disk'[d] = disk[d]
    BY <1>2, <2>2 DEF IInv, Types
  <2>4. \A d \in Dirs : Safe(d) => Safe(d)'
    BY <1>s, <1>2, <2>1, <2>3 DEF Safe, Intact
  <2>5. \A d \in Dirs : (~Intact(d) \/ d \in Doomed)' => ~Intact(d) \/ d \in Doomed
    BY <1>s, <1>2, <2>1, <2>3 DEF Intact
  <2>6. RemovalJustified'
    BY <1>s, <2>4, <2>5, JustifiedKept DEF IInv
  <2>7. Types'
    BY <1>s, <2>1, <2>3 DEF IInv, Types
  <2>8. SequenceKept'
    BY <1>s, <1>1, <2>1, <2>4, CullerIsSane DEF IInv, SequenceKept, Safe
  <2>9. FetchInProgress'
    <3>1. Culling \in Settled
      BY <1>2 DEF IInv, RemovalJustified
    <3>2. ~(Culling > fetches)
      BY <3>1, CullerIsSane DEF Settled
    <3>3. Fetching => Culling # fetches
      BY <3>1, CullerIsSane
    <3>4. \A d \in Dirs : d > fetches => disk'[d] = {}
      BY <2>3, <3>2 DEF IInv, FetchInProgress
    <3>5. Fetching => Intact(fetches)'
      BY <1>s, <2>3, <3>3, CullerIsSane DEF IInv, FetchInProgress, Intact
    <3>6. disk'[fetches] \subseteq disk[fetches]
      BY <2>3, CullerIsSane
    <3> QED
      BY <1>s, <3>4, <3>5, <3>6 DEF IInv, FetchInProgress, Fetching
  <2> QED
    BY <2>6, <2>7, <2>8, <2>9 DEF IInv
<1>5. CASE DeletionAbandoned \/ RemoveDirs \/ DirsLeft
  <2>1. /\ UNCHANGED disk /\ toCull' = Tail(toCull)
        /\ culler' = IF Tail(toCull) = <<>> THEN "select" ELSE "mark"
    BY <1>5 DEF DeletionAbandoned, RemoveDirs, DirsLeft, NextToCull, diskVars
  <2>2. Doomed' \subseteq Doomed
    BY <1>2, <2>1 DEF Doomed
  <2>3. Types' /\ RemovalJustified'
    BY <1>s, <1>2, <2>1, <2>2, DoneCulling DEF IInv, Types
  <2>4. SequenceKept'
    BY <1>s, <1>1, <2>1, <2>2 DEF IInv, SequenceKept, Safe, Intact
  <2>5. FetchInProgress'
    BY <1>s, <2>1 DEF IInv, FetchInProgress, Fetching, Intact
  <2> QED
    BY <2>3, <2>4, <2>5 DEF IInv
<1> QED
  BY <1>3, <1>4, <1>5

LEMMA CullerIInv == IInv /\ CullerRuns => IInv'
BY CompareFailsIInv, CompareDoneIInv, DeletionIInv
   DEF CullerRuns, CullerStep, fetchVars

----------------------------------------------------------------------------
(* A fetch into a new directory begins, the culler being as it was or new. *)
LEMMA NewFetchIInv ==
  ASSUME IInv, fetches + 1 \in Dirs, StartAgencyConfigFetcher,
         UNCHANGED <<disk, written>>,
         \/ /\ UNCHANGED <<culler, firstDir, prevDir, currentDir, toCull>>
            /\ pcf = "waiting"
         \/ /\ culler' = "select" /\ toCull' = <<>>
            /\ firstDir' = NoDir /\ prevDir' = NoDir /\ currentDir' = NoDir
  PROVE  IInv'
<1> USE CullerIsSane DEF StartAgencyConfigFetcher
<1>1. Settled \subseteq Settled' /\ Fetching'
  BY DEF Settled, Fetching
<1>2. toCull' \in Seq(Dirs) /\ Doomed' \subseteq Doomed
  <2>1. CASE toCull' = toCull
    BY <2>1 DEF IInv, Types, Doomed
  <2>2. CASE toCull' = <<>>
    BY <2>2 DEF Doomed
  <2> QED
    BY <2>1, <2>2
<1>3. Types'
  BY <1>2, FetchAssumption DEF IInv, Types, RouteList
<1>4. RemovalJustified'
  BY <1>1, <1>2, DoneCulling
<1>5. disk[fetches + 1] = {} /\ written[fetches + 1] = {}
  BY DEF IInv, FetchInProgress
<1>6. FetchInProgress'
  <2>1. prevDir' < fetches + 1 /\ currentDir' < fetches + 1
    BY DEF IInv, SequenceKept, Settled, NoDir
  <2> QED
    BY <1>5, <2>1 DEF IInv, FetchInProgress, Intact
<1>7. SequenceKept'
  BY <1>1, <1>2 DEF IInv, SequenceKept, Safe, Intact
<1> QED
  BY <1>3, <1>4, <1>6, <1>7 DEF IInv

(* The directory of a finished fetch is given to the culler.               *)
LEMMA AddDirIInv ==
  ASSUME IInv, AddDir, UNCHANGED diskVars
  PROVE  IInv'
<1>1. /\ UNCHANGED <<disk, written, toCull, fetcher, file, doneCh, fetches>>
      /\ pcf = "adding" /\ pcf' \in {"stopping", "waiting"} /\ culler = "select"
      /\ \/ /\ prevDir = NoDir /\ firstDir' = fetches /\ prevDir' = fetches
            /\ UNCHANGED <<culler, currentDir>>
         \/ /\ prevDir # NoDir /\ culler' = "compare" /\ currentDir' = fetches
            /\ UNCHANGED <<firstDir, prevDir>>
  BY DEF AddDir, ReceiveDir, AfterFetch, cullVars, fetchVars, diskVars
<1>2. Fetching /\ ~Fetching' /\ Settled' = Settled \union {fetches}
  BY <1>1, CullerIsSane DEF Settled, Fetching
<1>3. toCull = <<>> /\ Doomed = {} /\ Doomed' = {} /\ currentDir = NoDir
  BY <1>1, NoneDoomed DEF IInv, SequenceKept, Doomed
<1>4. Safe(fetches) /\ prevDir < fetches /\ fetches # NoDir
  BY <1>2, <1>3, CullerIsSane DEF IInv, FetchInProgress, Safe, NoDir
<1>5. Types' /\ RemovalJustified'
  BY <1>1, <1>2, <1>3, DoneCulling, CullerIsSane DEF IInv, Types
<1>6. SequenceKept'
  BY <1>1, <1>2, <1>3, <1>4, CullerIsSane DEF IInv, SequenceKept, Safe, Intact
<1>7. FetchInProgress'
  BY <1>1, <1>2 DEF IInv, FetchInProgress
<1> QED
  BY <1>5, <1>6, <1>7 DEF IInv

LEMMA PcfIInv == IInv /\ PcfStep => IInv'
<1> SUFFICES ASSUME IInv, PcfStep PROVE IInv'
  OBVIOUS
<1>1. UNCHANGED <<disk, written>> /\ UNCHANGED diskVars
  BY DEF PcfStep, diskVars
<1>2. CASE AddDir
  BY <1>1, <1>2, AddDirIInv
<1>3. CASE FetchTime
  BY <1>1, <1>3, NewFetchIInv DEF FetchTime, cullerVars, seqVars, cullVars
<1>4. CASE ~AddDir /\ ~FetchTime
  <2>1. UNCHANGED <<toCull, firstDir, prevDir, currentDir, fetches, file>>
    BY <1>4 DEF PcfStep, FetchDone, StopFetch, FetchStopped, StopWaiting,
       RequestStop,
       StopTaken, ReceiveStop, CullerStopped, AnswerStop, Answer, cullerVars,
       seqVars,
       cullVars, fetchVars
  <2>2. /\ fetcher' \in {fetcher, "none"}
        /\ fetcher' # "none" => pcf' = "fetching" /\ ~doneCh'
        /\ Fetching' => Fetching
    BY <1>4 DEF PcfStep, FetchDone, StopFetch, FetchStopped, StopWaiting,
       RequestStop,
       StopTaken, CullerStopped, Answer, AfterFetch, Fetching, IInv,
       FetchInProgress,
       fetchVars
  <2>3. culler' = culler \/ {culler, culler'} \subseteq {"select", "answer", "stopping"}
    BY <1>4 DEF PcfStep, FetchDone, StopFetch, FetchStopped, StopWaiting,
       RequestStop,
       StopTaken, ReceiveStop, CullerStopped, AnswerStop, Answer, cullerVars
  <2>4. Settled \subseteq Settled' /\ Doomed' = Doomed
    BY <2>1, <2>2 DEF Settled, Doomed
  <2>5. Types' /\ RemovalJustified'
    BY <1>1, <2>1, <2>4, DoneCulling DEF IInv, Types
  <2>6. SequenceKept'
    BY <1>1, <2>1, <2>3, <2>4 DEF IInv, SequenceKept, Safe, Intact
  <2>7. FetchInProgress'
    BY <1>1, <2>1, <2>2 DEF IInv, FetchInProgress, Intact
  <2> QED
    BY <2>5, <2>6, <2>7 DEF IInv
<1> QED
  BY <1>2, <1>3, <1>4

LEMMA StepIInv == IInv /\ [Next]_vars => IInv'
<1> SUFFICES ASSUME IInv, [Next]_vars PROVE IInv'
  OBVIOUS
<1>1. CASE FetcherStep
  BY <1>1, FetcherIInv
<1>2. CASE PcfStep
  BY <1>2, PcfIInv
<1>3. CASE CullerRuns
  BY <1>3, CullerIInv
<1>4. CASE AskStop \/ UNCHANGED vars
  BY <1>4, Frame DEF AskStop, vars, diskVars, cullerVars, seqVars, cullVars,
     fetchVars
<1>5. CASE Restart
  BY <1>5, NewFetchIInv DEF Restart, diskVars
<1> QED
  BY <1>1, <1>2, <1>3, <1>4, <1>5 DEF Next

(* Everything above holds of every state.                                  *)
THEOREM Invariant == Spec => []IInv
BY InitIInv, StepIInv, PTL DEF Spec

(* Whatever is removed, and wherever a deletion ends, an intact directory  *)
(* holds all that was in it: two, if no more than that.                    *)
THEOREM CulledRedundant == Spec => []CulledIsRedundant
<1>1. IInv => CulledIsRedundant
  BY DEF IInv, RemovalJustified, CulledIsRedundant, IsMiddle, IsLess, Safe
<1> QED
  BY <1>1, Invariant, PTL

----------------------------------------------------------------------------
(* The refinement: what the store holds are the intact directories.        *)
Held == [d \in Dirs |-> IF Intact(d) THEN disk[d] ELSE {}]

(* A file of the fetch is saved, in a directory that has no such file.     *)
LEMMA FetchedSaves ==
  ASSUME IInv, Fetched, pcf' = pcf, fetches' = fetches
  PROVE  \E d \in Dirs : \E p \in Items : Store!Save(d, p)
<1>1. PICK p \in Items :
        /\ p[1] = file
        /\ disk' = [disk EXCEPT ![fetches] = @ \union {p}]
        /\ written' = [written EXCEPT ![fetches] = @ \union {p}]
  BY DEF Fetched
<1>2. fetches \in Dirs /\ Intact(fetches) /\ file \in Nat
      /\ \A q \in disk[fetches] : q[1] < file
  BY CullerAssumption DEF IInv, Types, FetchInProgress, Fetched, Fetching, Files
<1>3. Held[fetches] = disk[fetches]
  BY <1>2 DEF Held
<1>4. \A q \in Held[fetches] : q[1] # p[1]
  BY <1>1, <1>2, <1>3
<1>5. Held' = [Held EXCEPT ![fetches] = @ \union {p}]
  <2>1. \A d \in Dirs \ {fetches} : disk'[d] = disk[d] /\ written'[d] = written[d]
    BY <1>1 DEF IInv, Types
  <2>2. disk'[fetches] = disk[fetches] \union {p} /\ written'[fetches] = disk'[fetches]
    BY <1>1, <1>2 DEF IInv, Types, Intact
  <2>3. \A d \in Dirs \ {fetches} : Held'[d] = Held[d]
    BY <2>1 DEF Held, Intact
  <2>4. Held'[fetches] = Held[fetches] \union {p}
    BY <1>2, <1>3, <2>2 DEF Held, Intact
  <2> QED
    BY <1>2, <2>3, <2>4 DEF Held
<1> QED
  BY <1>1, <1>2, <1>4, <1>5 DEF Store!Save, Held

(* The first file taken from a directory makes the store forget all of it, *)
(* which another directory has; the store knows nothing of the others.     *)
LEMMA RemovalForgets ==
  ASSUME IInv, RemoveFile
  PROVE  (\E d \in Dirs : Store!Forget(d)) \/ Held' = Held
<1>1. Culling \in Doomed /\ Culling \in Dirs /\ UNCHANGED written
  BY DoomedTail DEF IInv, Types, SequenceKept, RemoveFile
<1>2. PICK p : disk' = [disk EXCEPT ![Culling] = @ \ {p}] \/ disk' = disk
  BY DEF RemoveFile
<1>3. CASE disk' = disk \/ p \notin disk[Culling]
  <2>1. disk' = disk
    <3>1. p \notin disk[Culling] => disk[Culling] \ {p} = disk[Culling]
      OBVIOUS
    <3>2. [disk EXCEPT ![Culling] = disk[Culling]] = disk
      BY <1>1 DEF IInv, Types
    <3> QED
      BY <1>2, <1>3, <3>1, <3>2
  <2> QED
    BY <1>1, <2>1 DEF Held, Intact
<1>4. CASE disk' # disk /\ p \in disk[Culling]
  <2>1. disk'[Culling] = disk[Culling] \ {p}
        /\ \A d \in Dirs \ {Culling} : disk'[d] = disk[d]
    BY <1>1, <1>2, <1>4 DEF IInv, Types
  <2>2. disk'[Culling] # written'[Culling]
    BY <1>1, <1>4, <2>1 DEF IInv, Types
  <2>3. Held'[Culling] = {} /\ \A d \in Dirs \ {Culling} : Held'[d] = Held[d]
    BY <1>1, <2>1, <2>2 DEF Held, Intact
  <2>4. Held' = [Held EXCEPT ![Culling] = {}]
    BY <1>1, <2>3 DEF Held
  <2>5. PICK e \in Dirs : Safe(e) /\ written[Culling] \subseteq written[e]
    BY <1>1 DEF IInv, RemovalJustified, IsMiddle, IsLess, Safe
  <2>6. e # Culling /\ Held[e] = written[e] /\ Held[Culling] \subseteq written[Culling]
    BY <1>1, <2>5 DEF Held, Safe, Intact
  <2>7. Held[Culling] \subseteq Held[e]
    BY <2>5, <2>6
  <2> QED
    BY <1>1, <2>4, <2>6, <2>7 DEF Store!Forget, Held
<1> QED
  BY <1>3, <1>4

LEMMA StepRefines == IInv /\ [Next]_vars => [Store!Next]_Held
<1> SUFFICES ASSUME IInv, [Next]_vars, ~UNCHANGED <<disk, written>>
             PROVE  [Store!Next]_Held
  BY DEF Held, Intact
<1>1. CASE FetcherStep
  <2>1. Fetched /\ pcf' = pcf /\ fetches' = fetches
    BY <1>1 DEF FetcherStep, FetcherStops, Check, NotSaved, FetchFails,
       WaitOver, diskVars
  <2> QED
    BY <2>1, FetchedSaves DEF Store!Next
<1>2. CASE CullerRuns
  <2>1. RemoveFile
    BY <1>2 DEF CullerRuns, CullerStep, CompareFails, CompareDone, Mark,
       VisitFile, FilesGone,
       DeletionAbandoned, RemoveDirs, DirsLeft, diskVars
  <2> QED
    BY <2>1, RemovalForgets DEF Store!Next
<1>3. CASE PcfStep \/ AskStop \/ Restart \/ UNCHANGED vars
  BY <1>3 DEF PcfStep, AskStop, Restart, vars, diskVars
<1> QED
  BY <1>1, <1>2, <1>3 DEF Next

(* Fetching, comparing and deleting, stopped or failing at any point, do   *)
(* to the disk only what ConfigStore allows.                               *)
THEOREM Refinement == Spec => ImplementsStore
<1>1. Init => Store!Init
  BY DEF Init, InitDisk, Store!Init, Intact
<1>2. IInv /\ [Next]_vars => [Store!Next]_(Held)
  BY StepRefines
<1> QED
  BY <1>1, <1>2, Invariant, PTL DEF Spec, ImplementsStore, Store!Spec, Held

----------------------------------------------------------------------------
(* The marker: it is there before the first file goes, and goes only after *)
(* the last one.                                                           *)
MarkerFirst ==
  culler \in {"files", "remove", "dirs"} => Culling \in marked \/ Culling \in unmarkable
MarkerLast ==
  /\ culler \in {"files", "remove"} /\ ~encounteredError =>
       disk[Culling] \subseteq toVisit
  /\ culler = "dirs" => disk[Culling] = {}

MarkerInv == MarkedWhileEmptying /\ MarkerFirst /\ MarkerLast

LEMMA InitMarker == Init => MarkerInv
BY DEF Init, InitDisk, InitCuller, MarkerInv, MarkedWhileEmptying, MarkerFirst,
   MarkerLast, Intact

LEMMA FetcherMarker == IInv /\ MarkerInv /\ FetcherStep => MarkerInv'
<1> SUFFICES ASSUME IInv, MarkerInv, FetcherStep PROVE MarkerInv'
  OBVIOUS
<1>1. UNCHANGED <<culler, toCull, toVisit, encounteredError, marked, unmarkable>>
  BY DEF FetcherStep, FetcherStops, Check, Fetched, NotSaved, FetchFails,
     WaitOver,
     cullerVars, cullVars, diskVars
<1>2. CASE UNCHANGED <<disk, written>>
  BY <1>1, <1>2 DEF MarkerInv, MarkedWhileEmptying, MarkerFirst, MarkerLast,
     Intact, Culling
<1>3. CASE Fetched
  <2>1. PICK p \in Items :
          /\ disk' = [disk EXCEPT ![fetches] = @ \union {p}]
          /\ written' = [written EXCEPT ![fetches] = @ \union {p}]
    BY <1>3 DEF Fetched
  <2>2. Fetching /\ Intact(fetches) /\ fetches \notin Settled
    BY <1>3, CullerIsSane DEF IInv, FetchInProgress, Fetched, Fetching
  <2>3. \A d \in Dirs \ {fetches} : disk'[d] = disk[d] /\ written'[d] = written[d]
    BY <2>1 DEF IInv, Types
  <2>4. disk'[fetches] = written'[fetches]
    BY <2>1, <2>2 DEF IInv, Types, Intact
  <2>5. culler \in {"files", "remove", "dirs"} => Culling \in Dirs \ {fetches}
    BY <2>2, DoomedTail DEF IInv, Types, SequenceKept, RemovalJustified
  <2> QED
    BY <1>1, <2>3, <2>4, <2>5
       DEF MarkerInv, MarkedWhileEmptying, MarkerFirst, MarkerLast, Intact, Culling
<1> QED
  BY <1>2, <1>3 DEF FetcherStep, FetcherStops, Check, NotSaved, FetchFails,
     WaitOver,
     diskVars

LEMMA CullerMarker == IInv /\ MarkerInv /\ CullerStep => MarkerInv'
<1> SUFFICES ASSUME IInv, MarkerInv, CullerStep PROVE MarkerInv'
  OBVIOUS
<1> USE DEF MarkerInv, MarkedWhileEmptying, MarkerFirst, MarkerLast, Intact
<1>0. /\ UNCHANGED written
      /\ culler \in {"mark", "files", "remove", "dirs"} => Culling \in Dirs
  BY DoomedTail DEF IInv, Types, SequenceKept, CullerStep, CompareFails,
     CompareDone,
     Mark, VisitFile, RemoveFile, FilesGone, DeletionAbandoned, RemoveDirs,
     DirsLeft, diskVars
<1>1. CASE CompareFails \/ CompareDone
  BY <1>0, <1>1 DEF CompareFails, CompareDone, diskVars
<1>2. CASE Mark
  BY <1>0, <1>2 DEF Mark, Culling
<1>3. CASE RemoveFile
  <2>1. /\ culler = "remove" /\ culler' = "files"
        /\ UNCHANGED <<marked, unmarkable, toCull>> /\ Culling' = Culling
    BY <1>3 DEF RemoveFile, Culling
  <2>2. PICK p \in toVisit :
          /\ toVisit' = toVisit \ {p}
          /\ \/ /\ disk' = [disk EXCEPT ![Culling] = @ \ {p}]
                /\ UNCHANGED encounteredError
             \/ encounteredError' = TRUE /\ UNCHANGED disk
    BY <1>3 DEF RemoveFile
  <2>3. /\ \A d \in Dirs \ {Culling} : disk'[d] = disk[d]
        /\ ~encounteredError' => disk'[Culling] = disk[Culling] \ {p} /\ ~encounteredError
    BY <1>0, <1>3, <2>2 DEF RemoveFile, IInv, Types
  <2> QED
    BY <1>0, <1>3, <2>1, <2>2, <2>3 DEF RemoveFile
<1>4. CASE VisitFile \/ FilesGone
  BY <1>0, <1>4 DEF VisitFile, FilesGone, cullVars, diskVars, Culling
<1>5. CASE DeletionAbandoned
  BY <1>0, <1>5 DEF DeletionAbandoned, NextToCull, diskVars
<1>6. CASE RemoveDirs \/ DirsLeft
  BY <1>0, <1>6 DEF RemoveDirs, DirsLeft, NextToCull
<1> QED
  BY <1>1, <1>2, <1>3, <1>4, <1>5, <1>6 DEF CullerStep

LEMMA OthersMarker == MarkerInv /\ (PcfStep \/ AskStop \/ Restart \/ UNCHANGED vars) => MarkerInv'
<1> SUFFICES ASSUME MarkerInv, PcfStep \/ AskStop \/ Restart \/ UNCHANGED vars
             PROVE  MarkerInv'
  OBVIOUS
<1>1. UNCHANGED <<disk, written, marked, unmarkable>>
  BY DEF PcfStep, AskStop, Restart, vars, diskVars
<1>2. \/ UNCHANGED <<culler, toCull, toVisit, encounteredError>>
      \/ culler' \notin {"files", "remove", "dirs"}
  BY DEF PcfStep, FetchDone, AddDir, ReceiveDir, StopFetch, FetchStopped,
     StopWaiting,
     FetchTime, RequestStop, StopTaken, ReceiveStop, CullerStopped,
     AnswerStop, Answer,
     AskStop, Restart, vars, cullerVars, cullVars
<1> QED
  BY <1>1, <1>2 DEF MarkerInv, MarkedWhileEmptying, MarkerFirst, MarkerLast,
     Intact, Culling

(* A directory that is partly gone is known for it by its marker, unless   *)
(* that could not be made, wherever its deletion was stopped or failed and *)
(* however often the program was started again.                            *)
THEOREM MarkerKept == Spec => []MarkedWhileEmptying
<1>1. IInv /\ MarkerInv /\ [Next]_vars => MarkerInv'
  BY FetcherMarker, CullerMarker, OthersMarker DEF Next, CullerRuns
<1>2. MarkerInv => MarkedWhileEmptying
  BY DEF MarkerInv
<1> QED
  BY <1>1, <1>2, InitMarker, Invariant, PTL DEF Spec

----------------------------------------------------------------------------
(* Once stopped, all is quiet.  That the marker is in a directory that is  *)
(* there (TypeOK) needs to know that those to be culled are, each once,    *)
(* and that the first of a sequence is, once it has been compared.         *)
OnDisk ==
  /\ \A i \in DOMAIN toCull : toCull[i] \in exists
  /\ \A i, j \in DOMAIN toCull : toCull[i] = toCull[j] => i = j
  /\ firstDir # prevDir => firstDir \in exists

(* Each is stopped before the one that asks it says so.                    *)
StoppedInTurn ==
  /\ pcf \in {"stopSent", "stopTaken", "answering", "done"} => doStop
  /\ pcf = "stopTaken" => culler = "answer"
  /\ pcf \in {"answering", "done"} => culler = "stopping"
  /\ main = "answered" => pcf = "done"

QuietInv == TypeOK /\ OnDisk /\ StoppedInTurn

FetcherTypes ==
  /\ fetcher \in {"none", "check", "fetch", "wait", "answer"}
  /\ file \in Files /\ waitFor \in 1 .. MaxWait
  /\ stopCh \in BOOLEAN /\ doneCh \in BOOLEAN

(* At the start no directory is there.                                     *)
LEMMA InitQuiet == Init => QuietInv
<1> SUFFICES ASSUME Init PROVE QuietInv
  OBVIOUS
<1> USE FetchAssumption, CullerAssumption DEF Init, InitDisk, InitCuller, NoDir
<1>1. CullerTypeOK
  <2>1. toCull \in Seq(Dirs) /\ Len(toCull) = 0
    OBVIOUS
  <2>2. disk \in [Dirs -> SUBSET Items] /\ written \in [Dirs -> SUBSET Items]
    OBVIOUS
  <2>3. encounteredError \in BOOLEAN /\ doStop \in BOOLEAN
    OBVIOUS
  <2> HIDE DEF Init, InitDisk, InitCuller
  <2>4. /\ exists \subseteq Dirs /\ marked \subseteq exists
        /\ unmarkable \subseteq Dirs /\ toVisit \subseteq Items
        /\ announcing \subseteq Dirs
    BY DEF Init, InitDisk, InitCuller
  <2>5. /\ culler = "select" /\ culledDirCh = "open"
        /\ {firstDir, prevDir, currentDir} \subseteq Dirs \union {NoDir}
    BY DEF Init, InitDisk, InitCuller
  <2> QED
    BY <2>1, <2>2, <2>3, <2>4, <2>5 DEF CullerTypeOK
<1>3. TypeOK
  <2>1. fetcher = "check" /\ file \in Files /\ waitFor \in 1 .. MaxWait
    BY DEF RouteList
  <2>2. stopCh \in BOOLEAN /\ doneCh \in BOOLEAN /\ stopping \in BOOLEAN
    OBVIOUS
  <2>3. /\ main = "run" /\ pcf = "fetching" /\ fetches \in Dirs
        /\ restarts \in 0 .. MaxRestarts
    OBVIOUS
  <2> HIDE DEF Init, InitDisk, InitCuller
  <2> QED
    BY <1>1, <2>1, <2>2, <2>3 DEF TypeOK
<1>2. OnDisk /\ StoppedInTurn
  BY DEF OnDisk, StoppedInTurn
<1> QED
  BY <1>2, <1>3 DEF QuietInv

(* The fetcher makes the directory, if need be, that it writes to.         *)
LEMMA FetcherQuiet == IInv /\ QuietInv /\ FetcherStep => QuietInv'
<1> SUFFICES ASSUME IInv, QuietInv, FetcherStep PROVE QuietInv'
  OBVIOUS
<1> USE FetchAssumption, CullerAssumption
<1>1. /\ UNCHANGED <<culler, firstDir, prevDir, currentDir, toCull, toVisit,
                     encounteredError, doStop, announcing, culledDirCh,
                     main, pcf, stopping, fetches, restarts, marked, unmarkable>>
      /\ exists' \in {exists, exists \union {fetches}}
  BY DEF FetcherStep, FetcherStops, Check, Fetched, NotSaved, FetchFails,
     WaitOver, diskVars, cullerVars, seqVars, cullVars, chVars
<1>2. disk' \in [Dirs -> SUBSET Items] /\ written' \in [Dirs -> SUBSET Items]
  <2>1. CASE Fetched
    BY <2>1 DEF QuietInv, TypeOK, CullerTypeOK, Fetched
  <2>2. CASE ~ Fetched
    BY <2>2 DEF QuietInv, TypeOK, CullerTypeOK, FetcherStep, FetcherStops,
       Check, NotSaved, FetchFails, WaitOver, diskVars
  <2> QED
    BY <2>1, <2>2
<1>3. FetcherTypes'
  <2>1. /\ file \in Files /\ waitFor \in 1 .. MaxWait
        /\ stopCh \in BOOLEAN /\ doneCh \in BOOLEAN
    BY DEF QuietInv, TypeOK
  <2>2. ASSUME NEW received \in BOOLEAN, NextFile(received) PROVE FetcherTypes'
    <3>1. /\ fetcher' \in {"none", "check"} /\ waitFor' = 1
          /\ file' \in Files
      BY <2>1, <2>2 DEF NextFile, RouteList
    <3>2. stopCh' \in BOOLEAN /\ doneCh' \in BOOLEAN
      BY <2>1, <2>2 DEF NextFile
    <3> QED
      BY <3>1, <3>2 DEF FetcherTypes
  <2>3. CASE FetcherStops \/ Check \/ FetchFails
    <3>1. /\ fetcher' \in {"answer", "fetch", "wait"} /\ waitFor' \in 1 .. MaxWait
          /\ file' \in Files
      BY <2>1, <2>3 DEF FetcherStops, Check, FetchFails, RouteList
    <3>2. stopCh' \in BOOLEAN /\ doneCh' \in BOOLEAN
      BY <2>1, <2>3 DEF FetcherStops, Check, FetchFails
    <3> QED
      BY <3>1, <3>2 DEF FetcherTypes
  <2>4. CASE WaitOver /\ 2 * waitFor < MaxWait
    BY <2>1, <2>4 DEF FetcherTypes, WaitOver
  <2> QED
    BY <2>2, <2>3, <2>4 DEF FetcherStep, Fetched, NotSaved, WaitOver
<1>4. TypeOK'
  BY <1>1, <1>2, <1>3 DEF QuietInv, TypeOK, CullerTypeOK, FetcherTypes
<1>5. OnDisk' /\ StoppedInTurn'
  BY <1>1 DEF QuietInv, OnDisk, StoppedInTurn
<1> QED
  BY <1>4, <1>5 DEF QuietInv

(* PeriodicConfigFetcher passes the stop on and waits for it.              *)
LEMMA PcfQuiet == IInv /\ QuietInv /\ PcfStep => QuietInv'
<1> SUFFICES ASSUME IInv, QuietInv, PcfStep PROVE QuietInv'
  OBVIOUS
<1> USE FetchAssumption, CullerAssumption
<1>1. /\ UNCHANGED <<disk, exists, marked, written, unmarkable, toCull, toVisit,
                     encounteredError, announcing, culledDirCh, restarts>>
      /\ {firstDir', prevDir', currentDir'}
           \subseteq {firstDir, prevDir, currentDir, fetches}
      /\ firstDir' = prevDir' \/ UNCHANGED <<firstDir, prevDir>>
      /\ fetches' \in Dirs
  BY DEF QuietInv, TypeOK, PcfStep, FetchDone, AddDir, ReceiveDir, StopFetch,
     FetchStopped, StopWaiting, FetchTime, StartAgencyConfigFetcher,
     RequestStop, StopTaken, ReceiveStop, CullerStopped, AnswerStop, Answer,
     diskVars, cullerVars, seqVars, cullVars, chVars, fetchVars
<1>2. /\ culler' \in {"select", "compare", "mark", "files", "remove", "dirs",
                       "answer", "stopping"}
      /\ doStop' \in BOOLEAN /\ stopping' \in BOOLEAN
      /\ main' \in {"run", "sending", "waiting", "answered"}
  BY DEF QuietInv, TypeOK, CullerTypeOK, PcfStep, FetchDone, AddDir, ReceiveDir,
     StopFetch, FetchStopped, StopWaiting, FetchTime, RequestStop, StopTaken,
     ReceiveStop, CullerStopped, AnswerStop, Answer, cullerVars
<1>3. /\ pcf' \in {"fetching", "adding", "waiting", "stopping", "stopSent",
                    "stopTaken", "answering", "done"}
      /\ fetcher' \in {fetcher, "none", "check"}
      /\ file' \in {file, RouteList} /\ waitFor' \in {waitFor, 1}
  BY DEF QuietInv, TypeOK, PcfStep, FetchDone, AddDir, AfterFetch, StopFetch,
     FetchStopped, StopWaiting, FetchTime, StartAgencyConfigFetcher,
     RequestStop, StopTaken, CullerStopped, Answer, fetchVars
<1>7. stopCh' \in BOOLEAN /\ doneCh' \in BOOLEAN
  BY DEF QuietInv, TypeOK, PcfStep, FetchDone, AddDir, StopFetch,
     FetchStopped, StopWaiting, FetchTime, StartAgencyConfigFetcher,
     RequestStop, StopTaken, CullerStopped, Answer, fetchVars
<1>4. TypeOK'
  BY <1>1, <1>2, <1>3, <1>7 DEF QuietInv, TypeOK, CullerTypeOK, RouteList
<1>5. OnDisk'
  BY <1>1 DEF QuietInv, OnDisk
<1>6. StoppedInTurn'
  BY DEF QuietInv, StoppedInTurn, TypeOK, CullerTypeOK, PcfStep, FetchDone,
     AddDir, ReceiveDir, AfterFetch, StopFetch, FetchStopped, StopWaiting,
     FetchTime, StartAgencyConfigFetcher, RequestStop, StopTaken, ReceiveStop,
     CullerStopped, AnswerStop, Answer, cullerVars
<1> QED
  BY <1>4, <1>5, <1>6 DEF QuietInv

(* What a comparison dooms is on the disk, each once.                      *)
LEMMA CompareQuiet ==
  ASSUME IInv, QuietInv, CompareDone
  PROVE  CullerTypeOK' /\ OnDisk'
<1> USE CullerAssumption DEF NoDir
<1>1. PICK s \in {"DirectoriesEquivalent", "Dir1MoreComplete", "Dir2MoreComplete",
                  "DirectoriesDifferent"} :
        /\ \/ /\ culler' = "select" /\ UNCHANGED toCull
              /\ announcing' = announcing \union
                   IF Announcing THEN {Culled(s)[i] : i \in DOMAIN Culled(s)}
                                 ELSE {}
           \/ /\ toCull' = Culled(s) /\ UNCHANGED announcing
              /\ culler' \in {"select", "mark"}
        /\ prevDir' = IF s = "Dir1MoreComplete" THEN prevDir ELSE currentDir
        /\ firstDir' = IF s \in {"DirectoriesDifferent", "Dir2MoreComplete"}
                       THEN currentDir ELSE firstDir
  BY DEF CompareDone, Similarity
<1>2. /\ UNCHANGED <<disk, exists, marked, written, unmarkable, toVisit,
                     encounteredError, doStop, culledDirCh>>
      /\ currentDir' = NoDir
      /\ culler = "compare" /\ {prevDir, currentDir} \subseteq exists
  BY DEF CompareDone, diskVars
<1>3. /\ exists \subseteq Dirs /\ {firstDir, prevDir, currentDir} \subseteq exists
      /\ toCull = <<>>
  BY <1>2 DEF QuietInv, TypeOK, CullerTypeOK, OnDisk, IInv, SequenceKept
<1>4. /\ Culled(s) \in Seq(Dirs) /\ Len(Culled(s)) <= 2
      /\ \A i \in DOMAIN Culled(s) : Culled(s)[i] \in exists
      /\ \A i, j \in DOMAIN Culled(s) : Culled(s)[i] = Culled(s)[j] => i = j
  <2> DEFINE cull == Culled(s)
  <2>1. CASE cull = <<>>
    BY <2>1
  <2>2. ASSUME NEW d \in exists, cull = <<d>> PROVE <1>4
    BY <1>3, <2>2
  <2>3. ASSUME NEW d \in exists, NEW e \in exists, d # e, cull = <<d, e>>
        PROVE  <1>4
    BY <1>3, <2>3
  <2>4. \/ cull = <<>> \/ cull \in {<<firstDir>>, <<prevDir>>, <<currentDir>>}
        \/ cull = <<firstDir, prevDir>> /\ firstDir # prevDir
    BY DEF Culled
  <2> QED
    BY <1>3, <2>1, <2>2, <2>3, <2>4
<1>5. toCull' \in Seq(Dirs) /\ Len(toCull') <= 2 /\ announcing' \subseteq Dirs
  <2>1. {Culled(s)[i] : i \in DOMAIN Culled(s)} \subseteq Dirs
    BY <1>3, <1>4
  <2>2. announcing \subseteq Dirs /\ toCull \in Seq(Dirs) /\ Len(toCull) <= 2
    BY DEF QuietInv, TypeOK, CullerTypeOK
  <2> QED
    BY <1>1, <1>4, <2>1, <2>2
<1>6. CullerTypeOK'
  BY <1>1, <1>2, <1>3, <1>5 DEF QuietInv, TypeOK, CullerTypeOK
<1>7. OnDisk'
  BY <1>1, <1>2, <1>3, <1>4 DEF OnDisk
<1> QED
  BY <1>6, <1>7

(* Deleting the first of the doomed leaves the others where they are.      *)
LEMMA DeletionQuiet ==
  ASSUME IInv, QuietInv,
         Mark \/ VisitFile \/ RemoveFile \/ FilesGone \/ DeletionAbandoned
         \/ RemoveDirs \/ DirsLeft
  PROVE  CullerTypeOK' /\ OnDisk'
<1> USE CullerAssumption
<1>1. /\ toCull # <<>> /\ Culling \in Dirs /\ Culling \in exists
      /\ Tail(toCull) \in Seq(Dirs) /\ Len(Tail(toCull)) <= 2
      /\ \A i \in DOMAIN Tail(toCull) :
           /\ i + 1 \in DOMAIN toCull /\ Tail(toCull)[i] = toCull[i + 1]
           /\ Tail(toCull)[i] \in exists \ {Culling}
      /\ \A i, j \in DOMAIN Tail(toCull) :
           Tail(toCull)[i] = Tail(toCull)[j] => i = j
  <2>1. /\ toCull # <<>> /\ toCull \in Seq(Dirs) /\ Len(toCull) <= 2
        /\ \A i \in DOMAIN toCull : toCull[i] \in exists
        /\ \A i, j \in DOMAIN toCull : toCull[i] = toCull[j] => i = j
    BY DEF IInv, SequenceKept, QuietInv, TypeOK, CullerTypeOK, OnDisk, Mark,
       VisitFile, RemoveFile, FilesGone, DeletionAbandoned, RemoveDirs, DirsLeft
  <2>2. /\ Tail(toCull) \in Seq(Dirs) /\ Len(Tail(toCull)) <= 2
        /\ \A i \in DOMAIN Tail(toCull) :
             i \in Nat \ {0} /\ i + 1 \in DOMAIN toCull
             /\ Tail(toCull)[i] = toCull[i + 1]
        /\ 1 \in DOMAIN toCull /\ Culling = toCull[1]
    BY <2>1 DEF Culling
  <2>3. Culling \in Dirs
    BY <2>1, <2>2
  <2>4. \A i \in DOMAIN Tail(toCull) : Tail(toCull)[i] \in exists \ {Culling}
    BY <2>1, <2>2
  <2>5. \A i, j \in DOMAIN Tail(toCull) :
          Tail(toCull)[i] = Tail(toCull)[j] => i = j
    BY <2>1, <2>2
  <2> QED
    BY <2>1, <2>2, <2>3, <2>4, <2>5
<1>2. /\ UNCHANGED <<firstDir, prevDir, currentDir, doStop, culledDirCh, written>>
      /\ \/ UNCHANGED <<toCull, encounteredError, announcing>>
              /\ culler' \in {"files", "remove", "dirs"}
         \/ /\ toCull' = Tail(toCull) /\ encounteredError' = FALSE
            /\ announcing' \subseteq announcing \union {Culling}
            /\ culler' \in {"select", "mark"}
         \/ UNCHANGED <<toCull, announcing>> /\ culler' = "files"
            /\ encounteredError' \in {TRUE, encounteredError}
      /\ toVisit' \in {{}, disk[Culling]} \/ toVisit' \subseteq toVisit
  BY DEF Mark, VisitFile, RemoveFile, FilesGone, DeletionAbandoned, RemoveDirs,
     DirsLeft, NextToCull, seqVars, cullVars, chVars, diskVars
<1>3. /\ disk' \in [Dirs -> SUBSET Items]
      /\ exists' \in {exists, exists \ {Culling}}
      /\ marked' \subseteq exists'
      /\ unmarkable' \subseteq Dirs
      /\ exists' = exists \/ toCull' = Tail(toCull)
  <2>1. /\ disk \in [Dirs -> SUBSET Items] /\ marked \subseteq exists
        /\ exists \subseteq Dirs /\ unmarkable \subseteq Dirs
    BY DEF QuietInv, TypeOK, CullerTypeOK
  <2>2. CASE RemoveFile
    <3>1. disk' = disk \/ \E p : disk' = [disk EXCEPT ![Culling] = @ \ {p}]
      BY <2>2 DEF RemoveFile
    <3>2. disk' \in [Dirs -> SUBSET Items]
      BY <1>1, <2>1, <3>1
    <3> QED
      BY <2>1, <2>2, <3>2 DEF RemoveFile
  <2>3. CASE Mark \/ VisitFile \/ FilesGone \/ DeletionAbandoned
    BY <1>1, <2>1, <2>3 DEF Mark, VisitFile, FilesGone, DeletionAbandoned, diskVars
  <2>4. CASE RemoveDirs \/ DirsLeft
    BY <1>1, <2>1, <2>4 DEF RemoveDirs, DirsLeft, NextToCull
  <2> QED
    BY <2>2, <2>3, <2>4
<1>4. CullerTypeOK'
  <2>1. toVisit' \subseteq Items
    <3>1. toVisit \subseteq Items /\ disk[Culling] \subseteq Items
      BY <1>1 DEF QuietInv, TypeOK, CullerTypeOK
    <3> QED
      BY <1>2, <3>1
  <2>2. encounteredError' \in BOOLEAN /\ doStop' \in BOOLEAN
    BY <1>2 DEF QuietInv, TypeOK, CullerTypeOK
  <2>3. announcing' \subseteq Dirs
    BY <1>1, <1>2 DEF QuietInv, TypeOK, CullerTypeOK
  <2>4. toCull' \in Seq(Dirs) /\ Len(toCull') <= 2
    BY <1>1, <1>2 DEF QuietInv, TypeOK, CullerTypeOK
  <2> QED
    BY <1>2, <1>3, <2>1, <2>2, <2>3, <2>4 DEF QuietInv, TypeOK, CullerTypeOK
<1>5. OnDisk'
  <2>1. firstDir # prevDir => firstDir \in exists \ {Culling}
    BY <1>1, DoomedTail, CullerIsSane
       DEF QuietInv, OnDisk, IInv, Types, SequenceKept, Safe
  <2>2. firstDir' # prevDir' => firstDir' \in exists'
    BY <1>2, <1>3, <2>1
  <2>3. CASE toCull' = Tail(toCull)
    BY <1>1, <1>3, <2>2, <2>3 DEF OnDisk
  <2>4. CASE toCull' = toCull /\ exists' = exists
    BY <2>2, <2>4 DEF QuietInv, OnDisk
  <2> QED
    BY <1>2, <1>3, <2>3, <2>4
<1> QED
  BY <1>4, <1>5

(* The culler, whatever it does.                                           *)
LEMMA CullerQuiet == IInv /\ QuietInv /\ CullerRuns => QuietInv'
<1> SUFFICES ASSUME IInv, QuietInv, CullerRuns PROVE QuietInv'
  OBVIOUS
<1>1. CullerTypeOK' /\ OnDisk'
  <2>1. CASE CompareFails
    BY <2>1 DEF QuietInv, TypeOK, CullerTypeOK, OnDisk, CompareFails, cullVars,
       chVars, diskVars
  <2> QED
    BY <2>1, CompareQuiet, DeletionQuiet DEF CullerRuns, CullerStep
<1>2. TypeOK'
  BY <1>1 DEF QuietInv, TypeOK, CullerRuns, fetchVars
<1>3. StoppedInTurn'
  BY DEF QuietInv, StoppedInTurn, CullerRuns, CullerStep, CompareFails,
     CompareDone, Mark, VisitFile, RemoveFile, FilesGone, DeletionAbandoned,
     RemoveDirs, DirsLeft, NextToCull
<1> QED
  BY <1>1, <1>2, <1>3 DEF QuietInv

(* A signal, or a new start.                                               *)
LEMMA OthersQuiet ==
  IInv /\ QuietInv /\ (AskStop \/ Restart \/ UNCHANGED vars) => QuietInv'
<1> SUFFICES ASSUME IInv, QuietInv, AskStop \/ Restart \/ UNCHANGED vars
             PROVE  QuietInv'
  OBVIOUS
<1>1. CASE Restart
  <2> USE <1>1, FetchAssumption, CullerAssumption DEF Restart
  <2>1. UNCHANGED <<disk, exists, marked, written, unmarkable, announcing,
                    culledDirCh>>
    BY DEF diskVars, chVars
  <2>2. toCull' \in Seq(Dirs) /\ Len(toCull') = 0
    OBVIOUS
  <2>3. encounteredError' \in BOOLEAN /\ doStop' \in BOOLEAN
    OBVIOUS
  <2>4. /\ culler' = "select" /\ toVisit' = {}
        /\ firstDir' = NoDir /\ prevDir' = NoDir /\ currentDir' = NoDir
    OBVIOUS
  <2>5. CullerTypeOK'
    BY <2>1, <2>2, <2>3, <2>4 DEF QuietInv, TypeOK, CullerTypeOK
  <2>6. stopCh' \in BOOLEAN /\ doneCh' \in BOOLEAN /\ stopping' \in BOOLEAN
    BY DEF StartAgencyConfigFetcher
  <2>7. /\ fetcher' = "check" /\ file' \in Files /\ waitFor' \in 1 .. MaxWait
        /\ main' = "run" /\ pcf' = "fetching" /\ fetches' \in Dirs
        /\ restarts' \in 0 .. MaxRestarts
    BY DEF StartAgencyConfigFetcher, RouteList, QuietInv, TypeOK
  <2>8. TypeOK'
    BY <2>5, <2>6, <2>7 DEF TypeOK
  <2>9. OnDisk' /\ StoppedInTurn'
    BY <2>2, <2>4, <2>7 DEF OnDisk, StoppedInTurn
  <2> QED
    BY <2>8, <2>9 DEF QuietInv
<1>2. CASE AskStop \/ UNCHANGED vars
  <2>1. /\ UNCHANGED <<disk, exists, marked, written, unmarkable, culler, firstDir,
                       prevDir, currentDir, toCull, toVisit, encounteredError,
                       doStop, announcing, culledDirCh, pcf, stopping, fetcher,
                       file, waitFor, stopCh, doneCh, fetches, restarts>>
        /\ main' \in {main, "sending"}
    BY <1>2 DEF AskStop, vars, diskVars, cullerVars, seqVars, cullVars, chVars,
       fetchVars
  <2> QED
    BY <2>1 DEF QuietInv, TypeOK, CullerTypeOK, OnDisk, StoppedInTurn
<1> QED
  BY <1>1, <1>2

(* Once the culler has been asked to stop nothing is written, and at most  *)
(* the file it had found before is removed, until it has taken the         *)
(* request; once main has been told that all has stopped nothing on the    *)
(* disk changes, until the program is started again.                       *)
THEOREM QuietOnceStopped == Spec => StoppedMeansQuiet
<1> DEFINE Quiet ==
             restarts' = restarts =>
               /\ pcf = "stopSent" =>
                    /\ UNCHANGED written
                    /\ UNCHANGED disk \/ culler = "remove"
                    /\ culler' = "remove" => culler = "remove"
               /\ pcf \in {"stopTaken", "answering"} => UNCHANGED disk
               /\ main = "answered" => UNCHANGED diskVars
<1>1. IInv /\ QuietInv /\ [Next]_vars => QuietInv'
  BY FetcherQuiet, PcfQuiet, CullerQuiet, OthersQuiet DEF Next
<1>2. QuietInv => TypeOK
  BY DEF QuietInv
<1>3. IInv /\ QuietInv /\ [Next]_vars => [Quiet]_vars
  <2> SUFFICES ASSUME IInv, QuietInv, Next
               PROVE  Quiet
    OBVIOUS
  <2>1. CASE FetcherStep
    <3>1. culler' = culler
      BY <2>1 DEF FetcherStep, cullerVars
    <3> QED
      BY <2>1, <3>1 DEF IInv, FetchInProgress, QuietInv, StoppedInTurn, FetcherStep,
         FetcherStops, Check, Fetched, NotSaved, FetchFails, WaitOver, diskVars
  <2>2. CASE PcfStep \/ AskStop
    <3>1. UNCHANGED diskVars
      BY <2>2 DEF PcfStep, AskStop
    <3>2. pcf = "stopSent" => culler' \in {culler, "answer"}
      BY <2>2 DEF PcfStep, FetchDone, AddDir, StopFetch, FetchStopped, StopWaiting,
         FetchTime, RequestStop, StopTaken, ReceiveStop, CullerStopped, Answer,
         AskStop, cullerVars
    <3> QED
      BY <3>1, <3>2 DEF diskVars
  <2>3. CASE CullerRuns
    BY <2>3 DEF QuietInv, StoppedInTurn, CullerRuns, CullerStep, CompareFails,
       CompareDone, Mark, VisitFile, RemoveFile, FilesGone, DeletionAbandoned,
       RemoveDirs, DirsLeft, NextToCull, diskVars
  <2>4. CASE Restart
    BY <2>4, FetchAssumption DEF QuietInv, TypeOK, Restart
  <2> QED
    BY <2>1, <2>2, <2>3, <2>4 DEF Next
<1> QED
  BY <1>1, <1>2, <1>3, InitQuiet, Invariant, PTL DEF Spec, StoppedMeansQuiet

----------------------------------------------------------------------------
(* What becomes of the files fetched: Agency, for any files and any hash.  *)

LEMMA Smallest ==
  ASSUME NEW T \in SUBSET Nat, T # {}
  PROVE  \E n \in T : \A m \in T : n <= m
<1> DEFINE R == OpToRel(<, Nat)
<1>1. IsWellFoundedOn(R, Nat)
  BY NatLessThanWellFounded
<1>2. \A m, n \in Nat : m < n => <<m, n>> \in R
  BY DEF OpToRel
<1> HIDE DEF R
<1>3. PICK n \in T : \A m \in T : ~ (<<m, n>> \in R)
  BY <1>1, WFMin
<1>4. n \in Nat /\ \A m \in T : m \in Nat /\ ~ (m < n)
  BY <1>2, <1>3
<1>5. \A m \in T : n <= m
  BY <1>4
<1> QED
  BY <1>5

(* A set with 0 and the successors of its numbers has all of them: the     *)
(* smallest that it lacks would follow one that it has.                    *)
LEMMA NatSet ==
  ASSUME NEW S, 0 \in S, \A n \in Nat : n \in S => n + 1 \in S
  PROVE  \A n \in Nat : n \in S
<1>1. SUFFICES ASSUME Nat \ S # {} PROVE FALSE
  OBVIOUS
<1>2. PICK n \in Nat \ S : \A m \in Nat \ S : n <= m
  BY <1>1, Smallest
<1>3. n # 0 /\ n - 1 \in Nat /\ ~ (n <= n - 1)
  BY <1>2
<1>4. n - 1 \in S
  BY <1>2, <1>3
<1>5. (n - 1) + 1 = n
  BY <1>2
<1> QED
  BY <1>2, <1>3, <1>4, <1>5

(* Taking the greatest from some of the first numbers leaves some of the   *)
(* numbers before it.                                                      *)
LEMMA GreatestTaken ==
  ASSUME NEW n \in Nat, NEW t \in SUBSET (1 .. n + 1), t # {}
  PROVE  Max(t) \in t /\ t \ {Max(t)} \in SUBSET (1 .. n)
<1> DEFINE bounds == {m \in Nat : \A x \in t : x <= m}
<1>1. bounds # {} /\ bounds \in SUBSET Nat
  <2>1. n + 1 \in bounds
    OBVIOUS
  <2> QED
    BY <2>1
<1>2. PICK m \in bounds : \A k \in bounds : m <= k
  BY <1>1, Smallest
<1>3. m \in Nat /\ \A x \in t : x <= m /\ x \in Nat \ {0}
  BY <1>2
<1>4. m \in t
  <2> SUFFICES ASSUME m \notin t PROVE FALSE
    OBVIOUS
  <2>1. PICK x \in t : TRUE
    OBVIOUS
  <2>2. \A y \in t : y <= m - 1
    BY <1>3
  <2>3. m - 1 \in Nat
    BY <1>3, <2>1
  <2>4. m - 1 \in bounds
    BY <2>2, <2>3
  <2>5. m <= m - 1
    BY <1>2, <2>4
  <2> QED
    BY <1>3, <2>5
<1>5. Max(t) = m
  <2>1. \A z \in t : (\A y \in t : z >= y) => z = m
    BY <1>3, <1>4
  <2>2. \A y \in t : m >= y
    BY <1>3
  <2> QED
    BY <1>4, <2>1, <2>2 DEF Max
<1>6. \A x \in t \ {m} : x \in 1 .. n
  BY <1>3, <1>4
<1> QED
  BY <1>4, <1>5, <1>6

(* What a fold computes, for each of those of the model: its steps in      *)
(* their order.                                                            *)
LEMMA StopsFolded ==
  ASSUME NEW ag, NEW config, NEW n \in Nat, DOMAIN config.stops = 1 .. n
  PROVE  \E acc : /\ acc[0] = ag
                  /\ \A k \in 1 .. n : acc[k] = AddStop(acc[k - 1], config.tag, config.stops[k])
                  /\ AddStops(ag, config) = acc[n]
<1> DEFINE F(f, k) == f = [t \in SUBSET (1 .. k) |->
                            IF t = {} THEN ag
                            ELSE AddStop(f[t \ {Max(t)}], config.tag, config.stops[Max(t)])]
           G == {k \in Nat : \E f : F(f, k)}
<1>1. 0 \in G
  <2> DEFINE f == [t \in SUBSET (1 .. 0) |-> ag]
  <2>1. \A t \in SUBSET (1 .. 0) : t = {}
    OBVIOUS
  <2>2. F(f, 0)
    BY <2>1
  <2> QED
    BY <2>2
<1>2. ASSUME NEW k \in Nat, k \in G PROVE k + 1 \in G
  <2>1. PICK f : F(f, k)
    BY <1>2
  <2> DEFINE step(h, t) == IF t = {} THEN ag
                           ELSE AddStop(h[t \ {Max(t)}], config.tag, config.stops[Max(t)])
             g == [t \in SUBSET (1 .. k + 1) |-> step(f, t)]
  <2>2. \A t \in SUBSET (1 .. k) : f[t] = step(f, t)
    BY <2>1
  <2>3. SUBSET (1 .. k) \subseteq SUBSET (1 .. k + 1)
    OBVIOUS
  <2>4. \A t \in SUBSET (1 .. k) : g[t] = f[t]
    <3> HIDE DEF step
    <3> QED
      BY <2>2, <2>3
  <2>5. ASSUME NEW t \in SUBSET (1 .. k + 1) PROVE step(f, t) = step(g, t)
    <3>1. t # {} => f[t \ {Max(t)}] = g[t \ {Max(t)}]
      <4> HIDE DEF g
      <4> QED
        BY <2>4, GreatestTaken
    <3> HIDE DEF g
    <3> QED
      BY <3>1
  <2>6. g = [t \in SUBSET (1 .. k + 1) |-> step(g, t)]
    <3> HIDE DEF step
    <3>1. \A t \in SUBSET (1 .. k + 1) : g[t] = step(f, t)
      OBVIOUS
    <3>2. g = [t \in SUBSET (1 .. k + 1) |-> g[t]]
      OBVIOUS
    <3> HIDE DEF g
    <3> QED
      BY <2>5, <3>1, <3>2
  <2>7. F(g, k + 1)
    <3> HIDE DEF g
    <3> QED
      BY <2>6
  <2>8. k + 1 \in Nat
    OBVIOUS
  <2> HIDE DEF F, g, step
  <2> QED
    BY <2>7, <2>8
<1>3. \E f : F(f, n)
  <2> HIDE DEF G
  <2>1. n \in G
    BY <1>1, <1>2, NatSet
  <2> QED
    BY <2>1 DEF G
<1> DEFINE iter == CHOOSE f : F(f, n)
           acc == [k \in 0 .. n |-> iter[1 .. k]]
<1>4. F(iter, n)
  BY <1>3
<1>5. AddStops(ag, config) = iter[1 .. n]
  BY DEF AddStops, FoldLeft, MapThenFoldSet
<1> HIDE DEF iter
<1>6. acc[0] = ag
  <2>1. 1 .. 0 \in SUBSET (1 .. n) /\ 1 .. 0 = {}
    OBVIOUS
  <2>2. iter[1 .. 0] = ag
    BY <1>4, <2>1
  <2> QED
    BY <2>2
<1>7. ASSUME NEW k \in 1 .. n
      PROVE  acc[k] = AddStop(acc[k - 1], config.tag, config.stops[k])
  <2>1. k - 1 \in Nat /\ k \in 0 .. n /\ k - 1 \in 0 .. n /\ 1 .. k \in SUBSET (1 .. n)
        /\ 1 .. k \in SUBSET (1 .. (k - 1) + 1) /\ k \in 1 .. k
    OBVIOUS
  <2>2. Max(1 .. k) = k
    BY <2>1 DEF Max
  <2>3. (1 .. k) \ {k} = 1 .. k - 1
    BY <2>1
  <2>4. iter[1 .. k] = AddStop(iter[1 .. k - 1], config.tag, config.stops[k])
    BY <1>4, <2>1, <2>2, <2>3
  <2> QED
    BY <2>1, <2>4
<1>8. AddStops(ag, config) = acc[n]
  BY <1>5
<1> HIDE DEF acc
<1> QED
  BY <1>6, <1>7, <1>8

LEMMA DirectionsFolded ==
  ASSUME NEW ag, NEW config, NEW n \in Nat, DOMAIN config.directions = 1 .. n
  PROVE  \E acc : /\ acc[0] = ag
                  /\ \A k \in 1 .. n : acc[k] = AddDirection(acc[k - 1], config, config.directions[k])
                  /\ AddDirections(ag, config) = acc[n]
<1> DEFINE F(f, k) == f = [t \in SUBSET (1 .. k) |->
                            IF t = {} THEN ag
                            ELSE AddDirection(f[t \ {Max(t)}], config, config.directions[Max(t)])]
           G == {k \in Nat : \E f : F(f, k)}
<1>1. 0 \in G
  <2> DEFINE f == [t \in SUBSET (1 .. 0) |-> ag]
  <2>1. \A t \in SUBSET (1 .. 0) : t = {}
    OBVIOUS
  <2>2. F(f, 0)
    BY <2>1
  <2> QED
    BY <2>2
<1>2. ASSUME NEW k \in Nat, k \in G PROVE k + 1 \in G
  <2>1. PICK f : F(f, k)
    BY <1>2
  <2> DEFINE step(h, t) == IF t = {} THEN ag
                           ELSE AddDirection(h[t \ {Max(t)}], config, config.directions[Max(t)])
             g == [t \in SUBSET (1 .. k + 1) |-> step(f, t)]
  <2>2. \A t \in SUBSET (1 .. k) : f[t] = step(f, t)
    BY <2>1
  <2>3. SUBSET (1 .. k) \subseteq SUBSET (1 .. k + 1)
    OBVIOUS
  <2>4. \A t \in SUBSET (1 .. k) : g[t] = f[t]
    <3> HIDE DEF step
    <3> QED
      BY <2>2, <2>3
  <2>5. ASSUME NEW t \in SUBSET (1 .. k + 1) PROVE step(f, t) = step(g, t)
    <3>1. t # {} => f[t \ {Max(t)}] = g[t \ {Max(t)}]
      <4> HIDE DEF g
      <4> QED
        BY <2>4, GreatestTaken
    <3> HIDE DEF g
    <3> QED
      BY <3>1
  <2>6. g = [t \in SUBSET (1 .. k + 1) |-> step(g, t)]
    <3> HIDE DEF step
    <3>1. \A t \in SUBSET (1 .. k + 1) : g[t] = step(f, t)
      OBVIOUS
    <3>2. g = [t \in SUBSET (1 .. k + 1) |-> g[t]]
      OBVIOUS
    <3> HIDE DEF g
    <3> QED
      BY <2>5, <3>1, <3>2
  <2>7. F(g, k + 1)
    <3> HIDE DEF g
    <3> QED
      BY <2>6
  <2>8. k + 1 \in Nat
    OBVIOUS
  <2> HIDE DEF F, g, step
  <2> QED
    BY <2>7, <2>8
<1>3. \E f : F(f, n)
  <2> HIDE DEF G
  <2>1. n \in G
    BY <1>1, <1>2, NatSet
  <2> QED
    BY <2>1 DEF G
<1> DEFINE iter == CHOOSE f : F(f, n)
           acc == [k \in 0 .. n |-> iter[1 .. k]]
<1>4. F(iter, n)
  BY <1>3
<1>5. AddDirections(ag, config) = iter[1 .. n]
  BY DEF AddDirections, FoldLeft, MapThenFoldSet
<1> HIDE DEF iter
<1>6. acc[0] = ag
  <2>1. 1 .. 0 \in SUBSET (1 .. n) /\ 1 .. 0 = {}
    OBVIOUS
  <2>2. iter[1 .. 0] = ag
    BY <1>4, <2>1
  <2> QED
    BY <2>2
<1>7. ASSUME NEW k \in 1 .. n
      PROVE  acc[k] = AddDirection(acc[k - 1], config, config.directions[k])
  <2>1. k - 1 \in Nat /\ k \in 0 .. n /\ k - 1 \in 0 .. n /\ 1 .. k \in SUBSET (1 .. n)
        /\ 1 .. k \in SUBSET (1 .. (k - 1) + 1) /\ k \in 1 .. k
    OBVIOUS
  <2>2. Max(1 .. k) = k
    BY <2>1 DEF Max
  <2>3. (1 .. k) \ {k} = 1 .. k - 1
    BY <2>1
  <2>4. iter[1 .. k] = AddDirection(iter[1 .. k - 1], config, config.directions[k])
    BY <1>4, <2>1, <2>2, <2>3
  <2> QED
    BY <2>1, <2>4
<1>8. AddDirections(ag, config) = acc[n]
  BY <1>5
<1> HIDE DEF acc
<1> QED
  BY <1>6, <1>7, <1>8

LEMMA PathsFolded ==
  ASSUME NEW ag, NEW config, ~ ag.panic, NEW n \in Nat, DOMAIN config.paths = 1 .. n
  PROVE  \E acc : /\ acc[0] = ag
                  /\ \A k \in 1 .. n : acc[k] = AddPath(acc[k - 1], config, config.paths[k])
                  /\ AddPaths(ag, config) = acc[n]
<1> DEFINE F(f, k) == f = [t \in SUBSET (1 .. k) |->
                            IF t = {} THEN ag
                            ELSE AddPath(f[t \ {Max(t)}], config, config.paths[Max(t)])]
           G == {k \in Nat : \E f : F(f, k)}
<1>1. 0 \in G
  <2> DEFINE f == [t \in SUBSET (1 .. 0) |-> ag]
  <2>1. \A t \in SUBSET (1 .. 0) : t = {}
    OBVIOUS
  <2>2. F(f, 0)
    BY <2>1
  <2> QED
    BY <2>2
<1>2. ASSUME NEW k \in Nat, k \in G PROVE k + 1 \in G
  <2>1. PICK f : F(f, k)
    BY <1>2
  <2> DEFINE step(h, t) == IF t = {} THEN ag
                           ELSE AddPath(h[t \ {Max(t)}], config, config.paths[Max(t)])
             g == [t \in SUBSET (1 .. k + 1) |-> step(f, t)]
  <2>2. \A t \in SUBSET (1 .. k) : f[t] = step(f, t)
    BY <2>1
  <2>3. SUBSET (1 .. k) \subseteq SUBSET (1 .. k + 1)
    OBVIOUS
  <2>4. \A t \in SUBSET (1 .. k) : g[t] = f[t]
    <3> HIDE DEF step
    <3> QED
      BY <2>2, <2>3
  <2>5. ASSUME NEW t \in SUBSET (1 .. k + 1) PROVE step(f, t) = step(g, t)
    <3>1. t # {} => f[t \ {Max(t)}] = g[t \ {Max(t)}]
      <4> HIDE DEF g
      <4> QED
        BY <2>4, GreatestTaken
    <3> HIDE DEF g
    <3> QED
      BY <3>1
  <2>6. g = [t \in SUBSET (1 .. k + 1) |-> step(g, t)]
    <3> HIDE DEF step
    <3>1. \A t \in SUBSET (1 .. k + 1) : g[t] = step(f, t)
      OBVIOUS
    <3>2. g = [t \in SUBSET (1 .. k + 1) |-> g[t]]
      OBVIOUS
    <3> HIDE DEF g
    <3> QED
      BY <2>5, <3>1, <3>2
  <2>7. F(g, k + 1)
    <3> HIDE DEF g
    <3> QED
      BY <2>6
  <2>8. k + 1 \in Nat
    OBVIOUS
  <2> HIDE DEF F, g, step
  <2> QED
    BY <2>7, <2>8
<1>3. \E f : F(f, n)
  <2> HIDE DEF G
  <2>1. n \in G
    BY <1>1, <1>2, NatSet
  <2> QED
    BY <2>1 DEF G
<1> DEFINE iter == CHOOSE f : F(f, n)
           acc == [k \in 0 .. n |-> iter[1 .. k]]
<1>4. F(iter, n)
  BY <1>3
<1>5. AddPaths(ag, config) = iter[1 .. n]
  BY DEF AddPaths, FoldLeft, MapThenFoldSet
<1> HIDE DEF iter
<1>6. acc[0] = ag
  <2>1. 1 .. 0 \in SUBSET (1 .. n) /\ 1 .. 0 = {}
    OBVIOUS
  <2>2. iter[1 .. 0] = ag
    BY <1>4, <2>1
  <2> QED
    BY <2>2
<1>7. ASSUME NEW k \in 1 .. n
      PROVE  acc[k] = AddPath(acc[k - 1], config, config.paths[k])
  <2>1. k - 1 \in Nat /\ k \in 0 .. n /\ k - 1 \in 0 .. n /\ 1 .. k \in SUBSET (1 .. n)
        /\ 1 .. k \in SUBSET (1 .. (k - 1) + 1) /\ k \in 1 .. k
    OBVIOUS
  <2>2. Max(1 .. k) = k
    BY <2>1 DEF Max
  <2>3. (1 .. k) \ {k} = 1 .. k - 1
    BY <2>1
  <2>4. iter[1 .. k] = AddPath(iter[1 .. k - 1], config, config.paths[k])
    BY <1>4, <2>1, <2>2, <2>3
  <2> QED
    BY <2>1, <2>4
<1>8. AddPaths(ag, config) = acc[n]
  BY <1>5
<1> HIDE DEF acc
<1> QED
  BY <1>6, <1>7, <1>8

LEMMA FilesFolded ==
  ASSUME NEW files, NEW n \in Nat, DOMAIN files = 1 .. n
  PROVE  \E acc : /\ acc[0] = NewAgency
                  /\ \A k \in 1 .. n : acc[k] = ParseNext(acc[k - 1], files[k])
                  /\ ParseRouteConfigsDir(files) = acc[n]
<1> DEFINE F(f, k) == f = [t \in SUBSET (1 .. k) |->
                            IF t = {} THEN NewAgency
                            ELSE ParseNext(f[t \ {Max(t)}], files[Max(t)])]
           G == {k \in Nat : \E f : F(f, k)}
<1>1. 0 \in G
  <2> DEFINE f == [t \in SUBSET (1 .. 0) |-> NewAgency]
  <2>1. \A t \in SUBSET (1 .. 0) : t = {}
    OBVIOUS
  <2>2. F(f, 0)
    BY <2>1
  <2> QED
    BY <2>2
<1>2. ASSUME NEW k \in Nat, k \in G PROVE k + 1 \in G
  <2>1. PICK f : F(f, k)
    BY <1>2
  <2> DEFINE step(h, t) == IF t = {} THEN NewAgency
                           ELSE ParseNext(h[t \ {Max(t)}], files[Max(t)])
             g == [t \in SUBSET (1 .. k + 1) |-> step(f, t)]
  <2>2. \A t \in SUBSET (1 .. k) : f[t] = step(f, t)
    BY <2>1
  <2>3. SUBSET (1 .. k) \subseteq SUBSET (1 .. k + 1)
    OBVIOUS
  <2>4. \A t \in SUBSET (1 .. k) : g[t] = f[t]
    <3> HIDE DEF step
    <3> QED
      BY <2>2, <2>3
  <2>5. ASSUME NEW t \in SUBSET (1 .. k + 1) PROVE step(f, t) = step(g, t)
    <3>1. t # {} => f[t \ {Max(t)}] = g[t \ {Max(t)}]
      <4> HIDE DEF g
      <4> QED
        BY <2>4, GreatestTaken
    <3> HIDE DEF g
    <3> QED
      BY <3>1
  <2>6. g = [t \in SUBSET (1 .. k + 1) |-> step(g, t)]
    <3> HIDE DEF step
    <3>1. \A t \in SUBSET (1 .. k + 1) : g[t] = step(f, t)
      OBVIOUS
    <3>2. g = [t \in SUBSET (1 .. k + 1) |-> g[t]]
      OBVIOUS
    <3> HIDE DEF g
    <3> QED
      BY <2>5, <3>1, <3>2
  <2>7. F(g, k + 1)
    <3> HIDE DEF g
    <3> QED
      BY <2>6
  <2>8. k + 1 \in Nat
    OBVIOUS
  <2> HIDE DEF F, g, step
  <2> QED
    BY <2>7, <2>8
<1>3. \E f : F(f, n)
  <2> HIDE DEF G
  <2>1. n \in G
    BY <1>1, <1>2, NatSet
  <2> QED
    BY <2>1 DEF G
<1> DEFINE iter == CHOOSE f : F(f, n)
           acc == [k \in 0 .. n |-> iter[1 .. k]]
<1>4. F(iter, n)
  BY <1>3
<1>5. ParseRouteConfigsDir(files) = iter[1 .. n]
  BY DEF ParseRouteConfigsDir, FoldLeft, MapThenFoldSet
<1> HIDE DEF iter
<1>6. acc[0] = NewAgency
  <2>1. 1 .. 0 \in SUBSET (1 .. n) /\ 1 .. 0 = {}
    OBVIOUS
  <2>2. iter[1 .. 0] = NewAgency
    BY <1>4, <2>1
  <2> QED
    BY <2>2
<1>7. ASSUME NEW k \in 1 .. n
      PROVE  acc[k] = ParseNext(acc[k - 1], files[k])
  <2>1. k - 1 \in Nat /\ k \in 0 .. n /\ k - 1 \in 0 .. n /\ 1 .. k \in SUBSET (1 .. n)
        /\ 1 .. k \in SUBSET (1 .. (k - 1) + 1) /\ k \in 1 .. k
    OBVIOUS
  <2>2. Max(1 .. k) = k
    BY <2>1 DEF Max
  <2>3. (1 .. k) \ {k} = 1 .. k - 1
    BY <2>1
  <2>4. iter[1 .. k] = ParseNext(iter[1 .. k - 1], files[k])
    BY <1>4, <2>1, <2>2, <2>3
  <2> QED
    BY <2>1, <2>4
<1>8. ParseRouteConfigsDir(files) = acc[n]
  BY <1>5
<1> HIDE DEF acc
<1> QED
  BY <1>6, <1>7, <1>8

LEMMA DirectionsReadFolded ==
  ASSUME NEW ag, NEW elem, NEW dirs, dirs = SetToSeq(elem.directions),
         NEW n \in Nat, DOMAIN dirs = 1 .. n
  PROVE  \E acc : /\ acc[0] = ag
                  /\ \A k \in 1 .. n : acc[k] = InitDirection(Forget(acc[k - 1]), elem.tag, dirs[k])
                  /\ ReadDirections(ag, elem) = acc[n]
<1> DEFINE F(f, k) == f = [t \in SUBSET (1 .. k) |->
                            IF t = {} THEN ag
                            ELSE InitDirection(Forget(f[t \ {Max(t)}]), elem.tag, dirs[Max(t)])]
           G == {k \in Nat : \E f : F(f, k)}
<1>1. 0 \in G
  <2> DEFINE f == [t \in SUBSET (1 .. 0) |-> ag]
  <2>1. \A t \in SUBSET (1 .. 0) : t = {}
    OBVIOUS
  <2>2. F(f, 0)
    BY <2>1
  <2> QED
    BY <2>2
<1>2. ASSUME NEW k \in Nat, k \in G PROVE k + 1 \in G
  <2>1. PICK f : F(f, k)
    BY <1>2
  <2> DEFINE step(h, t) == IF t = {} THEN ag
                           ELSE InitDirection(Forget(h[t \ {Max(t)}]), elem.tag, dirs[Max(t)])
             g == [t \in SUBSET (1 .. k + 1) |-> step(f, t)]
  <2>2. \A t \in SUBSET (1 .. k) : f[t] = step(f, t)
    BY <2>1
  <2>3. SUBSET (1 .. k) \subseteq SUBSET (1 .. k + 1)
    OBVIOUS
  <2>4. \A t \in SUBSET (1 .. k) : g[t] = f[t]
    <3> HIDE DEF step
    <3> QED
      BY <2>2, <2>3
  <2>5. ASSUME NEW t \in SUBSET (1 .. k + 1) PROVE step(f, t) = step(g, t)
    <3>1. t # {} => f[t \ {Max(t)}] = g[t \ {Max(t)}]
      <4> HIDE DEF g
      <4> QED
        BY <2>4, GreatestTaken
    <3> HIDE DEF g
    <3> QED
      BY <3>1
  <2>6. g = [t \in SUBSET (1 .. k + 1) |-> step(g, t)]
    <3> HIDE DEF step
    <3>1. \A t \in SUBSET (1 .. k + 1) : g[t] = step(f, t)
      OBVIOUS
    <3>2. g = [t \in SUBSET (1 .. k + 1) |-> g[t]]
      OBVIOUS
    <3> HIDE DEF g
    <3> QED
      BY <2>5, <3>1, <3>2
  <2>7. F(g, k + 1)
    <3> HIDE DEF g
    <3> QED
      BY <2>6
  <2>8. k + 1 \in Nat
    OBVIOUS
  <2> HIDE DEF F, g, step
  <2> QED
    BY <2>7, <2>8
<1>3. \E f : F(f, n)
  <2> HIDE DEF G
  <2>1. n \in G
    BY <1>1, <1>2, NatSet
  <2> QED
    BY <2>1 DEF G
<1> DEFINE iter == CHOOSE f : F(f, n)
           acc == [k \in 0 .. n |-> iter[1 .. k]]
<1>4. F(iter, n)
  BY <1>3
<1>5. ReadDirections(ag, elem) = iter[1 .. n]
  BY DEF ReadDirections, FoldLeft, MapThenFoldSet
<1> HIDE DEF iter
<1>6. acc[0] = ag
  <2>1. 1 .. 0 \in SUBSET (1 .. n) /\ 1 .. 0 = {}
    OBVIOUS
  <2>2. iter[1 .. 0] = ag
    BY <1>4, <2>1
  <2> QED
    BY <2>2
<1>7. ASSUME NEW k \in 1 .. n
      PROVE  acc[k] = InitDirection(Forget(acc[k - 1]), elem.tag, dirs[k])
  <2>1. k - 1 \in Nat /\ k \in 0 .. n /\ k - 1 \in 0 .. n /\ 1 .. k \in SUBSET (1 .. n)
        /\ 1 .. k \in SUBSET (1 .. (k - 1) + 1) /\ k \in 1 .. k
    OBVIOUS
  <2>2. Max(1 .. k) = k
    BY <2>1 DEF Max
  <2>3. (1 .. k) \ {k} = 1 .. k - 1
    BY <2>1
  <2>4. iter[1 .. k] = InitDirection(Forget(iter[1 .. k - 1]), elem.tag, dirs[k])
    BY <1>4, <2>1, <2>2, <2>3
  <2> QED
    BY <2>1, <2>4
<1>8. ReadDirections(ag, elem) = acc[n]
  BY <1>5
<1> HIDE DEF acc
<1> QED
  BY <1>6, <1>7, <1>8

(* acc is what the elements of s, one after the other, make of b.          *)
ReadsEach(acc, b, i, s, n) ==
  acc[0] = b /\ \A k \in 1 .. n : acc[k] = ReadRoute(acc[k - 1], i, s[k])

ReadInTurn(b, i, elem, s, n) ==
  \E acc : ReadsEach(acc, b, i, s, n) /\ ReadRoutes(b, i, elem) = acc[n]

LEMMA RoutesReadFolded ==
  ASSUME NEW ag, NEW i, NEW elem, NEW list, list = SetToSeq(elem.routes),
         NEW n \in Nat, DOMAIN list = 1 .. n
  PROVE  ReadInTurn(ag, i, elem, list, n)
<1> DEFINE F(f, k) == f = [t \in SUBSET (1 .. k) |->
                            IF t = {} THEN ag
                            ELSE ReadRoute(f[t \ {Max(t)}], i, list[Max(t)])]
           G == {k \in Nat : \E f : F(f, k)}
<1>1. 0 \in G
  <2> DEFINE f == [t \in SUBSET (1 .. 0) |-> ag]
  <2>1. \A t \in SUBSET (1 .. 0) : t = {}
    OBVIOUS
  <2>2. F(f, 0)
    BY <2>1
  <2> QED
    BY <2>2
<1>2. ASSUME NEW k \in Nat, k \in G PROVE k + 1 \in G
  <2>1. PICK f : F(f, k)
    BY <1>2
  <2> DEFINE step(h, t) == IF t = {} THEN ag
                           ELSE ReadRoute(h[t \ {Max(t)}], i, list[Max(t)])
             g == [t \in SUBSET (1 .. k + 1) |-> step(f, t)]
  <2>2. \A t \in SUBSET (1 .. k) : f[t] = step(f, t)
    BY <2>1
  <2>3. SUBSET (1 .. k) \subseteq SUBSET (1 .. k + 1)
    OBVIOUS
  <2>4. \A t \in SUBSET (1 .. k) : g[t] = f[t]
    <3> HIDE DEF step
    <3> QED
      BY <2>2, <2>3
  <2>5. ASSUME NEW t \in SUBSET (1 .. k + 1) PROVE step(f, t) = step(g, t)
    <3>1. t # {} => f[t \ {Max(t)}] = g[t \ {Max(t)}]
      <4> HIDE DEF g
      <4> QED
        BY <2>4, GreatestTaken
    <3> HIDE DEF g
    <3> QED
      BY <3>1
  <2>6. g = [t \in SUBSET (1 .. k + 1) |-> step(g, t)]
    <3> HIDE DEF step
    <3>1. \A t \in SUBSET (1 .. k + 1) : g[t] = step(f, t)
      OBVIOUS
    <3>2. g = [t \in SUBSET (1 .. k + 1) |-> g[t]]
      OBVIOUS
    <3> HIDE DEF g
    <3> QED
      BY <2>5, <3>1, <3>2
  <2>7. F(g, k + 1)
    <3> HIDE DEF g
    <3> QED
      BY <2>6
  <2>8. k + 1 \in Nat
    OBVIOUS
  <2> HIDE DEF F, g, step
  <2> QED
    BY <2>7, <2>8
<1>3. \E f : F(f, n)
  <2> HIDE DEF G
  <2>1. n \in G
    BY <1>1, <1>2, NatSet
  <2> QED
    BY <2>1 DEF G
<1> DEFINE iter == CHOOSE f : F(f, n)
           acc == [k \in 0 .. n |-> iter[1 .. k]]
<1>4. F(iter, n)
  BY <1>3
<1>5. ReadRoutes(ag, i, elem) = iter[1 .. n]
  BY DEF ReadRoutes, FoldLeft, MapThenFoldSet
<1> HIDE DEF iter
<1>6. acc[0] = ag
  <2>1. 1 .. 0 \in SUBSET (1 .. n) /\ 1 .. 0 = {}
    OBVIOUS
  <2>2. iter[1 .. 0] = ag
    BY <1>4, <2>1
  <2> QED
    BY <2>2
<1>7. ASSUME NEW k \in 1 .. n
      PROVE  acc[k] = ReadRoute(acc[k - 1], i, list[k])
  <2>1. k - 1 \in Nat /\ k \in 0 .. n /\ k - 1 \in 0 .. n /\ 1 .. k \in SUBSET (1 .. n)
        /\ 1 .. k \in SUBSET (1 .. (k - 1) + 1) /\ k \in 1 .. k
    OBVIOUS
  <2>2. Max(1 .. k) = k
    BY <2>1 DEF Max
  <2>3. (1 .. k) \ {k} = 1 .. k - 1
    BY <2>1
  <2>4. iter[1 .. k] = ReadRoute(iter[1 .. k - 1], i, list[k])
    BY <1>4, <2>1, <2>2, <2>3
  <2> QED
    BY <2>1, <2>4
<1>8. ReadRoutes(ag, i, elem) = acc[n]
  BY <1>5
<1> HIDE DEF acc
<1> QED
  BY <1>6, <1>7, <1>8 DEF ReadsEach, ReadInTurn

LEMMA PathsReadFolded ==
  ASSUME NEW body, body # <<>>, NEW n \in Nat, DOMAIN body = 1 .. n
  PROVE  \E acc : /\ acc[0] = NewAgency
                  /\ \A k \in 1 .. n : acc[k] = ReadPath(acc[k - 1], body[k])
                  /\ ReadElements(body) = acc[n]
<1> DEFINE F(f, k) == f = [t \in SUBSET (1 .. k) |->
                            IF t = {} THEN NewAgency
                            ELSE ReadPath(f[t \ {Max(t)}], body[Max(t)])]
           G == {k \in Nat : \E f : F(f, k)}
<1>1. 0 \in G
  <2> DEFINE f == [t \in SUBSET (1 .. 0) |-> NewAgency]
  <2>1. \A t \in SUBSET (1 .. 0) : t = {}
    OBVIOUS
  <2>2. F(f, 0)
    BY <2>1
  <2> QED
    BY <2>2
<1>2. ASSUME NEW k \in Nat, k \in G PROVE k + 1 \in G
  <2>1. PICK f : F(f, k)
    BY <1>2
  <2> DEFINE step(h, t) == IF t = {} THEN NewAgency
                           ELSE ReadPath(h[t \ {Max(t)}], body[Max(t)])
             g == [t \in SUBSET (1 .. k + 1) |-> step(f, t)]
  <2>2. \A t \in SUBSET (1 .. k) : f[t] = step(f, t)
    BY <2>1
  <2>3. SUBSET (1 .. k) \subseteq SUBSET (1 .. k + 1)
    OBVIOUS
  <2>4. \A t \in SUBSET (1 .. k) : g[t] = f[t]
    <3> HIDE DEF step
    <3> QED
      BY <2>2, <2>3
  <2>5. ASSUME NEW t \in SUBSET (1 .. k + 1) PROVE step(f, t) = step(g, t)
    <3>1. t # {} => f[t \ {Max(t)}] = g[t \ {Max(t)}]
      <4> HIDE DEF g
      <4> QED
        BY <2>4, GreatestTaken
    <3> HIDE DEF g
    <3> QED
      BY <3>1
  <2>6. g = [t \in SUBSET (1 .. k + 1) |-> step(g, t)]
    <3> HIDE DEF step
    <3>1. \A t \in SUBSET (1 .. k + 1) : g[t] = step(f, t)
      OBVIOUS
    <3>2. g = [t \in SUBSET (1 .. k + 1) |-> g[t]]
      OBVIOUS
    <3> HIDE DEF g
    <3> QED
      BY <2>5, <3>1, <3>2
  <2>7. F(g, k + 1)
    <3> HIDE DEF g
    <3> QED
      BY <2>6
  <2>8. k + 1 \in Nat
    OBVIOUS
  <2> HIDE DEF F, g, step
  <2> QED
    BY <2>7, <2>8
<1>3. \E f : F(f, n)
  <2> HIDE DEF G
  <2>1. n \in G
    BY <1>1, <1>2, NatSet
  <2> QED
    BY <2>1 DEF G
<1> DEFINE iter == CHOOSE f : F(f, n)
           acc == [k \in 0 .. n |-> iter[1 .. k]]
<1>4. F(iter, n)
  BY <1>3
<1>5. ReadElements(body) = iter[1 .. n]
  BY DEF ReadElements, FoldLeft, MapThenFoldSet
<1> HIDE DEF iter
<1>6. acc[0] = NewAgency
  <2>1. 1 .. 0 \in SUBSET (1 .. n) /\ 1 .. 0 = {}
    OBVIOUS
  <2>2. iter[1 .. 0] = NewAgency
    BY <1>4, <2>1
  <2> QED
    BY <2>2
<1>7. ASSUME NEW k \in 1 .. n
      PROVE  acc[k] = ReadPath(acc[k - 1], body[k])
  <2>1. k - 1 \in Nat /\ k \in 0 .. n /\ k - 1 \in 0 .. n /\ 1 .. k \in SUBSET (1 .. n)
        /\ 1 .. k \in SUBSET (1 .. (k - 1) + 1) /\ k \in 1 .. k
    OBVIOUS
  <2>2. Max(1 .. k) = k
    BY <2>1 DEF Max
  <2>3. (1 .. k) \ {k} = 1 .. k - 1
    BY <2>1
  <2>4. iter[1 .. k] = ReadPath(iter[1 .. k - 1], body[k])
    BY <1>4, <2>1, <2>2, <2>3
  <2> QED
    BY <2>1, <2>4
<1>8. ReadElements(body) = acc[n]
  BY <1>5
<1> HIDE DEF acc
<1> QED
  BY <1>6, <1>7, <1>8

----------------------------------------------------------------------------
(* What is true of an agency at any time.                                  *)

IsSeq(s) == s \in Seq(Range(s))

IsRoute(r) == DOMAIN r = {"title", "stops", "directions", "paths"}
IsDirection(d) == DOMAIN d = {"route", "title", "stops"}
IsPath(p) == p = [points |-> p.points, routes |-> p.routes]

(* The index of an agency: every path is found by its hash, and is there   *)
(* once.                                                                   *)
Indexed(ag) ==
  /\ IsSeq(ag.paths)
  /\ \A i \in DOMAIN ag.paths : IsPath(ag.paths[i])
  /\ \A h \in DOMAIN ag.byHash : ag.byHash[h] \in Seq(DOMAIN ag.paths)
  /\ \A i \in DOMAIN ag.paths : i \in Range(InBucket(ag, Hash(ag.paths[i].points)))
  /\ \A i, j \in DOMAIN ag.paths : ag.paths[i].points = ag.paths[j].points => i = j

(* Routes and paths know each other.                                       *)
Linked(ag) ==
  /\ \A tag \in DOMAIN ag.routes : ag.routes[tag].paths \in Seq(DOMAIN ag.paths)
  /\ \A i \in DOMAIN ag.paths :
       ag.paths[i].routes = {tag \in DOMAIN ag.routes : i \in Range(ag.routes[tag].paths)}

(* Each direction is of one route.                                         *)
Directed(ag) ==
  /\ \A d \in DOMAIN ag.directions :
       /\ IsDirection(ag.directions[d])
       /\ ag.directions[d].route \in DOMAIN ag.routes
       /\ d \in ag.routes[ag.directions[d].route].directions
  /\ \A tag \in DOMAIN ag.routes : \A d \in ag.routes[tag].directions :
       d \in DOMAIN ag.directions /\ ag.directions[d].route = tag

Sound(ag) ==
  /\ DOMAIN ag = {"routes", "directions", "stops", "paths", "byHash", "failed", "panic"}
  /\ ag.failed \in BOOLEAN /\ ag.panic \in BOOLEAN
  /\ IsFiniteSet(DOMAIN ag.routes)
  /\ \A tag \in DOMAIN ag.routes :
       IsRoute(ag.routes[tag]) /\ IsFiniteSet(ag.routes[tag].directions)
  /\ Indexed(ag) /\ Linked(ag) /\ Directed(ag)

(* Only the fields xs differ.                                              *)
SameBut(b, ag, xs) == DOMAIN b = DOMAIN ag /\ \A x \in DOMAIN ag \ xs : b[x] = ag[x]

LEMMA NewAgencySound ==
  Sound(NewAgency) /\ ~ NewAgency.failed /\ ~ NewAgency.panic
  /\ DOMAIN NewAgency.routes = {} /\ DOMAIN NewAgency.directions = {} /\ NewAgency.paths = <<>>
<1>1. DOMAIN NoneYet = {}
  BY DEF NoneYet
<1>2. IsSeq(<<>>) /\ DOMAIN <<>> = {}
  BY DEF IsSeq
<1> QED
  BY <1>1, <1>2, FS_EmptySet DEF NewAgency, Sound, Indexed, Linked, Directed

(* What is not looked at may change, and what is may be written anew.      *)
LEMMA SoundKept ==
  ASSUME NEW ag, Sound(ag), NEW b,
         DOMAIN b = DOMAIN ag, b.failed \in BOOLEAN, b.panic \in BOOLEAN,
         DOMAIN b.routes = DOMAIN ag.routes,
         \A tag \in DOMAIN ag.routes : /\ IsRoute(b.routes[tag])
                                       /\ b.routes[tag].directions = ag.routes[tag].directions
                                       /\ b.routes[tag].paths = ag.routes[tag].paths,
         b.paths = ag.paths, b.byHash = ag.byHash,
         DOMAIN b.directions = DOMAIN ag.directions,
         \A d \in DOMAIN ag.directions : /\ IsDirection(b.directions[d])
                                         /\ b.directions[d].route = ag.directions[d].route
  PROVE  Sound(b)
<1>1. Indexed(b)
  BY DEF Sound, Indexed, InBucket
<1>2. Linked(b)
  <2>1. \A i : {tag \in DOMAIN b.routes : i \in Range(b.routes[tag].paths)}
                 = {tag \in DOMAIN ag.routes : i \in Range(ag.routes[tag].paths)}
    OBVIOUS
  <2> QED
    BY <2>1 DEF Sound, Linked
<1>3. Directed(b)
  BY DEF Sound, Directed
<1> QED
  BY <1>1, <1>2, <1>3 DEF Sound

LEMMA FailedSound ==
  ASSUME NEW ag, Sound(ag), NEW bad \in BOOLEAN
  PROVE  /\ Sound(FailIf(ag, bad)) /\ FailIf(ag, bad).failed = (ag.failed \/ bad)
         /\ SameBut(FailIf(ag, bad), ag, {"failed"})
<1> DEFINE b == FailIf(ag, bad)
<1>1. SameBut(b, ag, {"failed"}) /\ b.failed = (ag.failed \/ bad) /\ b.failed \in BOOLEAN
  BY DEF FailIf, Sound, SameBut
<1> HIDE DEF b
<1>2. b.routes = ag.routes /\ b.directions = ag.directions /\ b.paths = ag.paths
      /\ b.byHash = ag.byHash /\ b.panic = ag.panic /\ DOMAIN b = DOMAIN ag
  BY <1>1 DEF SameBut, Sound
<1>3. Sound(b)
  BY <1>1, <1>2, SoundKept DEF Sound, Directed
<1> QED
  BY <1>1, <1>3 DEF b

----------------------------------------------------------------------------
(* Paths.                                                                  *)

(* The sequence t is s with x at its end.                                  *)
IsAppended(t, s, x) ==
  /\ DOMAIN s = 1 .. Len(s) /\ Len(s) \in Nat
  /\ Len(t) = Len(s) + 1 /\ DOMAIN t = 1 .. Len(s) + 1
  /\ \A i \in DOMAIN s : t[i] = s[i]
  /\ t[Len(s) + 1] = x
  /\ Range(t) = Range(s) \cup {x}

LEMMA AppendEffect ==
  ASSUME NEW S, NEW s \in Seq(S), NEW x
  PROVE  Append(s, x) \in Seq(S \cup {x}) /\ IsAppended(Append(s, x), s, x)
<1>1. s \in Seq(S \cup {x}) /\ x \in S \cup {x}
  OBVIOUS
<1>2. /\ DOMAIN s = 1 .. Len(s) /\ Len(s) \in Nat
      /\ Append(s, x) \in Seq(S \cup {x})
      /\ Len(Append(s, x)) = Len(s) + 1
      /\ DOMAIN Append(s, x) = 1 .. Len(s) + 1
      /\ \A i \in 1 .. Len(s) : Append(s, x)[i] = s[i]
      /\ Append(s, x)[Len(s) + 1] = x
  BY <1>1, AppendProperties
<1>3. Range(Append(s, x)) = Range(s) \cup {x}
  BY <1>2 DEF Range
<1> QED
  BY <1>2, <1>3 DEF IsAppended

LEMMA OfMore ==
  ASSUME NEW S, NEW T, S \subseteq T
  PROVE  \A s \in Seq(S) : s \in Seq(T) /\ Range(s) \subseteq S
<1> SUFFICES ASSUME NEW s \in Seq(S) PROVE s \in Seq(T) /\ Range(s) \subseteq S
  OBVIOUS
<1>1. DOMAIN s = 1 .. Len(s) /\ \A i \in 1 .. Len(s) : s[i] \in S
  BY LenProperties, ElementOfSeq
<1> QED
  BY <1>1, SeqMonotonic DEF Range

(* A path that is there already keeps its index, any other gets the next,  *)
(* also when it has the hash of another.                                   *)
LEMMA PathAdded ==
  ASSUME NEW ag, Sound(ag), NEW points
  PROVE  LET b == AddPathByLocations(ag, points)
             i == IndexOf(b, points)
         IN /\ Sound(b) /\ SameBut(b, ag, {"paths", "byHash"})
            /\ i \in DOMAIN b.paths /\ b.paths[i].points = points
            /\ \/ b.paths = ag.paths
               \/ /\ b.paths = Append(ag.paths, [points |-> points, routes |-> {}])
                  /\ \A j \in DOMAIN ag.paths : ag.paths[j].points # points
<1> DEFINE b == AddPathByLocations(ag, points)
           i == IndexOf(b, points)
           new == [points |-> points, routes |-> {}]
           h == Hash(points)
           n == Len(ag.paths)
<1>1. /\ ag.paths \in Seq(Range(ag.paths)) /\ DOMAIN ag.paths = 1 .. n /\ n \in Nat
      /\ \A k \in DOMAIN ag.byHash : ag.byHash[k] \in Seq(1 .. n)
  BY DEF Sound, Indexed, IsSeq
<1> HIDE DEF n
<1>2. InBucket(ag, h) \in Seq(1 .. n)
  <2>1. <<>> \in Seq(1 .. n)
    OBVIOUS
  <2> QED
    BY <1>1, <2>1 DEF InBucket
<1>3. CASE SamePath(ag, points) # {}
  <2>1. b = ag
    BY <1>3 DEF AddPathByLocations
  <2>2. i \in SamePath(ag, points)
    BY <1>3, <2>1 DEF IndexOf
  <2>3. i \in DOMAIN ag.paths /\ ag.paths[i].points = points
    BY <1>1, <1>2, <2>2 DEF SamePath, Range
  <2> QED
    BY <2>1, <2>3 DEF SameBut
<1>4. CASE SamePath(ag, points) = {}
  <2> DEFINE bucket == Append(InBucket(ag, h), n + 1)
  <2>1. \A j \in 1 .. n : ag.paths[j].points # points
    BY <1>1, <1>4 DEF Sound, Indexed, SamePath
  <2>2. b = [ag EXCEPT !.paths = Append(@, new), !.byHash = Put(@, h, bucket)]
    BY <1>4 DEF AddPathByLocations, n
  <2> HIDE DEF b, h, new
  <2>3. /\ b.paths = Append(ag.paths, new) /\ b.byHash = Put(ag.byHash, h, bucket)
        /\ SameBut(b, ag, {"paths", "byHash"})
    BY <2>2 DEF Sound, SameBut
  <2>4. /\ b.routes = ag.routes /\ b.directions = ag.directions /\ DOMAIN b = DOMAIN ag
        /\ b.failed = ag.failed /\ b.panic = ag.panic
    BY <2>3 DEF Sound, SameBut
  <2>5. /\ b.paths \in Seq(Range(b.paths)) /\ DOMAIN b.paths = 1 .. n + 1
        /\ \A j \in 1 .. n : b.paths[j] = ag.paths[j]
        /\ b.paths[n + 1] = new
    <3>1. b.paths \in Seq(Range(ag.paths) \cup {new}) /\ IsAppended(b.paths, ag.paths, new)
      BY <1>1, <2>3, AppendEffect
    <3>2. Range(b.paths) = Range(ag.paths) \cup {new}
      BY <3>1 DEF IsAppended
    <3> QED
      BY <1>1, <3>1, <3>2 DEF IsAppended, n
  <2>6. /\ bucket \in Seq(1 .. n + 1)
        /\ Range(bucket) = Range(InBucket(ag, h)) \cup {n + 1}
    <3>1. bucket \in Seq((1 .. n) \cup {n + 1}) /\ IsAppended(bucket, InBucket(ag, h), n + 1)
      BY <1>2, AppendEffect DEF h
    <3>2. (1 .. n) \cup {n + 1} = 1 .. n + 1
      BY <1>1
    <3> QED
      BY <3>1, <3>2 DEF IsAppended
  <2> HIDE DEF bucket
  <2>7. /\ DOMAIN b.byHash = DOMAIN ag.byHash \cup {h} /\ b.byHash[h] = bucket
        /\ \A k \in DOMAIN ag.byHash : k # h => b.byHash[k] = ag.byHash[k]
    BY <2>3 DEF Put
  <2>8. InBucket(b, h) = bucket /\ \A k : k # h => InBucket(b, k) = InBucket(ag, k)
    BY <2>7 DEF InBucket
  <2>9. \A k \in DOMAIN b.byHash : b.byHash[k] \in Seq(1 .. n + 1)
    <3>1. 1 .. n \subseteq 1 .. n + 1
      BY <1>1
    <3>2. \A s \in Seq(1 .. n) : s \in Seq(1 .. n + 1)
      BY <3>1, OfMore
    <3> QED
      BY <1>1, <2>6, <2>7, <3>2
  <2>10. \A j \in 1 .. n + 1 : j \in Range(InBucket(b, Hash(b.paths[j].points)))
    <3> SUFFICES ASSUME NEW j \in 1 .. n + 1
                 PROVE  j \in Range(InBucket(b, Hash(b.paths[j].points)))
      OBVIOUS
    <3>1. CASE j = n + 1
      BY <2>5, <2>6, <2>8, <3>1 DEF new, h
    <3>2. CASE j \in 1 .. n
      <4>1. j \in Range(InBucket(ag, Hash(ag.paths[j].points)))
        BY <1>1, <3>2 DEF Sound, Indexed
      <4>2. b.paths[j].points = ag.paths[j].points
        BY <2>5, <3>2
      <4> QED
        BY <2>6, <2>8, <4>1, <4>2
    <3> QED
      BY <1>1, <3>1, <3>2
  <2>11. new.points = points /\ new.routes = {} /\ IsPath(new)
    BY DEF new, IsPath
  <2>12. \A j, k \in 1 .. n + 1 : b.paths[j].points = b.paths[k].points => j = k
    <3>1. \A j, k \in 1 .. n : ag.paths[j].points = ag.paths[k].points => j = k
      BY <1>1 DEF Sound, Indexed
    <3>2. \A j \in 1 .. n + 1 : j = n + 1 \/ j \in 1 .. n
      BY <1>1
    <3> QED
      BY <2>1, <2>5, <2>11, <3>1, <3>2
  <2>13. Indexed(b)
    <3>1. \A j \in 1 .. n + 1 : IsPath(b.paths[j])
      <4>1. \A j \in 1 .. n : IsPath(ag.paths[j])
        BY <1>1 DEF Sound, Indexed
      <4>2. \A j \in 1 .. n + 1 : j = n + 1 \/ j \in 1 .. n
        BY <1>1
      <4> QED
        BY <2>5, <2>11, <4>1, <4>2
    <3> QED
      BY <2>5, <2>9, <2>10, <2>12, <3>1 DEF Indexed, IsSeq
  <2>14. Linked(b)
    <3>1. \A t \in DOMAIN ag.routes : ag.routes[t].paths \in Seq(1 .. n)
      BY <1>1 DEF Sound, Linked
    <3>2. \A t \in DOMAIN ag.routes : /\ ag.routes[t].paths \in Seq(1 .. n + 1)
                                      /\ n + 1 \notin Range(ag.routes[t].paths)
      <4>1. 1 .. n \subseteq 1 .. n + 1 /\ n + 1 \notin 1 .. n
        BY <1>1
      <4>2. \A s \in Seq(1 .. n) : s \in Seq(1 .. n + 1) /\ n + 1 \notin Range(s)
        BY <4>1, OfMore
      <4> QED
        BY <3>1, <4>2
    <3>3. ASSUME NEW j \in 1 .. n + 1
          PROVE  b.paths[j].routes = {t \in DOMAIN ag.routes : j \in Range(ag.routes[t].paths)}
      <4>1. CASE j = n + 1
        BY <2>5, <2>11, <3>2, <4>1
      <4>2. CASE j \in 1 .. n
        BY <1>1, <2>5, <4>2 DEF Sound, Linked
      <4> QED
        BY <1>1, <4>1, <4>2
    <3> QED
      BY <2>4, <2>5, <3>2, <3>3 DEF Linked
  <2>15. Sound(b)
    BY <2>4, <2>13, <2>14 DEF Sound, Directed
  <2>16. i \in DOMAIN b.paths /\ b.paths[i].points = points
    <3>1. n + 1 \in SamePath(b, points)
      BY <1>1, <2>5, <2>6, <2>8, <2>11 DEF SamePath, h
    <3>2. i \in SamePath(b, points)
      BY <3>1 DEF IndexOf
    <3>3. InBucket(b, h) \in Seq(1 .. n + 1)
      BY <2>6, <2>8
    <3>4. Range(InBucket(b, h)) \subseteq 1 .. n + 1
      BY <3>3, OfMore
    <3> QED
      BY <2>5, <3>2, <3>4 DEF SamePath, h
  <2> QED
    BY <1>1, <2>1, <2>3, <2>15, <2>16 DEF b, new
<1> QED
  BY <1>3, <1>4

LEMMA PathRecord ==
  ASSUME NEW x, NEW y
  PROVE  /\ IsPath([points |-> x, routes |-> y])
         /\ [points |-> x, routes |-> y].points = x
         /\ [points |-> x, routes |-> y].routes = y
BY DEF IsPath

LEMMA PathLinked ==
  ASSUME NEW p, IsPath(p), NEW x
  PROVE  [p EXCEPT !.routes = x] = [points |-> p.points, routes |-> x]
BY DEF IsPath

(* Links between a route and a path go both ways.                          *)
LEMMA LinkEffect ==
  ASSUME NEW ag, Sound(ag), NEW tag \in DOMAIN ag.routes, NEW i \in DOMAIN ag.paths
  PROVE  LET b == Link(ag, tag, i)
         IN /\ Sound(b) /\ SameBut(b, ag, {"paths", "routes"})
            /\ Len(b.paths) = Len(ag.paths)
            /\ \A j \in DOMAIN ag.paths :
                 b.paths[j] = IF j = i THEN [points |-> ag.paths[j].points,
                                             routes |-> ag.paths[j].routes \cup {tag}]
                                       ELSE ag.paths[j]
            /\ DOMAIN b.routes = DOMAIN ag.routes
            /\ \A t \in DOMAIN ag.routes :
                 /\ b.routes[t].title = ag.routes[t].title
                 /\ b.routes[t].directions = ag.routes[t].directions
                 /\ t # tag => b.routes[t] = ag.routes[t]
            /\ IsAppended(b.routes[tag].paths, ag.routes[tag].paths, i)
<1> DEFINE b == Link(ag, tag, i)
           n == Len(ag.paths)
<1>1. /\ ag.paths \in Seq(Range(ag.paths)) /\ DOMAIN ag.paths = 1 .. n /\ n \in Nat
      /\ \A t \in DOMAIN ag.routes : ag.routes[t].paths \in Seq(1 .. n)
      /\ \A j \in 1 .. n : IsPath(ag.paths[j])
      /\ DOMAIN ag = {"routes", "directions", "stops", "paths", "byHash", "failed", "panic"}
      /\ \A t \in DOMAIN ag.routes : IsRoute(ag.routes[t])
  BY DEF Sound, Indexed, Linked, IsSeq
<1> HIDE DEF n
<1>2. /\ SameBut(b, ag, {"paths", "routes"})
      /\ b.paths = [ag.paths EXCEPT ![i].routes = @ \cup {tag}]
      /\ b.routes = [ag.routes EXCEPT ![tag].paths = Append(@, i)]
  BY <1>1 DEF Link, SameBut
<1> HIDE DEF b
<1>3. /\ DOMAIN b.paths = 1 .. n
      /\ \A j \in 1 .. n : j # i => b.paths[j] = ag.paths[j]
      /\ b.paths[i] = [points |-> ag.paths[i].points, routes |-> ag.paths[i].routes \cup {tag}]
  <2>1. /\ DOMAIN b.paths = 1 .. n
        /\ \A j \in 1 .. n : j # i => b.paths[j] = ag.paths[j]
        /\ b.paths[i] = [ag.paths[i] EXCEPT !.routes = @ \cup {tag}]
    BY <1>1, <1>2
  <2>2. IsPath(ag.paths[i])
    BY <1>1
  <2>3. [ag.paths[i] EXCEPT !.routes = @ \cup {tag}]
          = [points |-> ag.paths[i].points, routes |-> ag.paths[i].routes \cup {tag}]
    BY <2>2, PathLinked
  <2> QED
    BY <2>1, <2>3
<1>4. /\ DOMAIN b.routes = DOMAIN ag.routes
      /\ \A t \in DOMAIN ag.routes :
           /\ b.routes[t].title = ag.routes[t].title
           /\ b.routes[t].directions = ag.routes[t].directions
           /\ IsRoute(b.routes[t])
           /\ t # tag => b.routes[t] = ag.routes[t]
      /\ b.routes[tag].paths = Append(ag.routes[tag].paths, i)
  BY <1>1, <1>2 DEF IsRoute
<1>5. /\ IsAppended(b.routes[tag].paths, ag.routes[tag].paths, i)
      /\ b.routes[tag].paths \in Seq(1 .. n)
  <2>1. /\ b.routes[tag].paths \in Seq((1 .. n) \cup {i})
        /\ IsAppended(b.routes[tag].paths, ag.routes[tag].paths, i)
    BY <1>1, <1>4, AppendEffect
  <2>2. (1 .. n) \cup {i} = 1 .. n
    BY <1>1
  <2> QED
    BY <2>1, <2>2
<1>6. b.paths \in Seq(Range(b.paths)) /\ Len(b.paths) = n
  <2>1. \A j \in 1 .. n : b.paths[j] \in Range(b.paths)
    BY <1>3 DEF Range
  <2>2. b.paths = [j \in 1 .. n |-> b.paths[j]]
    BY <1>2, <1>3
  <2> QED
    BY <1>1, <2>1, <2>2, IsASeq
<1>7. Indexed(b)
  <2>1. /\ \A j \in 1 .. n : IsPath(b.paths[j]) /\ b.paths[j].points = ag.paths[j].points
    <3> SUFFICES ASSUME NEW j \in 1 .. n
                 PROVE  IsPath(b.paths[j]) /\ b.paths[j].points = ag.paths[j].points
      OBVIOUS
    <3>1. CASE j = i
      BY <1>3, <3>1, PathRecord
    <3>2. CASE j # i
      BY <1>1, <1>3, <3>2
    <3> QED
      BY <3>1, <3>2
  <2>2. b.byHash = ag.byHash
    BY <1>1, <1>2 DEF SameBut
  <2>3. \A h : InBucket(b, h) = InBucket(ag, h)
    BY <2>2 DEF InBucket
  <2> QED
    BY <1>1, <1>3, <1>6, <2>1, <2>2, <2>3 DEF Indexed, Sound, IsSeq
<1>8. Linked(b)
  <2>1. \A t \in DOMAIN ag.routes : b.routes[t].paths \in Seq(1 .. n)
    BY <1>1, <1>4, <1>5
  <2>2. ASSUME NEW j \in 1 .. n
        PROVE  b.paths[j].routes = {t \in DOMAIN ag.routes : j \in Range(b.routes[t].paths)}
    <3>1. ag.paths[j].routes = {t \in DOMAIN ag.routes : j \in Range(ag.routes[t].paths)}
      BY <1>1 DEF Sound, Linked
    <3>2. Range(b.routes[tag].paths) = Range(ag.routes[tag].paths) \cup {i}
      BY <1>5 DEF IsAppended
    <3>3. b.paths[j].routes = IF j = i THEN ag.paths[j].routes \cup {tag}
                                       ELSE ag.paths[j].routes
      <4>1. CASE j = i
        BY <1>3, <4>1, PathRecord
      <4>2. CASE j # i
        BY <1>3, <4>2
      <4> QED
        BY <4>1, <4>2
    <3>4. CASE j = i
      <4>1. {t \in DOMAIN ag.routes : j \in Range(b.routes[t].paths)}
              = {t \in DOMAIN ag.routes : j \in Range(ag.routes[t].paths)} \cup {tag}
        BY <1>4, <3>2, <3>4
      <4> QED
        BY <3>1, <3>3, <3>4, <4>1
    <3>5. CASE j # i
      <4>1. \A t \in DOMAIN ag.routes :
              j \in Range(b.routes[t].paths) <=> j \in Range(ag.routes[t].paths)
        BY <1>4, <3>2, <3>5
      <4> QED
        BY <3>1, <3>3, <3>5, <4>1
    <3> QED
      BY <3>4, <3>5
  <2> QED
    BY <1>3, <1>4, <2>1, <2>2 DEF Linked
<1>9. Directed(b)
  <2>1. b.directions = ag.directions
    BY <1>1, <1>2 DEF SameBut
  <2> QED
    BY <1>4, <2>1 DEF Sound, Directed
<1>10. Sound(b)
  <2>1. b.failed = ag.failed /\ b.panic = ag.panic /\ DOMAIN b = DOMAIN ag
    BY <1>1, <1>2 DEF SameBut
  <2> QED
    BY <1>4, <1>7, <1>8, <1>9, <2>1 DEF Sound
<1> QED
  BY <1>1, <1>2, <1>3, <1>4, <1>5, <1>6, <1>10 DEF b, n

(* A route that is named again keeps what it has.                          *)
NamesRoute(b, ag, elem) ==
  LET tag == elem.tag
  IN /\ Sound(b) /\ SameBut(b, ag, {"routes", "failed"})
     /\ DOMAIN b.routes = DOMAIN ag.routes \cup {tag}
     /\ \A t \in DOMAIN ag.routes :
          /\ b.routes[t].stops = ag.routes[t].stops
          /\ b.routes[t].directions = ag.routes[t].directions
          /\ b.routes[t].paths = ag.routes[t].paths
          /\ t # tag => b.routes[t].title = ag.routes[t].title
     /\ IF tag \in DOMAIN ag.routes
        THEN /\ b.failed = (ag.failed \/ Mismatch(ag.routes[tag].title, elem.title))
             /\ b.routes[tag].title = Filled(ag.routes[tag].title, elem.title)
        ELSE /\ b.failed = ag.failed
             /\ b.routes[tag] = [title |-> elem.title, stops |-> {},
                                 directions |-> {}, paths |-> <<>>]

LEMMA RouteNamed ==
  ASSUME NEW ag, Sound(ag), NEW elem
  PROVE  NamesRoute(InitRoute(ag, elem), ag, elem)
<1> DEFINE b == InitRoute(ag, elem)
           tag == elem.tag
           route == IF tag \in DOMAIN ag.routes THEN ag.routes[tag] ELSE NewRoute
           bad == Mismatch(route.title, elem.title)
<1>1. /\ DOMAIN ag = {"routes", "directions", "stops", "paths", "byHash", "failed", "panic"}
      /\ ag.failed \in BOOLEAN /\ \A t \in DOMAIN ag.routes : IsRoute(ag.routes[t])
  BY DEF Sound
<1>2. IsRoute(route) /\ bad \in BOOLEAN
  BY <1>1 DEF NewRoute, IsRoute, Mismatch
<1>3. /\ SameBut(b, ag, {"routes", "failed"})
      /\ b.failed = (ag.failed \/ bad)
      /\ b.routes = Put(ag.routes, tag, [route EXCEPT !.title = Filled(@, elem.title)])
  BY <1>1 DEF InitRoute, FailIf, SameBut
<1> HIDE DEF b
<1>4. /\ DOMAIN b.routes = DOMAIN ag.routes \cup {tag}
      /\ \A t \in DOMAIN ag.routes : t # tag => b.routes[t] = ag.routes[t]
      /\ b.routes[tag] = [route EXCEPT !.title = Filled(@, elem.title)]
  <2> HIDE DEF route
  <2> QED
    BY <1>3 DEF Put
<1>5. /\ b.routes[tag].title = Filled(route.title, elem.title) /\ IsRoute(b.routes[tag])
      /\ b.routes[tag].stops = route.stops
      /\ b.routes[tag].directions = route.directions
      /\ b.routes[tag].paths = route.paths
  <2> HIDE DEF route
  <2> QED
    BY <1>2, <1>4 DEF IsRoute
<1>6. tag \notin DOMAIN ag.routes =>
        /\ ~ bad
        /\ b.routes[tag] = [title |-> elem.title, stops |-> {}, directions |-> {}, paths |-> <<>>]
  BY <1>4 DEF NewRoute, Filled, Mismatch
<1>7. /\ b.directions = ag.directions /\ b.paths = ag.paths /\ b.byHash = ag.byHash
      /\ b.panic = ag.panic /\ DOMAIN b = DOMAIN ag /\ b.failed \in BOOLEAN
  BY <1>1, <1>2, <1>3 DEF SameBut
<1>8. /\ \A t \in DOMAIN ag.routes :
           /\ b.routes[t].stops = ag.routes[t].stops
           /\ b.routes[t].directions = ag.routes[t].directions
           /\ b.routes[t].paths = ag.routes[t].paths
           /\ t # tag => b.routes[t].title = ag.routes[t].title
      /\ \A t \in DOMAIN b.routes : IsRoute(b.routes[t])
      /\ tag \notin DOMAIN ag.routes =>
           b.routes[tag].directions = {} /\ b.routes[tag].paths = <<>>
  BY <1>1, <1>4, <1>5 DEF NewRoute
<1>9. Indexed(b)
  <2>1. Indexed(ag) /\ \A h : InBucket(b, h) = InBucket(ag, h)
    BY <1>7 DEF Sound, InBucket
  <2> QED
    BY <1>7, <2>1 DEF Indexed
<1>10. Linked(b)
  <2>1. \A t \in DOMAIN b.routes : b.routes[t].paths \in Seq(DOMAIN b.paths)
    <3>1. <<>> \in Seq(DOMAIN b.paths)
      OBVIOUS
    <3> QED
      BY <1>4, <1>7, <1>8, <3>1 DEF Sound, Linked
  <2>2. ASSUME NEW i \in DOMAIN b.paths
        PROVE  b.paths[i].routes = {t \in DOMAIN b.routes : i \in Range(b.routes[t].paths)}
    <3>1. b.paths[i].routes = {t \in DOMAIN ag.routes : i \in Range(ag.routes[t].paths)}
      BY <1>7 DEF Sound, Linked
    <3>2. Range(<<>>) = {}
      BY DEF Range
    <3> QED
      BY <1>4, <1>8, <3>1, <3>2
  <2> QED
    BY <2>1, <2>2 DEF Linked
<1>11. Directed(b)
  <2>1. Directed(ag)
    BY DEF Sound
  <2>2. \A d \in DOMAIN b.directions :
          /\ IsDirection(b.directions[d])
          /\ b.directions[d].route \in DOMAIN b.routes
          /\ d \in b.routes[b.directions[d].route].directions
    BY <1>4, <1>7, <1>8, <2>1 DEF Directed
  <2>3. ASSUME NEW t \in DOMAIN b.routes, NEW d \in b.routes[t].directions
        PROVE  d \in DOMAIN b.directions /\ b.directions[d].route = t
    <3>1. t \in DOMAIN ag.routes /\ d \in ag.routes[t].directions
      BY <1>4, <1>8, <2>3
    <3> QED
      BY <1>7, <2>1, <3>1 DEF Directed
  <2> QED
    BY <2>2, <2>3 DEF Directed
<1>12. Sound(b)
  <2>1. IsFiniteSet(DOMAIN b.routes)
    BY <1>4, FS_AddElement DEF Sound
  <2>2. \A t \in DOMAIN b.routes : IsFiniteSet(b.routes[t].directions)
    BY <1>4, <1>8, FS_EmptySet DEF Sound
  <2> QED
    BY <1>7, <1>8, <1>9, <1>10, <1>11, <2>1, <2>2 DEF Sound
<1>13. \A t \in DOMAIN ag.routes :
         /\ b.routes[t].stops = ag.routes[t].stops
         /\ b.routes[t].directions = ag.routes[t].directions
         /\ b.routes[t].paths = ag.routes[t].paths
         /\ t # tag => b.routes[t].title = ag.routes[t].title
  BY <1>8
<1>14. /\ tag \in DOMAIN ag.routes =>
            /\ b.failed = (ag.failed \/ Mismatch(ag.routes[tag].title, elem.title))
            /\ b.routes[tag].title = Filled(ag.routes[tag].title, elem.title)
       /\ tag \notin DOMAIN ag.routes => b.failed = ag.failed
  BY <1>1, <1>3, <1>5, <1>6
<1> HIDE DEF route, tag
<1> QED
  BY <1>3, <1>4, <1>6, <1>12, <1>13, <1>14 DEF b, tag, NamesRoute

(* A direction that is named again keeps what it has, unless another route *)
(* has it.                                                                 *)
NamesDirection(b, ag, tag, elem) ==
  LET d == elem.tag
      known == d \in DOMAIN ag.directions
  IN /\ Sound(b) /\ SameBut(b, ag, {"routes", "directions", "failed", "panic"})
     /\ b.panic = (ag.panic \/ (d \notin ag.routes[tag].directions /\ known))
     /\ DOMAIN b.routes = DOMAIN ag.routes
     /\ \A t \in DOMAIN ag.routes :
          /\ b.routes[t].title = ag.routes[t].title
          /\ b.routes[t].paths = ag.routes[t].paths
          /\ t # tag => b.routes[t].directions = ag.routes[t].directions
     /\ IF b.panic THEN SameBut(b, ag, {"panic"})
        ELSE /\ b.routes[tag].directions = ag.routes[tag].directions \cup {d}
             /\ DOMAIN b.directions = DOMAIN ag.directions \cup {d}
             /\ \A x \in DOMAIN ag.directions :
                  x # d => b.directions[x] = ag.directions[x]
             /\ b.directions[d].title =
                  IF known THEN Filled(ag.directions[d].title, elem.title) ELSE elem.title
             /\ b.failed = (ag.failed \/ (known /\ Mismatch(ag.directions[d].title,
                                                            elem.title)))

LEMMA DirectionNamed ==
  ASSUME NEW ag, Sound(ag), NEW tag \in DOMAIN ag.routes, NEW elem
  PROVE  NamesDirection(InitDirection(ag, tag, elem), ag, tag, elem)
<1> DEFINE b == InitDirection(ag, tag, elem)
           d == elem.tag
           known == d \in DOMAIN ag.directions
           mine == d \in ag.routes[tag].directions
           dir == IF mine THEN ag.directions[d] ELSE NewDirection(tag)
           bad == Mismatch(dir.title, elem.title)
<1>1. /\ DOMAIN ag = {"routes", "directions", "stops", "paths", "byHash", "failed", "panic"}
      /\ ag.failed \in BOOLEAN /\ ag.panic \in BOOLEAN
      /\ \A t \in DOMAIN ag.routes : IsRoute(ag.routes[t])
      /\ Directed(ag)
  BY DEF Sound
<1>2. mine => known /\ ag.directions[d].route = tag
  BY <1>1 DEF Directed
<1>3. CASE ag.panic \/ (~mine /\ known)
  <2>1. b = [ag EXCEPT !.panic = TRUE]
    BY <1>3 DEF InitDirection
  <2> HIDE DEF b
  <2>2. SameBut(b, ag, {"panic"}) /\ b.panic = TRUE
    BY <1>1, <2>1 DEF SameBut
  <2>3. /\ b.routes = ag.routes /\ b.directions = ag.directions /\ b.paths = ag.paths
        /\ b.byHash = ag.byHash /\ b.failed = ag.failed /\ DOMAIN b = DOMAIN ag
    BY <1>1, <2>2 DEF SameBut
  <2>4. Sound(b)
    BY <1>1, <2>2, <2>3, SoundKept DEF Directed
  <2>5. SameBut(b, ag, {"routes", "directions", "failed", "panic"})
    BY <2>2 DEF SameBut
  <2> QED
    BY <1>3, <2>2, <2>3, <2>4, <2>5 DEF b, NamesDirection
<1>4. CASE ~ ag.panic /\ ~ (~mine /\ known)
  <2>1. mine <=> known
    BY <1>2, <1>4
  <2>2. IsDirection(dir) /\ dir.route = tag /\ bad \in BOOLEAN
    BY <1>1, <1>2 DEF IsDirection, NewDirection, Directed, Mismatch
  <2> DEFINE named == [dir EXCEPT !.title = Filled(@, elem.title)]
  <2>3. /\ SameBut(b, ag, {"routes", "directions", "failed", "panic"})
        /\ b.panic = FALSE
        /\ b.failed = (ag.failed \/ bad)
        /\ b.directions = Put(ag.directions, d, named)
        /\ b.routes = [ag.routes EXCEPT ![tag].directions = @ \cup {d}]
    <3> HIDE DEF bad, dir, named
    <3>1. b = FailIf([ag EXCEPT !.directions = Put(@, d, named),
                                !.routes[tag].directions = @ \cup {d}], bad)
      BY <1>4 DEF InitDirection, bad, dir, named
    <3> QED
      BY <1>1, <1>4, <3>1 DEF FailIf, SameBut
  <2> HIDE DEF b
  <2>4. /\ DOMAIN b.routes = DOMAIN ag.routes
        /\ \A t \in DOMAIN ag.routes :
             /\ b.routes[t].title = ag.routes[t].title
             /\ b.routes[t].paths = ag.routes[t].paths
             /\ IsRoute(b.routes[t])
             /\ t # tag => b.routes[t].directions = ag.routes[t].directions
        /\ b.routes[tag].directions = ag.routes[tag].directions \cup {d}
    BY <1>1, <2>3 DEF IsRoute
  <2>5. IsDirection(named) /\ named.route = tag /\ named.title = Filled(dir.title, elem.title)
    <3> HIDE DEF dir
    <3> QED
      BY <2>2 DEF IsDirection
  <2>6. /\ dir.title = IF known THEN ag.directions[d].title ELSE Missing
        /\ Filled(Missing, elem.title) = elem.title /\ ~ Mismatch(Missing, elem.title)
    BY <2>1 DEF NewDirection, Filled, Mismatch
  <2> HIDE DEF dir, named
  <2>7. /\ DOMAIN b.directions = DOMAIN ag.directions \cup {d}
        /\ \A x \in DOMAIN ag.directions : x # d => b.directions[x] = ag.directions[x]
        /\ b.directions[d] = named
    BY <2>3 DEF Put
  <2>8. Directed(b)
    <3>1. \A x \in DOMAIN b.directions :
            /\ IsDirection(b.directions[x])
            /\ b.directions[x].route \in DOMAIN b.routes
            /\ x \in b.routes[b.directions[x].route].directions
      BY <1>1, <2>4, <2>5, <2>7 DEF Directed
    <3>2. ASSUME NEW t \in DOMAIN b.routes, NEW x \in b.routes[t].directions
          PROVE  x \in DOMAIN b.directions /\ b.directions[x].route = t
      <4>1. CASE x = d
        <5>1. CASE t = tag
          BY <2>5, <2>7, <4>1, <5>1
        <5>2. CASE t # tag
          <6>1. d \in ag.routes[t].directions
            BY <2>4, <3>2, <4>1, <5>2
          <6>2. known /\ ag.directions[d].route = t
            BY <1>1, <2>4, <6>1 DEF Directed
          <6> QED
            BY <1>2, <2>1, <5>2, <6>2
        <5> QED
          BY <5>1, <5>2
      <4>2. CASE x # d
        <5>1. x \in ag.routes[t].directions
          BY <2>4, <3>2, <4>2
        <5>2. x \in DOMAIN ag.directions /\ ag.directions[x].route = t
          BY <1>1, <2>4, <5>1 DEF Directed
        <5> QED
          BY <2>7, <4>2, <5>2
      <4> QED
        BY <4>1, <4>2
    <3> QED
      BY <3>1, <3>2 DEF Directed
  <2>9. /\ b.paths = ag.paths /\ b.byHash = ag.byHash /\ DOMAIN b = DOMAIN ag
        /\ b.failed \in BOOLEAN
    BY <1>1, <2>2, <2>3 DEF SameBut
  <2>10. Indexed(b)
    <3>1. Indexed(ag) /\ \A h : InBucket(b, h) = InBucket(ag, h)
      BY <2>9 DEF Sound, InBucket
    <3> QED
      BY <2>9, <3>1 DEF Indexed
  <2>11. Linked(b)
    <3>1. \A i : {t \in DOMAIN b.routes : i \in Range(b.routes[t].paths)}
                   = {t \in DOMAIN ag.routes : i \in Range(ag.routes[t].paths)}
      BY <2>4
    <3> QED
      BY <2>4, <2>9, <3>1 DEF Sound, Linked
  <2>12. Sound(b)
    <3>1. \A t \in DOMAIN ag.routes : IsFiniteSet(b.routes[t].directions)
      <4>1. \A t \in DOMAIN ag.routes : IsFiniteSet(ag.routes[t].directions)
        BY DEF Sound
      <4>2. IsFiniteSet(ag.routes[tag].directions \cup {d})
        BY <4>1, FS_AddElement
      <4> QED
        BY <2>4, <4>1, <4>2
    <3> QED
      BY <2>3, <2>4, <2>8, <2>9, <2>10, <2>11, <3>1 DEF Sound
  <2>13. /\ b.directions[d].title =
              IF known THEN Filled(ag.directions[d].title, elem.title) ELSE elem.title
         /\ b.failed = (ag.failed \/ (known /\ Mismatch(ag.directions[d].title, elem.title)))
    <3>1. b.failed = (ag.failed \/ Mismatch(dir.title, elem.title))
      BY <2>3
    <3>2. b.directions[d].title = Filled(dir.title, elem.title)
      BY <2>5, <2>7
    <3> QED
      BY <2>6, <3>1, <3>2
  <2> QED
    BY <1>4, <2>3, <2>4, <2>7, <2>12, <2>13 DEF b, NamesDirection
<1> QED
  BY <1>3, <1>4

----------------------------------------------------------------------------
(* A file is parsed.                                                       *)

LEMMA FromOneToTheNext ==
  ASSUME NEW n \in Nat, NEW G, 0 \in G, \A k \in 1 .. n : k - 1 \in G => k \in G
  PROVE  n \in G
<1> DEFINE S == {k \in Nat : k <= n => k \in G}
<1>1. 0 \in S
  OBVIOUS
<1>2. ASSUME NEW k \in Nat, k \in S PROVE k + 1 \in S
  <2>1. CASE k + 1 <= n
    <3>1. k \in G /\ k + 1 \in 1 .. n /\ (k + 1) - 1 = k
      BY <1>2, <2>1
    <3> QED
      BY <3>1
  <2>2. CASE ~ (k + 1 <= n)
    BY <2>2
  <2> QED
    BY <2>1, <2>2
<1> HIDE DEF S
<1>3. n \in S
  BY <1>1, <1>2, NatSet
<1> QED
  BY <1>3 DEF S

(* The locations of the paths of a route.                                  *)
PointsOf(ag, tag) ==
  [n \in DOMAIN ag.routes[tag].paths |-> ag.paths[ag.routes[tag].paths[n]].points]

IsFile(config) == IsSeq(config.stops) /\ IsSeq(config.directions) /\ IsSeq(config.paths)

LEMMA SeqIndices ==
  ASSUME NEW s, IsSeq(s)
  PROVE  /\ DOMAIN s = 1 .. Len(s) /\ Len(s) \in Nat
         /\ s = [i \in 1 .. Len(s) |-> s[i]]
         /\ s # <<>> => Len(s) >= 1
<1>1. s \in Seq(Range(s))
  BY DEF IsSeq
<1>2. DOMAIN s = 1 .. Len(s) /\ Len(s) \in Nat /\ s = [i \in 1 .. Len(s) |-> s[i]]
  BY <1>1, LenProperties, ElementOfSeq
<1>3. Len(s) = 0 => s = <<>>
  BY <1>1, EmptySeq
<1> QED
  BY <1>2, <1>3

(* Stops and directions change no paths.                                   *)
KeepsPaths(b, ag) ==
  /\ Sound(b)
  /\ ag.failed => b.failed
  /\ ag.panic => b.panic
  /\ b.paths = ag.paths
  /\ DOMAIN b.routes = DOMAIN ag.routes
  /\ \A t \in DOMAIN ag.routes : /\ b.routes[t].paths = ag.routes[t].paths
                                 /\ ag.routes[t].directions \subseteq b.routes[t].directions

LEMMA StopAdded ==
  ASSUME NEW ag, Sound(ag), NEW tag \in DOMAIN ag.routes, NEW elem
  PROVE  KeepsPaths(AddStop(ag, tag, elem), ag)
<1> DEFINE b == AddStop(ag, tag, elem)
           usable == elem.tag # Missing
                       /\ (elem.tag \in DOMAIN ag.stops \/ elem.at # OffTheMap)
           stops == IF elem.tag \in DOMAIN ag.stops \/ ~usable THEN ag.stops
                    ELSE Put(ag.stops, elem.tag, elem.at)
           bad == ~usable \/ StopDisagrees(ag, elem)
           added == [ag EXCEPT !.stops = stops,
                               !.routes[tag].stops = IF usable THEN @ \cup {elem.tag} ELSE @]
<1>1. /\ DOMAIN ag = {"routes", "directions", "stops", "paths", "byHash", "failed", "panic"}
      /\ \A t \in DOMAIN ag.routes : IsRoute(ag.routes[t])
      /\ \A d \in DOMAIN ag.directions : IsDirection(ag.directions[d])
  BY DEF Sound, Directed
<1>2. b = FailIf(added, bad) /\ bad \in BOOLEAN
  BY DEF AddStop, StopDisagrees
<1>3. /\ SameBut(added, ag, {"stops", "routes"})
      /\ DOMAIN added.routes = DOMAIN ag.routes
      /\ \A t \in DOMAIN ag.routes : /\ IsRoute(added.routes[t])
                                     /\ added.routes[t].directions = ag.routes[t].directions
                                     /\ added.routes[t].paths = ag.routes[t].paths
  <2> HIDE DEF usable, stops
  <2> QED
    BY <1>1 DEF SameBut, IsRoute
<1> HIDE DEF added, b, bad
<1>4. /\ added.paths = ag.paths /\ added.byHash = ag.byHash /\ DOMAIN added = DOMAIN ag
      /\ added.directions = ag.directions /\ added.failed = ag.failed /\ added.panic = ag.panic
  BY <1>1, <1>3 DEF SameBut
<1>5. Sound(added)
  BY <1>1, <1>3, <1>4, SoundKept DEF Sound
<1>6. /\ Sound(b) /\ b.failed = (added.failed \/ bad) /\ SameBut(b, added, {"failed"})
  BY <1>2, <1>5, FailedSound
<1>7. b.paths = ag.paths /\ b.routes = added.routes /\ b.panic = ag.panic
  BY <1>1, <1>4, <1>6 DEF SameBut
<1> QED
  BY <1>3, <1>4, <1>6, <1>7 DEF KeepsPaths, b

LEMMA KeptTwice ==
  ASSUME NEW a, NEW b, NEW c, KeepsPaths(b, a), KeepsPaths(c, b)
  PROVE  KeepsPaths(c, a)
BY DEF KeepsPaths

LEMMA StopsAdded ==
  ASSUME NEW ag, Sound(ag), NEW config, IsFile(config), config.tag \in DOMAIN ag.routes
  PROVE  KeepsPaths(AddStops(ag, config), ag)
<1> DEFINE n == Len(config.stops)
<1>1. n \in Nat /\ DOMAIN config.stops = 1 .. n
  BY SeqIndices DEF IsFile
<1>2. PICK acc : /\ acc[0] = ag
                 /\ \A k \in 1 .. n : acc[k] = AddStop(acc[k - 1], config.tag, config.stops[k])
                 /\ AddStops(ag, config) = acc[n]
  <2> DEFINE c == AddStops(ag, config)
  <2>1. n \in Nat /\ DOMAIN config.stops = 1 .. n
    BY <1>1
  <2>2. c = AddStops(ag, config)
    OBVIOUS
  <2> HIDE DEF n, c
  <2>3. \E acc : /\ acc[0] = ag
                 /\ \A k \in 1 .. n : acc[k] = AddStop(acc[k - 1], config.tag, config.stops[k])
                 /\ c = acc[n]
    BY <2>1, <2>2, StopsFolded
  <2> QED
    BY <2>2, <2>3
<1> DEFINE G == {k \in 0 .. n : KeepsPaths(acc[k], ag)}
<1> HIDE DEF n
<1>3. 0 \in G
  BY <1>1, <1>2 DEF KeepsPaths
<1>4. ASSUME NEW k \in 1 .. n, k - 1 \in G PROVE k \in G
  <2>1. KeepsPaths(acc[k - 1], ag)
    BY <1>4
  <2>2. KeepsPaths(acc[k], acc[k - 1])
    BY <1>2, <2>1, StopAdded DEF KeepsPaths
  <2> QED
    BY <1>1, <2>1, <2>2, KeptTwice
<1> HIDE DEF G
<1>5. n \in G
  BY <1>1, <1>3, <1>4, FromOneToTheNext
<1> QED
  BY <1>2, <1>5 DEF G

LEMMA DirectionAdded ==
  ASSUME NEW ag, Sound(ag), NEW config, config.tag \in DOMAIN ag.routes, NEW elem
  PROVE  LET b == AddDirection(ag, config, elem)
         IN /\ KeepsPaths(b, ag)
            /\ Parsed(b) => b.routes[config.tag].directions # {}
<1> DEFINE b == AddDirection(ag, config, elem)
           tag == config.tag
           d == elem.tag
           init == InitDirection(ag, tag, elem)
           old == init.directions[d].stops
           new == SelectSeq(StopsOnce(init.routes[tag], config.stops), LAMBDA s : s \notin Range(old))
           named == [init EXCEPT !.directions[d].stops = old \o new]
           bad == Len(new) # Len(config.stops)
<1>1. CASE d = Missing \/ elem.title = Missing
  <2>1. b = FailIf(ag, TRUE)
    BY <1>1 DEF AddDirection, Fail, FailIf, Sound
  <2> HIDE DEF b
  <2>2. Sound(b) /\ b.failed = TRUE /\ SameBut(b, ag, {"failed"})
    BY <2>1, FailedSound
  <2>3. b.paths = ag.paths /\ b.routes = ag.routes /\ b.panic = ag.panic
    BY <2>2 DEF SameBut, Sound
  <2> QED
    BY <2>2, <2>3 DEF KeepsPaths, Parsed, b
<1>2. CASE ~ (d = Missing \/ elem.title = Missing)
  <2>1. /\ Sound(init)
        /\ SameBut(init, ag, {"routes", "directions", "failed", "panic"})
        /\ DOMAIN init.routes = DOMAIN ag.routes
        /\ \A t \in DOMAIN ag.routes :
             /\ init.routes[t].paths = ag.routes[t].paths
             /\ t # tag => init.routes[t].directions = ag.routes[t].directions
        /\ init.panic = (ag.panic \/ (d \notin ag.routes[tag].directions
                                        /\ d \in DOMAIN ag.directions))
        /\ IF init.panic THEN SameBut(init, ag, {"panic"})
           ELSE /\ init.routes[tag].directions = ag.routes[tag].directions \cup {d}
                /\ DOMAIN init.directions = DOMAIN ag.directions \cup {d}
                /\ ag.failed => init.failed
    <3>1. NamesDirection(init, ag, tag, elem)
      BY DirectionNamed
    <3> HIDE DEF init
    <3> QED
      BY <3>1 DEF NamesDirection
  <2>2. b = IF init.panic THEN init ELSE FailIf(named, bad)
    <3> HIDE DEF init
    <3> QED
      BY <1>2 DEF AddDirection, init
  <2> HIDE DEF init, b, new, bad
  <2>3. KeepsPaths(init, ag)
    <3>1. init.paths = ag.paths
      BY <2>1 DEF SameBut, Sound
    <3>2. ag.failed => init.failed
      BY <2>1 DEF SameBut, Sound
    <3>3. \A t \in DOMAIN ag.routes : ag.routes[t].directions \subseteq init.routes[t].directions
      <4>1. CASE init.panic
        BY <2>1, <4>1 DEF SameBut, Sound
      <4>2. CASE ~ init.panic
        BY <2>1, <4>2
      <4> QED
        BY <4>1, <4>2
    <3> QED
      BY <2>1, <3>1, <3>2, <3>3 DEF KeepsPaths
  <2>4. CASE init.panic
    BY <2>2, <2>3, <2>4 DEF Parsed, b
  <2>5. CASE ~ init.panic
    <3>1. /\ DOMAIN init = {"routes", "directions", "stops", "paths", "byHash", "failed", "panic"}
          /\ \A x \in DOMAIN init.directions : IsDirection(init.directions[x])
          /\ \A t \in DOMAIN init.routes : IsRoute(init.routes[t])
          /\ init.failed \in BOOLEAN /\ init.panic \in BOOLEAN
      BY <2>1 DEF Sound, Directed
    <3>2. /\ SameBut(named, init, {"directions"})
          /\ DOMAIN named.directions = DOMAIN init.directions
          /\ \A x \in DOMAIN init.directions :
               /\ IsDirection(named.directions[x])
               /\ named.directions[x].route = init.directions[x].route
      <4> HIDE DEF old
      <4> QED
        BY <3>1 DEF SameBut, IsDirection
    <3> HIDE DEF named
    <3>3. /\ named.paths = init.paths /\ named.byHash = init.byHash /\ DOMAIN named = DOMAIN init
          /\ named.routes = init.routes /\ named.failed = init.failed
          /\ named.panic = init.panic
      BY <3>1, <3>2 DEF SameBut
    <3>4. Sound(named)
      BY <2>1, <3>1, <3>2, <3>3, SoundKept
    <3>5. bad \in BOOLEAN
      BY DEF bad
    <3>6. Sound(b) /\ b.failed = (named.failed \/ bad) /\ SameBut(b, named, {"failed"})
      BY <2>2, <2>5, <3>4, <3>5, FailedSound
    <3>7. b.paths = init.paths /\ b.routes = init.routes /\ b.panic = init.panic
      BY <3>1, <3>3, <3>6 DEF SameBut
    <3>8. KeepsPaths(b, init)
      BY <3>3, <3>6, <3>7 DEF KeepsPaths
    <3>9. KeepsPaths(b, ag)
      BY <2>3, <3>8, KeptTwice
    <3>10. d \in b.routes[tag].directions
      BY <2>1, <2>5, <3>7
    <3> QED
      BY <3>9, <3>10 DEF b
  <2> QED
    BY <2>4, <2>5
<1> QED
  BY <1>1, <1>2

LEMMA DirectionsAdded ==
  ASSUME NEW ag, Sound(ag), NEW config, IsFile(config), config.tag \in DOMAIN ag.routes,
         config.directions # <<>>
  PROVE  LET b == AddDirections(ag, config)
         IN /\ KeepsPaths(b, ag)
            /\ Parsed(b) => b.routes[config.tag].directions # {}
<1> DEFINE n == Len(config.directions)
<1>1. n \in Nat /\ DOMAIN config.directions = 1 .. n /\ n >= 1
  BY SeqIndices DEF IsFile
<1>2. PICK acc : /\ acc[0] = ag
                 /\ \A k \in 1 .. n : acc[k] = AddDirection(acc[k - 1], config, config.directions[k])
                 /\ AddDirections(ag, config) = acc[n]
  <2> DEFINE c == AddDirections(ag, config)
  <2>1. n \in Nat /\ DOMAIN config.directions = 1 .. n
    BY <1>1
  <2>2. c = AddDirections(ag, config)
    OBVIOUS
  <2> HIDE DEF n, c
  <2>3. \E acc : /\ acc[0] = ag
                 /\ \A k \in 1 .. n : acc[k] = AddDirection(acc[k - 1], config, config.directions[k])
                 /\ c = acc[n]
    BY <2>1, <2>2, DirectionsFolded
  <2> QED
    BY <2>2, <2>3
<1> DEFINE Named(b) == Parsed(b) => b.routes[config.tag].directions # {}
           G == {k \in 0 .. n : KeepsPaths(acc[k], ag) /\ (k >= 1 => Named(acc[k]))}
<1> HIDE DEF n
<1>3. 0 \in G
  BY <1>1, <1>2 DEF KeepsPaths
<1>4. ASSUME NEW k \in 1 .. n, k - 1 \in G PROVE k \in G
  <2>1. KeepsPaths(acc[k - 1], ag)
    BY <1>4
  <2>2. KeepsPaths(acc[k], acc[k - 1]) /\ Named(acc[k])
    BY <1>2, <2>1, DirectionAdded DEF KeepsPaths
  <2> HIDE DEF Named
  <2> QED
    BY <1>1, <2>1, <2>2, KeptTwice
<1> HIDE DEF G, Named
<1>5. n \in G
  BY <1>1, <1>3, <1>4, FromOneToTheNext
<1> QED
  BY <1>1, <1>2, <1>5 DEF G, Named

(* Of the points of a route nothing changes with those of other paths.     *)
LEMMA PointsKept ==
  ASSUME NEW ag, Linked(ag), NEW b, NEW t \in DOMAIN ag.routes,
         b.routes[t].paths = ag.routes[t].paths,
         \A j \in DOMAIN ag.paths : b.paths[j].points = ag.paths[j].points
  PROVE  PointsOf(b, t) = PointsOf(ag, t)
<1> DEFINE s == ag.routes[t].paths
<1>1. s \in Seq(DOMAIN ag.paths)
  BY DEF Linked
<1> HIDE DEF s
<1>2. \A n \in DOMAIN s : s[n] \in DOMAIN ag.paths
  BY <1>1, LenProperties, ElementOfSeq
<1>3. \A n \in DOMAIN s : b.paths[s[n]].points = ag.paths[s[n]].points
  BY <1>2
<1>4. [n \in DOMAIN s |-> b.paths[s[n]].points] = [n \in DOMAIN s |-> ag.paths[s[n]].points]
  BY <1>3
<1> QED
  BY <1>4 DEF PointsOf, s

(* One more path for the route, at the end, and the others as they were.   *)
KeepsOthers(b, ag, tag) ==
  /\ Sound(b)
  /\ b.panic = ag.panic
  /\ ag.failed => b.failed
  /\ DOMAIN b.routes = DOMAIN ag.routes
  /\ \A t \in DOMAIN ag.routes : /\ b.routes[t].directions = ag.routes[t].directions
                                 /\ t # tag => PointsOf(b, t) = PointsOf(ag, t)

AddsPath(b, ag, tag, points) ==
  /\ KeepsOthers(b, ag, tag)
  /\ ~ b.failed => /\ DOMAIN PointsOf(ag, tag) = 1 .. Len(ag.routes[tag].paths)
                   /\ Len(ag.routes[tag].paths) \in Nat
                   /\ Len(b.routes[tag].paths) = Len(ag.routes[tag].paths) + 1
                   /\ DOMAIN PointsOf(b, tag) = 1 .. Len(ag.routes[tag].paths) + 1
                   /\ \A n \in DOMAIN PointsOf(ag, tag) :
                        PointsOf(b, tag)[n] = PointsOf(ag, tag)[n]
                   /\ PointsOf(b, tag)[Len(ag.routes[tag].paths) + 1] = points

LEMMA RoutePathAdded ==
  ASSUME NEW ag, Sound(ag), NEW config, config.tag \in DOMAIN ag.routes, NEW points
  PROVE  AddsPath(AddPath(ag, config, points), ag, config.tag, points)
<1> DEFINE b == AddPath(ag, config, points)
           tag == config.tag
           added == AddPathByLocations(ag, points)
           i == IndexOf(added, points)
           linked == Link(added, tag, i)
           bad == OffTheMap \in Range(points)
           s == ag.routes[tag].paths
<1>1. CASE points = <<>>
  <2>1. b = FailIf(ag, TRUE)
    BY <1>1 DEF AddPath, Fail, FailIf, Sound
  <2> HIDE DEF b
  <2>2. Sound(b) /\ b.failed = TRUE /\ SameBut(b, ag, {"failed"})
    BY <2>1, FailedSound
  <2>3. b.paths = ag.paths /\ b.routes = ag.routes /\ b.panic = ag.panic
    BY <2>2 DEF SameBut, Sound
  <2>4. \A t \in DOMAIN ag.routes : PointsOf(b, t) = PointsOf(ag, t)
    BY <2>3 DEF PointsOf
  <2> QED
    BY <2>2, <2>3, <2>4 DEF AddsPath, KeepsOthers, b
<1>2. CASE points # <<>>
  <2>1. b = FailIf(linked, bad)
    BY <1>2 DEF AddPath
  <2>2. /\ Sound(added) /\ SameBut(added, ag, {"paths", "byHash"})
        /\ i \in DOMAIN added.paths /\ added.paths[i].points = points
        /\ \/ added.paths = ag.paths
           \/ added.paths = Append(ag.paths, [points |-> points, routes |-> {}])
    BY PathAdded
  <2>3. tag \in DOMAIN added.routes /\ added.routes = ag.routes
        /\ added.panic = ag.panic /\ added.failed = ag.failed
    BY <2>2 DEF SameBut, Sound
  <2>4. /\ DOMAIN ag.paths \subseteq DOMAIN added.paths
        /\ \A j \in DOMAIN ag.paths : added.paths[j] = ag.paths[j]
    <3>1. ag.paths \in Seq(Range(ag.paths))
      BY DEF Sound, Indexed, IsSeq
    <3>2. IsAppended(Append(ag.paths, [points |-> points, routes |-> {}]), ag.paths,
                     [points |-> points, routes |-> {}])
      BY <3>1, AppendEffect
    <3> HIDE DEF added
    <3> QED
      BY <2>2, <3>2 DEF IsAppended
  <2> HIDE DEF added, i, b
  <2>5. /\ Sound(linked) /\ SameBut(linked, added, {"paths", "routes"})
        /\ Len(linked.paths) = Len(added.paths)
        /\ \A j \in DOMAIN added.paths :
             linked.paths[j] = IF j = i THEN [points |-> added.paths[j].points,
                                              routes |-> added.paths[j].routes \cup {tag}]
                                        ELSE added.paths[j]
        /\ DOMAIN linked.routes = DOMAIN added.routes
        /\ \A t \in DOMAIN added.routes :
             /\ linked.routes[t].directions = added.routes[t].directions
             /\ t # tag => linked.routes[t] = added.routes[t]
        /\ IsAppended(linked.routes[tag].paths, added.routes[tag].paths, i)
    BY <2>2, <2>3, LinkEffect
  <2> HIDE DEF linked
  <2>6. bad \in BOOLEAN
    OBVIOUS
  <2> HIDE DEF bad
  <2>7. /\ Sound(b) /\ b.failed = (linked.failed \/ bad) /\ SameBut(b, linked, {"failed"})
    BY <2>1, <2>5, <2>6, FailedSound
  <2>8. b.paths = linked.paths /\ b.routes = linked.routes /\ b.panic = ag.panic
        /\ (ag.failed => b.failed)
    BY <2>3, <2>5, <2>7 DEF SameBut, Sound
  <2>9. /\ \A j \in DOMAIN ag.paths : b.paths[j].points = ag.paths[j].points
        /\ b.paths[i].points = points
    <3>1. \A j \in DOMAIN added.paths : b.paths[j].points = added.paths[j].points
      <4> SUFFICES ASSUME NEW j \in DOMAIN added.paths
                   PROVE  b.paths[j].points = added.paths[j].points
        OBVIOUS
      <4>1. CASE j = i
        <5>1. b.paths[j] = [points |-> added.paths[j].points,
                            routes |-> added.paths[j].routes \cup {tag}]
          BY <2>5, <2>8, <4>1
        <5> QED
          BY <5>1
      <4>2. CASE j # i
        BY <2>5, <2>8, <4>2
      <4> QED
        BY <4>1, <4>2
    <3> QED
      BY <2>2, <2>4, <3>1
  <2>10. ASSUME NEW t \in DOMAIN ag.routes, t # tag
         PROVE  PointsOf(b, t) = PointsOf(ag, t)
    <3>1. b.routes[t].paths = ag.routes[t].paths /\ Linked(ag)
      BY <2>3, <2>5, <2>8, <2>10 DEF Sound
    <3> QED
      BY <2>9, <3>1, PointsKept
  <2>11. KeepsOthers(b, ag, tag)
    BY <2>3, <2>5, <2>7, <2>8, <2>10 DEF KeepsOthers
  <2>12. /\ IsAppended(b.routes[tag].paths, s, i) /\ s \in Seq(DOMAIN ag.paths)
    BY <2>3, <2>5, <2>8 DEF Sound, Linked
  <2>13. /\ DOMAIN s = 1 .. Len(s) /\ Len(s) \in Nat
         /\ Len(b.routes[tag].paths) = Len(s) + 1
         /\ DOMAIN b.routes[tag].paths = 1 .. Len(s) + 1
         /\ \A n \in 1 .. Len(s) : b.routes[tag].paths[n] = s[n] /\ s[n] \in DOMAIN ag.paths
         /\ b.routes[tag].paths[Len(s) + 1] = i
    BY <2>12, LenProperties, ElementOfSeq DEF IsAppended
  <2> HIDE DEF s
  <2>14. /\ DOMAIN PointsOf(ag, tag) = DOMAIN s
         /\ \A n \in DOMAIN s : PointsOf(ag, tag)[n] = ag.paths[s[n]].points
    BY DEF PointsOf, s
  <2>15. /\ DOMAIN PointsOf(b, tag) = 1 .. Len(s) + 1
         /\ \A n \in 1 .. Len(s) + 1 :
              PointsOf(b, tag)[n] = b.paths[b.routes[tag].paths[n]].points
    BY <2>13 DEF PointsOf
  <2>16. \A n \in 1 .. Len(s) : PointsOf(b, tag)[n] = PointsOf(ag, tag)[n]
    <3> SUFFICES ASSUME NEW n \in 1 .. Len(s) PROVE PointsOf(b, tag)[n] = PointsOf(ag, tag)[n]
      OBVIOUS
    <3>1. n \in 1 .. Len(s) + 1 /\ n \in DOMAIN s
      BY <2>13
    <3>2. PointsOf(b, tag)[n] = b.paths[s[n]].points
      BY <2>13, <2>15, <3>1
    <3> QED
      BY <2>9, <2>13, <2>14, <3>1, <3>2
  <2>17. PointsOf(b, tag)[Len(s) + 1] = points
    BY <2>9, <2>13, <2>15
  <2> QED
    BY <2>11, <2>13, <2>14, <2>15, <2>16, <2>17 DEF AddsPath, b, s
<1> QED
  BY <1>1, <1>2

(* The paths of a file become those of its route.                          *)
LEMMA RoutePathsAdded ==
  ASSUME NEW ag, Sound(ag), NEW config, IsFile(config), config.tag \in DOMAIN ag.routes,
         ag.routes[config.tag].paths = <<>>
  PROVE  LET b == AddPaths(ag, config)
         IN /\ KeepsOthers(b, ag, config.tag)
            /\ Parsed(b) => PointsOf(b, config.tag) = config.paths
<1> DEFINE n == Len(config.paths)
           tag == config.tag
<1>1. /\ n \in Nat /\ DOMAIN config.paths = 1 .. n
      /\ config.paths = [k \in 1 .. n |-> config.paths[k]]
  BY SeqIndices DEF IsFile
<1>2. KeepsOthers(ag, ag, tag)
  BY DEF KeepsOthers
<1>3. CASE ag.panic
  BY <1>2, <1>3 DEF AddPaths, Parsed
<1>4. CASE ~ ag.panic
  <2>1. PICK acc : /\ acc[0] = ag
                   /\ \A k \in 1 .. n : acc[k] = AddPath(acc[k - 1], config, config.paths[k])
                   /\ AddPaths(ag, config) = acc[n]
    BY <1>1, <1>4, PathsFolded
  <2> DEFINE Has(b, k) == ~ b.failed => /\ Len(b.routes[tag].paths) = k
                                        /\ DOMAIN PointsOf(b, tag) = 1 .. k
                                        /\ \A m \in 1 .. k : PointsOf(b, tag)[m] = config.paths[m]
             G == {k \in 0 .. n : KeepsOthers(acc[k], ag, tag) /\ Has(acc[k], k)}
  <2> HIDE DEF n
  <2>2. 0 \in G
    <3>1. Len(<<>>) = 0 /\ DOMAIN <<>> = 1 .. 0
      OBVIOUS
    <3>2. Has(ag, 0)
      BY <3>1 DEF PointsOf
    <3> HIDE DEF Has
    <3> QED
      BY <1>1, <1>2, <2>1, <3>2
  <2>3. ASSUME NEW k \in 1 .. n, k - 1 \in G PROVE k \in G
    <3> DEFINE a == acc[k - 1]
               b == acc[k]
    <3>1. KeepsOthers(a, ag, tag) /\ Has(a, k - 1)
      BY <2>3
    <3>2. Sound(a) /\ tag \in DOMAIN a.routes
      BY <3>1 DEF KeepsOthers
    <3>3. b = AddPath(a, config, config.paths[k])
      BY <2>1
    <3> HIDE DEF a, b, Has
    <3>4. AddsPath(b, a, tag, config.paths[k])
      BY <3>2, <3>3, RoutePathAdded
    <3>5. KeepsOthers(b, ag, tag)
      BY <3>1, <3>4 DEF KeepsOthers, AddsPath
    <3>6. Has(b, k)
      <4> SUFFICES ASSUME ~ b.failed
                   PROVE  /\ Len(b.routes[tag].paths) = k
                          /\ DOMAIN PointsOf(b, tag) = 1 .. k
                          /\ \A m \in 1 .. k : PointsOf(b, tag)[m] = config.paths[m]
        BY DEF Has
      <4>1. ~ a.failed
        BY <3>4 DEF AddsPath, KeepsOthers
      <4>2. /\ Len(a.routes[tag].paths) = k - 1
            /\ DOMAIN PointsOf(a, tag) = 1 .. k - 1
            /\ \A m \in 1 .. k - 1 : PointsOf(a, tag)[m] = config.paths[m]
        BY <3>1, <4>1 DEF Has
      <4>3. /\ Len(b.routes[tag].paths) = k - 1 + 1
            /\ DOMAIN PointsOf(b, tag) = 1 .. k - 1 + 1
            /\ \A m \in 1 .. k - 1 : PointsOf(b, tag)[m] = PointsOf(a, tag)[m]
            /\ PointsOf(b, tag)[k - 1 + 1] = config.paths[k]
        BY <3>4, <4>2 DEF AddsPath
      <4>4. k - 1 + 1 = k /\ \A m \in 1 .. k : m = k \/ m \in 1 .. k - 1
        BY <1>1
      <4> QED
        BY <4>2, <4>3, <4>4
    <3> QED
      BY <1>1, <3>5, <3>6 DEF b
  <2> HIDE DEF G, Has
  <2>4. n \in G
    BY <1>1, <2>2, <2>3, FromOneToTheNext
  <2>5. KeepsOthers(acc[n], ag, tag) /\ Has(acc[n], n)
    BY <2>4 DEF G
  <2>6. ~ acc[n].failed => PointsOf(acc[n], tag) = config.paths
    <3> SUFFICES ASSUME ~ acc[n].failed PROVE PointsOf(acc[n], tag) = config.paths
      OBVIOUS
    <3> DEFINE p == PointsOf(acc[n], tag)
    <3>1. DOMAIN p = 1 .. n /\ \A m \in 1 .. n : p[m] = config.paths[m]
      BY <2>5 DEF Has
    <3>2. p = [m \in DOMAIN p |-> p[m]]
      BY DEF PointsOf
    <3> HIDE DEF p
    <3>3. p = [m \in 1 .. n |-> config.paths[m]]
      BY <3>1, <3>2
    <3> QED
      BY <1>1, <3>3 DEF p
  <2> QED
    BY <2>1, <2>5, <2>6 DEF Parsed
<1> QED
  BY <1>3, <1>4

----------------------------------------------------------------------------
(* A whole file.  A route that has its paths has a direction too, and      *)
(* neither another file nor a second one for it changes them.              *)

EachDirected(ag) == \A t \in DOMAIN ag.routes : ag.routes[t].directions # {}

ParsesFile(b, ag, config) ==
  /\ Sound(b)
  /\ Parsed(b) =>
       /\ EachDirected(b)
       /\ DOMAIN b.routes = DOMAIN ag.routes \cup {config.tag}
       /\ \A t \in DOMAIN ag.routes : PointsOf(b, t) = PointsOf(ag, t)
       /\ config.tag \notin DOMAIN ag.routes => PointsOf(b, config.tag) = config.paths

LEMMA FileParsed ==
  ASSUME NEW ag, Sound(ag), EachDirected(ag), NEW config, IsFile(config)
  PROVE  ParsesFile(ParseRouteConfig(ag, config), ag, config)
<1> DEFINE b == ParseRouteConfig(ag, config)
           tag == config.tag
           rejected == \/ config.header = "missing" \/ tag = Missing \/ config.title = Missing
                       \/ config.directions = <<>>
           init == InitRoute(ag, config)
           route == init.routes[tag]
           empty == route.stops = {} /\ route.directions = {} /\ route.paths = <<>>
           stopped == AddStops(init, config)
           directed == AddDirections(stopped, config)
           full == AddPaths(directed, config)
<1>1. CASE rejected
  <2>1. b = FailIf(ag, TRUE)
    BY <1>1 DEF ParseRouteConfig, Fail, FailIf, Sound
  <2> HIDE DEF b
  <2>2. Sound(b) /\ b.failed = TRUE
    BY <2>1, FailedSound
  <2> QED
    BY <2>2 DEF ParsesFile, Parsed, b
<1>2. CASE ~ rejected
  <2>1. b = IF config.header = "off the map" THEN [init EXCEPT !.panic = TRUE]
            ELSE IF empty THEN full ELSE init
    <3> HIDE DEF init, full
    <3> QED
      BY <1>2 DEF ParseRouteConfig, init, full
  <2>2. config.directions # <<>>
    BY <1>2
  <2>3. /\ Sound(init) /\ SameBut(init, ag, {"routes", "failed"})
        /\ DOMAIN init.routes = DOMAIN ag.routes \cup {tag}
        /\ \A t \in DOMAIN ag.routes :
             /\ init.routes[t].directions = ag.routes[t].directions
             /\ init.routes[t].paths = ag.routes[t].paths
        /\ tag \notin DOMAIN ag.routes => empty
    <3>1. NamesRoute(init, ag, config)
      BY RouteNamed
    <3> HIDE DEF init
    <3> QED
      BY <3>1 DEF NamesRoute
  <2> HIDE DEF b, init, stopped, directed, full
  <2>4. init.paths = ag.paths /\ Linked(ag)
    BY <2>3 DEF SameBut, Sound
  <2>5. \A t \in DOMAIN ag.routes : PointsOf(init, t) = PointsOf(ag, t)
    BY <2>3, <2>4, PointsKept
  <2>6. CASE config.header = "off the map"
    <3>1. /\ DOMAIN init = {"routes", "directions", "stops", "paths", "byHash", "failed", "panic"}
          /\ init.failed \in BOOLEAN
          /\ \A t \in DOMAIN init.routes : IsRoute(init.routes[t])
          /\ \A d \in DOMAIN init.directions : IsDirection(init.directions[d])
      BY <2>3 DEF Sound, Directed
    <3>2. /\ b.panic = TRUE /\ DOMAIN b = DOMAIN init /\ b.failed = init.failed
          /\ b.routes = init.routes /\ b.directions = init.directions
          /\ b.paths = init.paths /\ b.byHash = init.byHash
      BY <2>1, <2>6, <3>1
    <3>3. Sound(b)
      BY <2>3, <3>1, <3>2, SoundKept
    <3> QED
      BY <3>2, <3>3 DEF ParsesFile, Parsed, b
  <2>7. CASE config.header # "off the map" /\ ~ empty
    <3>1. b = init /\ tag \in DOMAIN ag.routes
      BY <2>1, <2>3, <2>7
    <3>2. EachDirected(init)
      BY <2>3, <3>1 DEF EachDirected
    <3> QED
      BY <2>3, <2>5, <3>1, <3>2 DEF ParsesFile, b
  <2>8. CASE config.header # "off the map" /\ empty
    <3>1. b = full /\ tag \notin DOMAIN ag.routes
      BY <2>1, <2>3, <2>8 DEF EachDirected
    <3>2. KeepsPaths(stopped, init)
      BY <2>3, StopsAdded DEF stopped
    <3>3. Sound(stopped) /\ tag \in DOMAIN stopped.routes
      BY <2>3, <3>2 DEF KeepsPaths
    <3>4. /\ KeepsPaths(directed, stopped)
          /\ Parsed(directed) => directed.routes[tag].directions # {}
      BY <2>2, <3>3, DirectionsAdded DEF directed
    <3>5. KeepsPaths(directed, init)
      BY <3>2, <3>4, KeptTwice
    <3>6. /\ Sound(directed) /\ tag \in DOMAIN directed.routes
          /\ directed.routes[tag].paths = <<>>
      BY <2>3, <2>8, <3>5 DEF KeepsPaths
    <3>7. /\ KeepsOthers(full, directed, tag)
          /\ Parsed(full) => PointsOf(full, tag) = config.paths
      BY <3>6, RoutePathsAdded DEF full
    <3>8. ASSUME NEW t \in DOMAIN ag.routes
          PROVE  PointsOf(full, t) = PointsOf(ag, t)
      <4>1. t # tag /\ t \in DOMAIN init.routes /\ t \in DOMAIN directed.routes
        BY <2>3, <3>1, <3>5 DEF KeepsPaths
      <4>2. PointsOf(directed, t) = PointsOf(init, t)
        BY <3>5, <4>1 DEF KeepsPaths, PointsOf
      <4>3. PointsOf(full, t) = PointsOf(directed, t)
        BY <3>7, <4>1 DEF KeepsOthers
      <4> QED
        BY <2>5, <4>2, <4>3
    <3>9. Parsed(full) => EachDirected(full)
      <4> SUFFICES ASSUME Parsed(full), NEW t \in DOMAIN full.routes
                   PROVE  full.routes[t].directions # {}
        BY DEF EachDirected
      <4>1. Parsed(directed)
        BY <3>7 DEF KeepsOthers, Parsed
      <4>2. /\ t \in DOMAIN directed.routes
            /\ full.routes[t].directions = directed.routes[t].directions
        BY <3>7 DEF KeepsOthers
      <4>3. CASE t = tag
        BY <3>4, <4>1, <4>2, <4>3
      <4>4. CASE t # tag
        <5>1. t \in DOMAIN ag.routes
          BY <2>3, <3>5, <4>2, <4>4 DEF KeepsPaths
        <5>2. ag.routes[t].directions \subseteq directed.routes[t].directions
          BY <2>3, <3>5, <5>1 DEF KeepsPaths
        <5> QED
          BY <4>2, <5>1, <5>2 DEF EachDirected
      <4> QED
        BY <4>3, <4>4
    <3>10. Sound(full) /\ DOMAIN full.routes = DOMAIN ag.routes \cup {tag}
      BY <2>3, <3>5, <3>7 DEF KeepsOthers, KeepsPaths
    <3> QED
      BY <3>1, <3>7, <3>8, <3>9, <3>10 DEF ParsesFile, b
  <2> QED
    BY <2>6, <2>7, <2>8
<1> QED
  BY <1>1, <1>2

LEMMA FileOfFirst ==
  ASSUME NEW files, NEW n \in Nat, DOMAIN files = 1 .. n, NEW k \in 1 .. n,
         \A j \in 1 .. k - 1 : files[j].tag # files[k].tag
  PROVE  FileOf(files, files[k].tag) = files[k]
<1> DEFINE First(i) == /\ files[i].tag = files[k].tag
                       /\ \A j \in 1 .. i - 1 : files[j].tag # files[k].tag
           c == CHOOSE i \in DOMAIN files : First(i)
<1>1. First(k) /\ k \in DOMAIN files
  OBVIOUS
<1>2. c \in 1 .. n /\ First(c)
  BY <1>1
<1>3. c = k
  <2> HIDE DEF c
  <2>1. c < k \/ c = k \/ k < c
    BY <1>2
  <2>2. ~ (c < k)
    BY <1>2
  <2>3. ~ (k < c)
    BY <1>2
  <2> QED
    BY <2>1, <2>2, <2>3
<1>4. FileOf(files, files[k].tag) = files[c]
  BY DEF FileOf
<1> QED
  BY <1>3, <1>4

(* What was parsed from the files before the one after the k-th: their     *)
(* routes, each with the paths of its first file.                          *)
ParsedUpTo(ag, files, k) ==
  /\ Sound(ag)
  /\ Parsed(ag) =>
       /\ EachDirected(ag)
       /\ DOMAIN ag.routes = {files[i].tag : i \in 1 .. k}
       /\ \A t \in DOMAIN ag.routes : PointsOf(ag, t) = FileOf(files, t).paths

LEMMA FilesParsed ==
  ASSUME NEW files, IsSeq(files), \A i \in DOMAIN files : IsFile(files[i])
  PROVE  ParsedUpTo(ParseRouteConfigsDir(files), files, Len(files))
<1> DEFINE n == Len(files)
<1>1. n \in Nat /\ DOMAIN files = 1 .. n
  BY SeqIndices
<1>2. PICK acc : /\ acc[0] = NewAgency
                 /\ \A k \in 1 .. n : acc[k] = ParseNext(acc[k - 1], files[k])
                 /\ ParseRouteConfigsDir(files) = acc[n]
  BY <1>1, FilesFolded
<1> DEFINE G == {k \in 0 .. n : ParsedUpTo(acc[k], files, k)}
<1> HIDE DEF n
<1>3. 0 \in G
  <2>1. ParsedUpTo(NewAgency, files, 0)
    BY NewAgencySound DEF ParsedUpTo, EachDirected
  <2> QED
    BY <1>1, <1>2, <2>1
<1>4. ASSUME NEW k \in 1 .. n, k - 1 \in G PROVE k \in G
  <2> DEFINE a == acc[k - 1]
             b == acc[k]
             f == files[k]
  <2>1. ParsedUpTo(a, files, k - 1) /\ IsFile(f)
    BY <1>1, <1>4
  <2>2. b = ParseNext(a, f)
    BY <1>2
  <2> HIDE DEF a, b
  <2>3. CASE ~ Parsed(a)
    <3>1. b = a
      BY <2>2, <2>3 DEF ParseNext, Parsed
    <3> QED
      BY <1>1, <2>1, <2>3, <3>1 DEF ParsedUpTo, b
  <2>4. CASE Parsed(a)
    <3>1. b = ParseRouteConfig(a, f)
      BY <2>2, <2>4 DEF ParseNext, Parsed
    <3>2. /\ Sound(a) /\ EachDirected(a)
          /\ DOMAIN a.routes = {files[i].tag : i \in 1 .. k - 1}
          /\ \A t \in DOMAIN a.routes : PointsOf(a, t) = FileOf(files, t).paths
      BY <2>1, <2>4 DEF ParsedUpTo
    <3>3. ParsesFile(b, a, f)
      BY <2>1, <3>1, <3>2, FileParsed
    <3>4. 1 .. k = (1 .. k - 1) \cup {k}
      BY <1>1
    <3>5. DOMAIN a.routes \cup {f.tag} = {files[i].tag : i \in 1 .. k}
      BY <3>2, <3>4
    <3>6. f.tag \notin DOMAIN a.routes => FileOf(files, f.tag) = f
      BY <1>1, <3>2, FileOfFirst
    <3>7. ParsedUpTo(b, files, k)
      BY <3>2, <3>3, <3>5, <3>6 DEF ParsesFile, ParsedUpTo
    <3> QED
      BY <1>1, <3>7 DEF b
  <2> QED
    BY <2>3, <2>4
<1> HIDE DEF G
<1>5. n \in G
  BY <1>1, <1>3, <1>4, FromOneToTheNext
<1> QED
  BY <1>2, <1>5 DEF G, n

(* Whatever files are parsed, in whatever order, of routes that share      *)
(* stops, paths or directions, or are named by several files: if there is  *)
(* no error, every route has the paths of its file in their order, and     *)
(* every path the routes that have it, although hashes may collide.        *)
THEOREM PathsComeFromTheFiles ==
  ASSUME NEW files, IsSeq(files), \A i \in DOMAIN files : IsFile(files[i])
  PROVE  PathsOfTheFiles(files, ParseRouteConfigsDir(files))
<1> DEFINE ag == ParseRouteConfigsDir(files)
<1>1. ParsedUpTo(ag, files, Len(files))
  BY FilesParsed
<1> HIDE DEF ag
<1>2. Linked(ag)
  BY <1>1 DEF ParsedUpTo, Sound
<1>3. ASSUME Parsed(ag), NEW tag \in DOMAIN ag.routes
      PROVE  [n \in DOMAIN ag.routes[tag].paths |-> ag.paths[ag.routes[tag].paths[n]].points]
               = FileOf(files, tag).paths
  BY <1>1, <1>3 DEF ParsedUpTo, PointsOf
<1>4. PathsOfTheFiles(files, ag)
  BY <1>2, <1>3 DEF PathsOfTheFiles, Linked
<1> QED
  BY <1>4 DEF ag

----------------------------------------------------------------------------
(* The paths are written and read again.                                   *)

LEMMA SetAsSeq ==
  ASSUME NEW S, IsFiniteSet(S)
  PROVE  LET s == SetToSeq(S)
         IN /\ DOMAIN s = 1 .. Cardinality(S) /\ Cardinality(S) \in Nat
            /\ S = {s[i] : i \in 1 .. Cardinality(S)}
<1> DEFINE n == Cardinality(S)
           s == SetToSeq(S)
<1>1. n \in Nat /\ ExistsBijection(1 .. n, S)
  BY FS_CardinalityType
<1>2. PICK f \in Bijection(1 .. n, S) : TRUE
  BY <1>1 DEF ExistsBijection
<1>3. f \in [1 .. n -> S] /\ IsInjective(f)
  BY <1>2 DEF Bijection, Injection
<1>4. s \in [1 .. n -> S] /\ IsInjective(s)
  BY <1>3 DEF SetToSeq
<1> HIDE DEF s
<1>5. s \in Injection(1 .. n, S)
  BY <1>4 DEF Injection
<1>6. IsFiniteSet(1 .. n) /\ Cardinality(1 .. n) = n
  BY <1>1, FS_Interval
<1>7. s \in Surjection(1 .. n, S)
  BY <1>5, <1>6, FS_Injection
<1>8. \A x \in S : \E i \in 1 .. n : s[i] = x
  BY <1>7 DEF Surjection
<1>9. S = {s[i] : i \in 1 .. n}
  BY <1>4, <1>8
<1> QED
  BY <1>1, <1>4, <1>9 DEF s

(* What is read is a part of what was written.                             *)
Agrees(b, ag) ==
  /\ Sound(b) /\ Parsed(b)
  /\ \A t \in DOMAIN b.routes : /\ t \in DOMAIN ag.routes
                                /\ b.routes[t].title = ag.routes[t].title
                                /\ b.routes[t].directions \subseteq ag.routes[t].directions
  /\ \A d \in DOMAIN b.directions : /\ d \in DOMAIN ag.directions
                                    /\ b.directions[d].title = ag.directions[d].title

LEMMA Forgotten ==
  ASSUME NEW b, Sound(b), ~ b.panic
  PROVE  Sound(Forget(b)) /\ Parsed(Forget(b)) /\ SameBut(Forget(b), b, {"failed"})
<1> DEFINE c == Forget(b)
<1>1. /\ DOMAIN b = {"routes", "directions", "stops", "paths", "byHash", "failed", "panic"}
      /\ b.panic \in BOOLEAN
      /\ \A t \in DOMAIN b.routes : IsRoute(b.routes[t])
      /\ \A d \in DOMAIN b.directions : IsDirection(b.directions[d])
  BY DEF Sound, Directed
<1>2. SameBut(c, b, {"failed"}) /\ c.failed = FALSE
  BY <1>1 DEF Forget, SameBut
<1> HIDE DEF c
<1>3. /\ c.routes = b.routes /\ c.directions = b.directions /\ c.paths = b.paths
      /\ c.byHash = b.byHash /\ c.panic = b.panic /\ DOMAIN c = DOMAIN b
  BY <1>1, <1>2 DEF SameBut
<1>4. Sound(c)
  BY <1>1, <1>2, <1>3, SoundKept
<1> QED
  BY <1>2, <1>3, <1>4 DEF Parsed, c

(* A direction of the route is read.                                       *)
ReadsDirections(c, b, ag, tag, ds) ==
  /\ Agrees(c, ag)
  /\ c.paths = b.paths
  /\ DOMAIN c.routes = DOMAIN b.routes
  /\ \A t \in DOMAIN b.routes : t # tag => c.routes[t].directions = b.routes[t].directions
  /\ c.routes[tag].directions = b.routes[tag].directions \cup ds

LEMMA DirectionRead ==
  ASSUME NEW ag, Sound(ag), NEW b, Agrees(b, ag), NEW tag \in DOMAIN b.routes,
         NEW d \in ag.routes[tag].directions
  PROVE  ReadsDirections(InitDirection(Forget(b), tag,
                                       [tag |-> d, title |-> ag.directions[d].title]),
                         b, ag, tag, {d})
<1> DEFINE a == Forget(b)
           elem == [tag |-> d, title |-> ag.directions[d].title]
           c == InitDirection(a, tag, elem)
<1>1. Sound(a) /\ Parsed(a) /\ SameBut(a, b, {"failed"})
  BY Forgotten DEF Agrees, Parsed
<1> HIDE DEF a
<1>2. a.paths = b.paths /\ a.routes = b.routes /\ a.directions = b.directions
  BY <1>1 DEF SameBut, Agrees, Sound
<1>3. NamesDirection(c, a, tag, elem)
  BY <1>1, <1>2, DirectionNamed
<1>4. elem.tag = d /\ elem.title = ag.directions[d].title
  OBVIOUS
<1> HIDE DEF c, elem
<1>5. /\ tag \in DOMAIN ag.routes
      /\ d \in DOMAIN ag.directions /\ ag.directions[d].route = tag
  BY DEF Agrees, Sound, Directed
<1>6. d \in DOMAIN a.directions => /\ d \in a.routes[tag].directions
                                   /\ a.directions[d].title = elem.title
  <2> SUFFICES ASSUME d \in DOMAIN a.directions
               PROVE  /\ d \in a.routes[tag].directions
                      /\ a.directions[d].title = elem.title
    OBVIOUS
  <2> DEFINE r == a.directions[d].route
  <2>1. r \in DOMAIN b.routes /\ d \in b.routes[r].directions
    BY <1>1, <1>2 DEF Sound, Directed
  <2>2. r \in DOMAIN ag.routes /\ d \in ag.routes[r].directions
    BY <2>1 DEF Agrees
  <2>3. r = tag
    BY <1>5, <2>2 DEF Sound, Directed
  <2> QED
    BY <1>2, <1>4, <2>1, <2>3 DEF Agrees
<1>7. ~ c.panic
  BY <1>1, <1>3, <1>4, <1>6 DEF NamesDirection, Parsed
<1>8. /\ Sound(c) /\ SameBut(c, a, {"routes", "directions", "failed", "panic"})
      /\ DOMAIN c.routes = DOMAIN a.routes
      /\ \A t \in DOMAIN a.routes :
           /\ c.routes[t].title = a.routes[t].title
           /\ t # tag => c.routes[t].directions = a.routes[t].directions
      /\ c.routes[tag].directions = a.routes[tag].directions \cup {d}
      /\ DOMAIN c.directions = DOMAIN a.directions \cup {d}
      /\ \A x \in DOMAIN a.directions : x # d => c.directions[x] = a.directions[x]
      /\ c.directions[d].title = IF d \in DOMAIN a.directions
                                 THEN Filled(a.directions[d].title, elem.title) ELSE elem.title
      /\ c.failed = (a.failed \/ (/\ d \in DOMAIN a.directions
                                  /\ Mismatch(a.directions[d].title, elem.title)))
  BY <1>3, <1>4, <1>7 DEF NamesDirection
<1>9. c.directions[d].title = ag.directions[d].title
  BY <1>4, <1>6, <1>8 DEF Filled
<1>10. ~ c.failed
  BY <1>1, <1>6, <1>8 DEF Mismatch, Parsed
<1>11. c.paths = b.paths
  BY <1>1, <1>2, <1>8 DEF SameBut, Sound
<1>12. \A x \in DOMAIN c.directions : /\ x \in DOMAIN ag.directions
                                      /\ c.directions[x].title = ag.directions[x].title
  BY <1>2, <1>5, <1>8, <1>9 DEF Agrees
<1>13. \A t \in DOMAIN c.routes : /\ t \in DOMAIN ag.routes
                                  /\ c.routes[t].title = ag.routes[t].title
                                  /\ c.routes[t].directions \subseteq ag.routes[t].directions
  BY <1>2, <1>8 DEF Agrees
<1>14. Agrees(c, ag)
  BY <1>7, <1>8, <1>10, <1>12, <1>13 DEF Agrees, Parsed
<1> QED
  BY <1>2, <1>8, <1>11, <1>14 DEF ReadsDirections, c, elem, a

LEMMA DirectionsRead ==
  ASSUME NEW ag, Sound(ag), NEW b, Agrees(b, ag), NEW tag \in DOMAIN b.routes
  PROVE  ReadsDirections(ReadDirections(b, RouteElement(ag, tag)), b, ag, tag,
                         ag.routes[tag].directions)
<1> DEFINE D == ag.routes[tag].directions
           Elem(d) == [tag |-> d, title |-> ag.directions[d].title]
           elem == RouteElement(ag, tag)
           S == {Elem(d) : d \in D}
           s == SetToSeq(S)
           n == Cardinality(S)
<1>1. elem.tag = tag /\ elem.directions = S
  BY DEF RouteElement
<1>2. IsFiniteSet(S)
  <2> DEFINE f == [d \in D |-> Elem(d)]
  <2>1. f \in Surjection(D, S)
    BY DEF Surjection
  <2>2. IsFiniteSet(D)
    BY DEF Sound, Agrees
  <2> QED
    BY <2>1, <2>2, FS_Surjection
<1> HIDE DEF elem, S
<1>3. DOMAIN s = 1 .. n /\ n \in Nat /\ S = {s[k] : k \in 1 .. n}
  BY <1>2, SetAsSeq
<1>4. s = SetToSeq(elem.directions)
  BY <1>1
<1> HIDE DEF n, s
<1>5. PICK acc : /\ acc[0] = b
                 /\ \A k \in 1 .. n : acc[k] = InitDirection(Forget(acc[k - 1]), elem.tag, s[k])
                 /\ ReadDirections(b, elem) = acc[n]
  <2>1. n \in Nat /\ DOMAIN s = 1 .. n
    BY <1>3
  <2> QED
    BY <1>4, <2>1, DirectionsReadFolded
<1>6. \A k \in 1 .. n : \E d \in D : s[k] = Elem(d) /\ s[k].tag = d
  BY <1>3 DEF S
<1>7. D = {s[k].tag : k \in 1 .. n}
  <2>1. \A d \in D : \E k \in 1 .. n : s[k] = Elem(d) /\ s[k].tag = d
    BY <1>3 DEF S
  <2>2. \A k \in 1 .. n : s[k].tag \in D
    BY <1>6
  <2> HIDE DEF D
  <2> QED
    BY <2>1, <2>2
<1> DEFINE Tags(k) == {s[m].tag : m \in 1 .. k}
           G == {k \in 0 .. n : ReadsDirections(acc[k], b, ag, tag, Tags(k))}
<1>8. 0 \in G
  <2>1. Tags(0) = {}
    OBVIOUS
  <2>2. ReadsDirections(b, b, ag, tag, {})
    BY DEF ReadsDirections
  <2>3. 0 \in 0 .. n
    BY <1>3
  <2> HIDE DEF Tags
  <2> QED
    BY <1>5, <2>1, <2>2, <2>3
<1>9. ASSUME NEW k \in 1 .. n, k - 1 \in G PROVE k \in G
  <2> DEFINE a == acc[k - 1]
             c == acc[k]
             X == Tags(k - 1)
             Y == Tags(k)
  <2>1. ReadsDirections(a, b, ag, tag, X)
    BY <1>9
  <2>2. PICK d \in D : s[k] = Elem(d) /\ s[k].tag = d
    BY <1>6
  <2>3. Y = X \cup {d}
    <3>1. 1 .. k = (1 .. k - 1) \cup {k}
      BY <1>3
    <3> QED
      BY <2>2, <3>1
  <2>4. c = InitDirection(Forget(a), tag, Elem(d))
    BY <1>1, <1>5, <2>2
  <2> HIDE DEF a, c, X, Y
  <2>5. Agrees(a, ag) /\ tag \in DOMAIN a.routes
    BY <2>1 DEF ReadsDirections
  <2>6. ReadsDirections(c, a, ag, tag, {d})
    BY <2>4, <2>5, DirectionRead
  <2>7. ReadsDirections(c, b, ag, tag, Y)
    BY <2>1, <2>3, <2>6 DEF ReadsDirections
  <2> QED
    BY <1>3, <2>7 DEF c, Y
<1> HIDE DEF G
<1>10. n \in G
  BY <1>3, <1>8, <1>9, FromOneToTheNext
<1> QED
  BY <1>5, <1>7, <1>10 DEF G, elem

(* Once more, the route is linked to a path, and has its directions.       *)
Full(b, ag) == \A t \in DOMAIN b.routes : b.routes[t].directions = ag.routes[t].directions

ReadsRoute(c, b, ag, tag, i) ==
  /\ Agrees(c, ag) /\ Full(c, ag)
  /\ Len(c.paths) = Len(b.paths)
  /\ \A j \in DOMAIN b.paths :
       c.paths[j] = IF j = i THEN [points |-> b.paths[j].points,
                                   routes |-> b.paths[j].routes \cup {tag}]
                             ELSE b.paths[j]

LEMMA RouteRead ==
  ASSUME NEW ag, Sound(ag), NEW b, Agrees(b, ag), Full(b, ag),
         NEW tag \in DOMAIN ag.routes, NEW i \in DOMAIN b.paths
  PROVE  ReadsRoute(ReadRoute(b, i, RouteElement(ag, tag)), b, ag, tag, i)
<1> DEFINE elem == RouteElement(ag, tag)
           a == Forget(b)
           init == InitRoute(a, elem)
           linked == Link(init, tag, i)
           c == ReadRoute(b, i, elem)
<1>1. elem.tag = tag /\ elem.title = ag.routes[tag].title
  BY DEF RouteElement
<1>2. Sound(a) /\ Parsed(a) /\ SameBut(a, b, {"failed"})
  BY Forgotten DEF Agrees, Parsed
<1> HIDE DEF a, elem
<1>3. a.paths = b.paths /\ a.routes = b.routes /\ a.directions = b.directions
  BY <1>2 DEF SameBut, Agrees, Sound
<1>4. NamesRoute(init, a, elem)
  BY <1>2, RouteNamed
<1> HIDE DEF init
<1>5. /\ Sound(init) /\ SameBut(init, a, {"routes", "failed"})
      /\ DOMAIN init.routes = DOMAIN a.routes \cup {tag}
      /\ \A t \in DOMAIN a.routes :
           /\ init.routes[t].directions = a.routes[t].directions
           /\ t # tag => init.routes[t].title = a.routes[t].title
      /\ IF tag \in DOMAIN a.routes
         THEN /\ init.failed = (a.failed \/ Mismatch(a.routes[tag].title, elem.title))
              /\ init.routes[tag].title = Filled(a.routes[tag].title, elem.title)
         ELSE /\ init.failed = a.failed
              /\ init.routes[tag] = [title |-> elem.title, stops |-> {},
                                     directions |-> {}, paths |-> <<>>]
  BY <1>1, <1>4 DEF NamesRoute
<1>6. init.paths = b.paths /\ init.directions = b.directions /\ init.panic = a.panic
  BY <1>2, <1>3, <1>5 DEF SameBut, Sound
<1>7. /\ ~ init.failed /\ init.routes[tag].title = ag.routes[tag].title
      /\ init.routes[tag].directions \subseteq ag.routes[tag].directions
  <2>1. CASE tag \in DOMAIN b.routes
    <3>1. a.routes[tag].title = elem.title
      BY <1>1, <1>3, <2>1 DEF Agrees
    <3> QED
      BY <1>1, <1>2, <1>3, <1>5, <2>1, <3>1 DEF Mismatch, Filled, Parsed, Agrees
  <2>2. CASE tag \notin DOMAIN b.routes
    BY <1>1, <1>2, <1>3, <1>5, <2>2 DEF Parsed
  <2> QED
    BY <2>1, <2>2
<1>8. Parsed(init)
  BY <1>2, <1>6, <1>7 DEF Parsed
<1>9. /\ Sound(linked) /\ SameBut(linked, init, {"paths", "routes"})
      /\ Len(linked.paths) = Len(init.paths)
      /\ \A j \in DOMAIN init.paths :
           linked.paths[j] = IF j = i THEN [points |-> init.paths[j].points,
                                            routes |-> init.paths[j].routes \cup {tag}]
                                      ELSE init.paths[j]
      /\ DOMAIN linked.routes = DOMAIN init.routes
      /\ \A t \in DOMAIN init.routes :
           /\ linked.routes[t].title = init.routes[t].title
           /\ linked.routes[t].directions = init.routes[t].directions
  <2>1. tag \in DOMAIN init.routes /\ i \in DOMAIN init.paths
    BY <1>5, <1>6
  <2>2. linked = Link(init, tag, i) /\ Sound(init)
    BY <1>5
  <2> HIDE DEF linked
  <2> QED
    BY <2>1, <2>2, LinkEffect
<1>10. c = ReadDirections(linked, elem)
  <2>1. init.failed = FALSE /\ init.panic = FALSE
    BY <1>5, <1>8 DEF Sound, Parsed
  <2> HIDE DEF linked
  <2> QED
    BY <1>1, <2>1 DEF ReadRoute, linked, init, a
<1> HIDE DEF linked, c
<1>11. Agrees(linked, ag) /\ tag \in DOMAIN linked.routes
  <2>1. linked.directions = b.directions /\ Parsed(linked)
    BY <1>5, <1>6, <1>8, <1>9 DEF SameBut, Sound, Parsed
  <2>2. \A t \in DOMAIN linked.routes : /\ t \in DOMAIN ag.routes
                                        /\ linked.routes[t].title = ag.routes[t].title
                                        /\ linked.routes[t].directions
                                             \subseteq ag.routes[t].directions
    <3> SUFFICES ASSUME NEW t \in DOMAIN linked.routes
                 PROVE  /\ t \in DOMAIN ag.routes
                        /\ linked.routes[t].title = ag.routes[t].title
                        /\ linked.routes[t].directions \subseteq ag.routes[t].directions
      OBVIOUS
    <3>1. CASE t = tag
      BY <1>7, <1>9, <3>1
    <3>2. CASE t # tag
      BY <1>3, <1>5, <1>9, <3>2 DEF Agrees
    <3> QED
      BY <3>1, <3>2
  <2>3. tag \in DOMAIN linked.routes
    BY <1>5, <1>9
  <2> QED
    BY <1>9, <2>1, <2>2, <2>3 DEF Agrees
<1>12. ReadsDirections(c, linked, ag, tag, ag.routes[tag].directions)
  BY <1>10, <1>11, DirectionsRead DEF elem
<1>13. Full(c, ag)
  <2> SUFFICES ASSUME NEW t \in DOMAIN c.routes
               PROVE  c.routes[t].directions = ag.routes[t].directions
    BY DEF Full
  <2>1. CASE t = tag
    BY <1>11, <1>12, <2>1 DEF ReadsDirections, Agrees
  <2>2. CASE t # tag
    BY <1>3, <1>5, <1>9, <1>12, <2>2 DEF ReadsDirections, Full
  <2> QED
    BY <2>1, <2>2
<1> QED
  BY <1>6, <1>9, <1>12, <1>13 DEF ReadsRoute, ReadsDirections, c, elem

(* A path is read after those before it.                                   *)
ReadUpTo(b, ag, k) ==
  /\ Agrees(b, ag) /\ Full(b, ag)
  /\ Len(b.paths) = k
  /\ \A j \in 1 .. k : b.paths[j] = ag.paths[j]

HasRoutes(b, ag, k, tags) ==
  /\ Agrees(b, ag) /\ Full(b, ag)
  /\ Len(b.paths) = k
  /\ \A j \in 1 .. k - 1 : b.paths[j] = ag.paths[j]
  /\ b.paths[k] = [points |-> ag.paths[k].points, routes |-> tags]

LEMMA PathsDomain ==
  ASSUME NEW b, Sound(b)
  PROVE  DOMAIN b.paths = 1 .. Len(b.paths) /\ Len(b.paths) \in Nat
BY SeqIndices DEF Sound, Indexed

LEMMA EachRouteRead ==
  ASSUME NEW b, NEW i, NEW elem, IsFiniteSet(elem.routes)
  PROVE  \E n, s, acc :
           /\ n \in Nat /\ elem.routes = {s[m] : m \in 1 .. n}
           /\ ReadsEach(acc, b, i, s, n)
           /\ ReadRoutes(b, i, elem) = acc[n]
<1> DEFINE n == Cardinality(elem.routes)
           s == SetToSeq(elem.routes)
<1>1. DOMAIN s = 1 .. n /\ n \in Nat /\ elem.routes = {s[m] : m \in 1 .. n}
  BY SetAsSeq
<1>2. \E acc : ReadsEach(acc, b, i, s, n) /\ ReadRoutes(b, i, elem) = acc[n]
  <2>1. s = SetToSeq(elem.routes)
    OBVIOUS
  <2> HIDE DEF n, s
  <2>2. ReadInTurn(b, i, elem, s, n)
    BY <1>1, <2>1, RoutesReadFolded
  <2> QED
    BY <2>2 DEF ReadInTurn
<1> HIDE DEF n, s
<1> QED
  BY <1>1, <1>2

LEMMA RoutesRead ==
  ASSUME NEW ag, Sound(ag), NEW k \in DOMAIN ag.paths, NEW b, HasRoutes(b, ag, k, {}),
         NEW elem, elem.routes = {RouteElement(ag, t) : t \in ag.paths[k].routes}
  PROVE  HasRoutes(ReadRoutes(b, k, elem), ag, k, ag.paths[k].routes)
<1> DEFINE T == ag.paths[k].routes
           S == elem.routes
<1>1. T \subseteq DOMAIN ag.routes /\ k \in Nat \ {0}
  BY PathsDomain DEF Sound, Linked
<1>2. IsFiniteSet(S)
  <2> DEFINE f == [t \in T |-> RouteElement(ag, t)]
  <2>1. f \in Surjection(T, S)
    BY DEF Surjection
  <2>2. IsFiniteSet(T)
    BY <1>1, FS_Subset DEF Sound
  <2> QED
    BY <2>1, <2>2, FS_Surjection
<1>3. PICK n, s, acc :
        /\ n \in Nat /\ S = {s[m] : m \in 1 .. n}
        /\ ReadsEach(acc, b, k, s, n)
        /\ ReadRoutes(b, k, elem) = acc[n]
  <2> HIDE DEF T
  <2>1. IsFiniteSet(elem.routes)
    BY <1>2 DEF S
  <2> DEFINE c == ReadRoutes(b, k, elem)
  <2>2. c = ReadRoutes(b, k, elem)
    OBVIOUS
  <2> HIDE DEF c
  <2>3. \E n, s, acc : /\ n \in Nat /\ elem.routes = {s[m] : m \in 1 .. n}
                        /\ ReadsEach(acc, b, k, s, n)
                        /\ c = acc[n]
    BY <2>1, <2>2, EachRouteRead
  <2> QED
    BY <2>2, <2>3 DEF S
<1>4. acc[0] = b /\ \A m \in 1 .. n : acc[m] = ReadRoute(acc[m - 1], k, s[m])
  BY <1>3 DEF ReadsEach
<1>5. S = {s[m] : m \in 1 .. n} /\ n \in Nat /\ ReadRoutes(b, k, elem) = acc[n]
  BY <1>3
<1>6. \A t : RouteElement(ag, t).tag = t
  BY DEF RouteElement
<1>7. \A m \in 1 .. n : \E t \in T : s[m] = RouteElement(ag, t) /\ s[m].tag = t
  <2> SUFFICES ASSUME NEW m \in 1 .. n
               PROVE  \E t \in T : s[m] = RouteElement(ag, t) /\ s[m].tag = t
    OBVIOUS
  <2>1. s[m] \in S
    BY <1>5
  <2>2. PICK t \in T : s[m] = RouteElement(ag, t)
    BY <2>1 DEF S
  <2> QED
    BY <1>6, <2>2
<1>8. T = {s[m].tag : m \in 1 .. n}
  <2>1. \A t \in T : \E m \in 1 .. n : s[m].tag = t
    BY <1>5, <1>6 DEF S
  <2>2. \A m \in 1 .. n : s[m].tag \in T
    BY <1>7
  <2> HIDE DEF T
  <2> QED
    BY <2>1, <2>2
<1> DEFINE Tags(m) == {s[j].tag : j \in 1 .. m}
           G == {m \in 0 .. n : HasRoutes(acc[m], ag, k, Tags(m))}
<1>9. 0 \in G
  <2>1. Tags(0) = {}
    OBVIOUS
  <2>2. 0 \in 0 .. n
    BY <1>5
  <2> HIDE DEF Tags
  <2> QED
    BY <1>4, <2>1, <2>2
<1>10. ASSUME NEW m \in 1 .. n, m - 1 \in G PROVE m \in G
  <2> DEFINE a == acc[m - 1]
             c == acc[m]
             X == Tags(m - 1)
             Y == Tags(m)
  <2>1. HasRoutes(a, ag, k, X)
    BY <1>10
  <2>2. PICK t \in T : s[m] = RouteElement(ag, t) /\ s[m].tag = t
    BY <1>7
  <2>3. Y = X \cup {t}
    <3>1. 1 .. m = (1 .. m - 1) \cup {m}
      BY <1>5
    <3> QED
      BY <2>2, <3>1
  <2>4. c = ReadRoute(a, k, RouteElement(ag, t)) /\ t \in DOMAIN ag.routes
    BY <1>1, <1>4, <2>2
  <2> HIDE DEF a, c, X, Y
  <2>5. /\ Agrees(a, ag) /\ Full(a, ag) /\ DOMAIN a.paths = 1 .. k /\ k \in DOMAIN a.paths
    BY <1>1, <2>1, PathsDomain DEF HasRoutes, Agrees
  <2>6. ReadsRoute(c, a, ag, t, k)
    BY <2>4, <2>5, RouteRead
  <2>7. HasRoutes(c, ag, k, Y)
    <3>1. \A j \in 1 .. k - 1 : c.paths[j] = ag.paths[j]
      <4>1. \A j \in 1 .. k - 1 : j # k /\ j \in DOMAIN a.paths /\ a.paths[j] = ag.paths[j]
        BY <1>1, <2>1, <2>5 DEF HasRoutes
      <4> QED
        BY <2>6, <4>1 DEF ReadsRoute
    <3>2. c.paths[k] = [points |-> a.paths[k].points, routes |-> a.paths[k].routes \cup {t}]
      BY <2>5, <2>6 DEF ReadsRoute
    <3>3. a.paths[k].points = ag.paths[k].points /\ a.paths[k].routes = X
      BY <2>1, PathRecord DEF HasRoutes
    <3> QED
      BY <2>1, <2>3, <2>6, <3>1, <3>2, <3>3 DEF ReadsRoute, HasRoutes
  <2> QED
    BY <1>5, <2>7 DEF c, Y
<1> HIDE DEF G
<1>11. n \in G
  BY <1>5, <1>9, <1>10, FromOneToTheNext
<1> QED
  BY <1>5, <1>8, <1>11 DEF G

LEMMA PathRead ==
  ASSUME NEW ag, Sound(ag), NEW k \in DOMAIN ag.paths, NEW b, ReadUpTo(b, ag, k - 1),
         NEW elem, elem.points = ag.paths[k].points,
         elem.routes = {RouteElement(ag, t) : t \in ag.paths[k].routes}
  PROVE  ReadUpTo(ReadPath(b, elem), ag, k)
<1> DEFINE points == ag.paths[k].points
           added == AddPathByLocations(b, points)
           i == IndexOf(added, points)
           new == [points |-> points, routes |-> {}]
           c == ReadPath(b, elem)
<1>1. /\ DOMAIN ag.paths = 1 .. Len(ag.paths) /\ Len(ag.paths) \in Nat
      /\ DOMAIN b.paths = 1 .. k - 1 /\ b.paths \in Seq(Range(b.paths))
      /\ k \in Nat \ {0} /\ Len(b.paths) = k - 1 /\ Sound(b)
  BY PathsDomain DEF ReadUpTo, Agrees, Sound, Indexed, IsSeq
<1>2. \A j \in 1 .. k - 1 : b.paths[j] = ag.paths[j] /\ b.paths[j].points # points
  <2> SUFFICES ASSUME NEW j \in 1 .. k - 1
               PROVE  b.paths[j] = ag.paths[j] /\ b.paths[j].points # points
    OBVIOUS
  <2>1. b.paths[j] = ag.paths[j]
    BY DEF ReadUpTo
  <2>2. j \in DOMAIN ag.paths /\ j # k
    BY <1>1
  <2> QED
    BY <2>1, <2>2 DEF Sound, Indexed
<1>3. /\ Sound(added) /\ SameBut(added, b, {"paths", "byHash"})
      /\ i \in DOMAIN added.paths /\ added.paths[i].points = points
      /\ \/ added.paths = b.paths
         \/ added.paths = Append(b.paths, new)
  BY <1>1, PathAdded
<1> HIDE DEF added, i, new
<1>4. /\ added.paths = Append(b.paths, new)
      /\ IsAppended(added.paths, b.paths, new)
  <2>1. added.paths # b.paths
    BY <1>1, <1>2, <1>3
  <2> QED
    BY <1>1, <1>3, <2>1, AppendEffect
<1>5. /\ Len(added.paths) = k /\ DOMAIN added.paths = 1 .. k
      /\ \A j \in 1 .. k - 1 : added.paths[j] = ag.paths[j]
      /\ added.paths[k] = new
  BY <1>1, <1>2, <1>4 DEF IsAppended
<1>6. i = k
  <2>1. i \in 1 .. k - 1 => FALSE
    BY <1>2, <1>3, <1>5
  <2> QED
    BY <1>1, <1>3, <1>5, <2>1
<1>7. Agrees(added, ag) /\ Full(added, ag)
  <2>1. /\ added.routes = b.routes /\ added.directions = b.directions
        /\ added.failed = b.failed /\ added.panic = b.panic
    BY <1>1, <1>3 DEF SameBut, Sound
  <2> QED
    BY <1>3, <2>1 DEF ReadUpTo, Agrees, Full, Parsed
<1>8. HasRoutes(added, ag, k, {})
  BY <1>5, <1>7 DEF HasRoutes, new
<1>9. c = ReadRoutes(added, k, elem)
  BY <1>6 DEF ReadPath, added, i
<1> HIDE DEF c
<1>10. HasRoutes(c, ag, k, ag.paths[k].routes)
  BY <1>8, <1>9, RoutesRead
<1>11. c.paths[k] = ag.paths[k]
  BY <1>10 DEF HasRoutes, Sound, Indexed, IsPath
<1>12. \A j \in 1 .. k : j = k \/ j \in 1 .. k - 1
  BY <1>1
<1> QED
  BY <1>10, <1>11, <1>12 DEF HasRoutes, ReadUpTo, c

LEMMA PathsReadBack ==
  ASSUME NEW ag, Sound(ag), ag.paths # <<>>
  PROVE  ReadUpTo(ReadElements(WritePaths(ag)), ag, Len(ag.paths))
<1> DEFINE n == Len(ag.paths)
           body == WritePaths(ag)
<1>1. n \in Nat /\ n >= 1 /\ DOMAIN ag.paths = 1 .. n
  BY SeqIndices DEF Sound, Indexed
<1>2. /\ DOMAIN body = 1 .. n
      /\ \A k \in 1 .. n :
           /\ body[k].points = ag.paths[k].points
           /\ body[k].routes = {RouteElement(ag, t) : t \in ag.paths[k].routes}
  BY DEF WritePaths
<1> HIDE DEF n, body
<1>3. body # <<>>
  BY <1>1, <1>2
<1>4. PICK acc : /\ acc[0] = NewAgency
                 /\ \A k \in 1 .. n : acc[k] = ReadPath(acc[k - 1], body[k])
                 /\ ReadElements(body) = acc[n]
  BY <1>1, <1>2, <1>3, PathsReadFolded
<1> DEFINE G == {k \in 0 .. n : ReadUpTo(acc[k], ag, k)}
<1>5. 0 \in G
  <2>1. Len(NewAgency.paths) = 0
    BY NewAgencySound
  <2>2. ReadUpTo(NewAgency, ag, 0)
    BY <2>1, NewAgencySound DEF ReadUpTo, Agrees, Full, Parsed
  <2> QED
    BY <1>1, <1>4, <2>2
<1>6. ASSUME NEW k \in 1 .. n, k - 1 \in G PROVE k \in G
  <2> DEFINE a == acc[k - 1]
             c == acc[k]
             elem == body[k]
  <2>1. ReadUpTo(a, ag, k - 1) /\ k \in DOMAIN ag.paths
    BY <1>1, <1>6
  <2>2. c = ReadPath(a, elem)
    BY <1>4
  <2>3. /\ elem.points = ag.paths[k].points
        /\ elem.routes = {RouteElement(ag, t) : t \in ag.paths[k].routes}
    BY <1>2
  <2> HIDE DEF a, c, elem
  <2>4. ReadUpTo(ReadPath(a, elem), ag, k)
    BY <2>1, <2>3, PathRead
  <2> QED
    BY <1>1, <2>2, <2>4 DEF c
<1> HIDE DEF G
<1>7. n \in G
  BY <1>1, <1>5, <1>6, FromOneToTheNext
<1> QED
  BY <1>4, <1>7 DEF G, n, body

(* The reader finds in a whole file of plain tags what was written there.  *)
LEMMA WrittenRead ==
  ASSUME NEW ag, Sound(ag), NEW agencyTag, Plain(WritePathsToFile(ag, agencyTag, FALSE))
  PROVE  ReadPaths(WritePathsToFile(ag, agencyTag, FALSE)) = ReadElements(WritePaths(ag))
<1> DEFINE saved == WritePathsToFile(ag, agencyTag, FALSE)
<1>1. /\ saved.agency = agencyTag /\ saved.paths = WritePaths(ag) /\ ~ saved.cut
      /\ DOMAIN saved.paths = 1 .. Len(ag.paths)
  BY DEF WritePathsToFile, WritePaths
<1>2. Plain(saved)
  OBVIOUS
<1> HIDE DEF saved
<1>3. Decodes(saved) /\ AsRead(saved.agency) # Missing
  <2>1. saved.agency \in TagsIn(saved)
    BY DEF TagsIn
  <2> QED
    BY <1>1, <1>2, <2>1 DEF Decodes, Plain
<1>4. ASSUME NEW i \in DOMAIN saved.paths, NEW r \in saved.paths[i].routes
      PROVE  DecodedRoute(r) = r
  <2>1. i \in DOMAIN WritePaths(ag) /\ saved.paths \in [DOMAIN saved.paths -> Range(saved.paths)]
    BY <1>1 DEF WritePaths, Range
  <2>2. saved.paths[i] \in Range(saved.paths)
    BY <2>1
  <2>3. r \in UNION {p.routes : p \in Range(saved.paths)}
    BY <2>2
  <2>4. r.tag \in TagsIn(saved) /\ \A d \in r.directions : d.tag \in TagsIn(saved)
    BY <2>3 DEF TagsIn, DirectionsIn
  <2>5. AsRead(r.tag) = r.tag /\ \A d \in r.directions : AsRead(d.tag) = d.tag
    BY <1>2, <2>4 DEF Plain
  <2>6. PICK t \in ag.paths[i].routes : r = RouteElement(ag, t)
    BY <1>1, <2>1 DEF WritePaths
  <2>7. \A d \in r.directions : [tag |-> d.tag, title |-> d.title] = d
    BY <2>6 DEF RouteElement
  <2>8. {[tag |-> AsRead(d.tag), title |-> d.title] : d \in r.directions} = r.directions
    BY <2>5, <2>7
  <2>9. r = [tag |-> r.tag, title |-> r.title, directions |-> r.directions]
    BY <2>6 DEF RouteElement
  <2> QED
    BY <2>5, <2>8, <2>9 DEF DecodedRoute
<1>5. ASSUME NEW i \in DOMAIN saved.paths
      PROVE  Decoded(saved)[i] = saved.paths[i]
  <2>1. {DecodedRoute(r) : r \in saved.paths[i].routes} = saved.paths[i].routes
    BY <1>4
  <2>2. saved.paths[i] = [points |-> saved.paths[i].points, routes |-> saved.paths[i].routes]
    <3> DEFINE points == ag.paths[i].points
               routes == {RouteElement(ag, tag) : tag \in ag.paths[i].routes}
    <3>1. i \in 1 .. Len(ag.paths) /\ saved.paths[i] = WritePaths(ag)[i]
      BY <1>1
    <3>2. saved.paths[i] = [points |-> points, routes |-> routes]
      BY <3>1 DEF WritePaths
    <3> HIDE DEF points, routes
    <3> QED
      BY <3>2
  <2> QED
    BY <2>1, <2>2 DEF Decoded
<1>6. Decoded(saved) = saved.paths
  <2>1. /\ Decoded(saved) = [i \in DOMAIN saved.paths |-> Decoded(saved)[i]]
        /\ saved.paths = [i \in DOMAIN saved.paths |-> saved.paths[i]]
    BY <1>1 DEF Decoded, WritePaths
  <2> QED
    BY <1>5, <2>1
<1> QED
  BY <1>1, <1>3, <1>6 DEF ReadPaths, saved

(* The paths of any files, written and read again, have the index they had *)
(* and their routes, and these their directions, in whatever order the     *)
(* routes of a path and their directions were written, and although an     *)
(* error of the reader is forgotten at the next element: there is none.    *)
(* That is, if the file was written to its end, and no tag has a character *)
(* that XML gives a meaning; from a file that is cut nothing is read.      *)
THEOREM PathsComeBack ==
  ASSUME NEW files, IsSeq(files), \A i \in DOMAIN files : IsFile(files[i]),
         NEW agencyTag, NEW cut \in BOOLEAN
  PROVE  LET ag == ParseRouteConfigsDir(files)
             saved == WritePathsToFile(ag, agencyTag, cut)
         IN PathsSurviveTheFile(ag, saved, ReadPaths(saved))
<1> DEFINE ag == ParseRouteConfigsDir(files)
           saved == WritePathsToFile(ag, agencyTag, cut)
           back == ReadPaths(saved)
           n == Len(ag.paths)
<1>1. Sound(ag)
  BY FilesParsed DEF ParsedUpTo
<1>0. saved.cut = cut
  BY DEF WritePathsToFile
<1>9. ASSUME cut PROVE ~ Parsed(back)
  BY <1>0, <1>9 DEF ReadPaths, Decodes, Fail, NewAgency, Parsed
<1>8. ASSUME ~ cut, Plain(saved) PROVE back = ReadElements(WritePaths(ag))
  <2>1. cut = FALSE
    BY <1>8
  <2> HIDE DEF ag
  <2> QED
    BY <1>1, <1>8, <2>1, WrittenRead
<1> HIDE DEF ag, back, saved
<1> SUFFICES ASSUME Parsed(ag), ag.paths # <<>>, ~ cut, Plain(saved)
             PROVE  /\ Parsed(back) /\ back.paths = ag.paths
                    /\ \A tag \in DOMAIN back.routes :
                         /\ back.routes[tag].directions = ag.routes[tag].directions
                         /\ Range(back.routes[tag].paths) = Range(ag.routes[tag].paths)
                         /\ \A d \in back.routes[tag].directions :
                              /\ back.directions[d].route = tag
                              /\ back.directions[d].title = ag.directions[d].title
  BY <1>0, <1>9 DEF PathsSurviveTheFile, ag, back, saved
<1>2. ReadUpTo(back, ag, n)
  BY <1>1, <1>8, PathsReadBack
<1>3. Agrees(back, ag) /\ Full(back, ag) /\ Sound(back) /\ Parsed(back)
  BY <1>2 DEF ReadUpTo, Agrees
<1>4. back.paths = ag.paths
  <2>1. /\ IsSeq(ag.paths) /\ IsSeq(back.paths)
    BY <1>1, <1>3 DEF Sound, Indexed
  <2>2. /\ ag.paths = [i \in 1 .. n |-> ag.paths[i]]
        /\ back.paths = [i \in 1 .. Len(back.paths) |-> back.paths[i]]
    BY <2>1, SeqIndices
  <2> QED
    BY <1>2, <2>2 DEF ReadUpTo
<1>5. ASSUME NEW tag \in DOMAIN back.routes
      PROVE  Range(back.routes[tag].paths) = Range(ag.routes[tag].paths)
  <2>1. tag \in DOMAIN ag.routes
    BY <1>3 DEF Agrees
  <2>2. /\ Range(back.routes[tag].paths) \subseteq DOMAIN ag.paths
        /\ Range(ag.routes[tag].paths) \subseteq DOMAIN ag.paths
    BY <1>1, <1>3, <1>4, <2>1, OfMore DEF Sound, Linked
  <2>3. ASSUME NEW i \in DOMAIN ag.paths
        PROVE  i \in Range(back.routes[tag].paths) <=> i \in Range(ag.routes[tag].paths)
    <3>1. ag.paths[i].routes = {t \in DOMAIN ag.routes : i \in Range(ag.routes[t].paths)}
      BY <1>1 DEF Sound, Linked
    <3>2. ag.paths[i].routes = {t \in DOMAIN back.routes : i \in Range(back.routes[t].paths)}
      BY <1>3, <1>4 DEF Sound, Linked
    <3> QED
      BY <2>1, <3>1, <3>2
  <2> QED
    BY <2>2, <2>3
<1>6. ASSUME NEW tag \in DOMAIN back.routes, NEW d \in back.routes[tag].directions
      PROVE  /\ back.directions[d].route = tag
             /\ back.directions[d].title = ag.directions[d].title
  BY <1>3 DEF Sound, Directed, Agrees
<1> QED
  BY <1>3, <1>4, <1>5, <1>6 DEF Full
============================================================================
