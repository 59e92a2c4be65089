---------------------------- MODULE ConfigCuller ----------------------------
(***************************************************************************)
(* configfetch/config_dir_cull.go, with the comparison of                  *)
(* config_dir_compare.go: the goroutine that is given the config           *)
(* directories in the order of their dates and removes those that add      *)
(* nothing.  Whoever gives it directories and stops it is composed with it *)
(* in ConfigFetch and CullTool.                                            *)
(*                                                                         *)
(* A directory is its number in the order of fetching; its contents are    *)
(* pairs of a file and a version (what the file says, comments aside).     *)
(* What the disk has survives a restart; the rest does not.                *)
(***************************************************************************)
EXTENDS Naturals, Sequences

CONSTANTS
  Dirs,         (* 1 .. the number of directories                          *)
  Items,        (* what a file may say: pairs of the file, a number, and   *)
                (* the version (a file not written to its end is one too)  *)
  CompareOnly,  (* is nothing deleted?                                     *)
  Announcing    (* is there a culledDirCh?                                 *)

ASSUME CullerAssumption ==
  /\ Dirs \subseteq Nat \ {0}
  /\ Items \subseteq Nat \X Nat
  /\ CompareOnly \in BOOLEAN /\ Announcing \in BOOLEAN

NoDir == 0  (* "" *)

VARIABLES
  disk,        (* the files in each directory                              *)
  exists,      (* the directories there are                                *)
  marked,      (* those with a DELETING_CONFIG_DIR in them                 *)
  written,     (* history: all files ever written to a directory           *)
  unmarkable,  (* history: directories in which Mkdir of the marker failed *)
  culler,      (* "select", "compare", "mark", "files", "remove", "dirs",  *)
               (* "answer", or "stopping"                                  *)
  firstDir, prevDir,
  currentDir,  (* the argument of processCurrentDir                        *)
  toCull,      (* directories it has still to cull                         *)
  toVisit,     (* files of the first of them that Walk has yet to visit    *)
  encounteredError,
  doStop,
  announcing,  (* directories a goroutine is about to send on culledDirCh  *)
  culledDirCh  (* "open", "closed" or "nil"                                *)

diskVars == <<disk, exists, marked, written, unmarkable>>
cullVars == <<toCull, toVisit, encounteredError>>
seqVars  == <<firstDir, prevDir, currentDir>>
chVars   == <<announcing, culledDirCh>>
cullerVars == <<culler, seqVars, cullVars, doStop, chVars>>

InitDisk ==
  /\ disk = [d \in Dirs |-> {}]
  /\ exists = {}
  /\ marked = {}
  /\ written = disk
  /\ unmarkable = {}

InitCuller ==
  /\ culler = "select"
  /\ firstDir = NoDir
  /\ prevDir = NoDir
  /\ currentDir = NoDir
  /\ toCull = <<>>
  /\ toVisit = {}
  /\ encounteredError = FALSE
  /\ doStop = FALSE
  /\ announcing = {}
  /\ culledDirCh = "open"

----------------------------------------------------------------------------
(* StoppableConfigDirsComparison.  Two files of the same name are a        *)
(* difference, and so are files that only one has, on both sides.          *)
(* Operators named X_Y are X with a fault Y seeded; PROJECT.json says      *)
(* which property each must break.  No action uses them.                   *)

Similarity_SizeOnly(c1, c2) ==
  IF {p[1] : p \in c1} = {p[1] : p \in c2} THEN "DirectoriesEquivalent"
  ELSE IF c2 \subseteq c1 THEN "Dir1MoreComplete"
  ELSE IF c1 \subseteq c2 THEN "Dir2MoreComplete"
  ELSE "DirectoriesDifferent"

Similarity(c1, c2) ==
  IF c1 = c2 THEN "DirectoriesEquivalent"
  ELSE IF c2 \subseteq c1 THEN "Dir1MoreComplete"
  ELSE IF c1 \subseteq c2 THEN "Dir2MoreComplete"
  ELSE "DirectoriesDifferent"

Files == {p[1] : p \in Items}

HaveFileInCommon(c1, c2) == \E p \in c1, q \in c2 : p[1] = q[1]

(* The cases of processCurrentDir: what is culled, and what it compares    *)
(* the next directory with.                                                *)
Culled_FirstOfEqual(s) ==
  CASE s = "DirectoriesEquivalent" ->
         IF firstDir = prevDir THEN <<>> ELSE <<firstDir>>
    [] s = "Dir1MoreComplete" -> <<currentDir>>
    [] s = "Dir2MoreComplete" ->
         IF firstDir = prevDir THEN <<prevDir>> ELSE <<firstDir, prevDir>>
    [] s = "DirectoriesDifferent" -> <<>>

Culled(s) ==
  CASE s = "DirectoriesEquivalent" ->
         IF firstDir = prevDir THEN <<>> ELSE <<prevDir>>
    [] s = "Dir1MoreComplete" -> <<currentDir>>
    [] s = "Dir2MoreComplete" ->
         IF firstDir = prevDir THEN <<prevDir>> ELSE <<firstDir, prevDir>>
    [] s = "DirectoriesDifferent" -> <<>>

----------------------------------------------------------------------------
(* The culler's select: the other half of AddDir and of RequestStop.       *)

ReceiveDir(d) ==
  /\ culler = "select"
  /\ IF prevDir = NoDir
     THEN /\ firstDir' = d
          /\ prevDir' = d
          /\ UNCHANGED <<culler, currentDir>>
     ELSE /\ culler' = "compare"
          /\ currentDir' = d
          /\ UNCHANGED <<firstDir, prevDir>>
  /\ UNCHANGED <<cullVars, doStop, chVars>>

ReceiveStop ==
  /\ culler = "select"
  /\ culler' = "answer"
  /\ UNCHANGED <<seqVars, cullVars, doStop, chVars>>

AnswerStop ==
  /\ culler = "answer"
  /\ culler' = "stopping"
  /\ UNCHANGED <<seqVars, cullVars, doStop, chVars>>

(* It then closes culledDirCh, and sets it to nil.                         *)
CloseCulledDirCh ==
  /\ culler = "stopping"
  /\ \/ culledDirCh = "open" /\ culledDirCh' = "closed"
     \/ culledDirCh = "closed" /\ culledDirCh' = "nil"
  /\ UNCHANGED <<culler, seqVars, cullVars, doStop, announcing, diskVars>>

----------------------------------------------------------------------------
(* processCurrentDir: the comparison.                                      *)

(* It is stopped, or a directory cannot be read; one that is missing never *)
(* can.  The sequence of equal directories starts anew after either.       *)
CompareFails ==
  /\ culler = "compare"
  /\ culler' = "select"
  /\ firstDir' = NoDir
  /\ prevDir' = NoDir
  /\ currentDir' = NoDir
  /\ UNCHANGED <<cullVars, doStop, chVars, diskVars>>

(* A file that cannot be read counts as a difference.                      *)
CompareDone ==
  /\ culler = "compare"
  /\ {prevDir, currentDir} \subseteq exists
  /\ \E s \in {Similarity(disk[prevDir], disk[currentDir])}
              \union IF HaveFileInCommon(disk[prevDir], disk[currentDir])
                     THEN {"DirectoriesDifferent"} ELSE {} :
       /\ IF CompareOnly
          THEN /\ culler' = "select"
               /\ announcing' = announcing \union
                    IF Announcing THEN {Culled(s)[i] : i \in DOMAIN Culled(s)}
                                  ELSE {}
               /\ UNCHANGED toCull
          ELSE /\ toCull' = Culled(s)
               /\ culler' = IF Culled(s) = <<>> THEN "select" ELSE "mark"
               /\ UNCHANGED announcing
       /\ prevDir' = IF s = "Dir1MoreComplete" THEN prevDir ELSE currentDir
       /\ firstDir' = IF s \in {"DirectoriesDifferent", "Dir2MoreComplete"}
                      THEN currentDir ELSE firstDir
  /\ currentDir' = NoDir
  /\ UNCHANGED <<toVisit, encounteredError, doStop, culledDirCh, diskVars>>

----------------------------------------------------------------------------
(* cullDir and doRemoveConfigDir, of the first directory of toCull.        *)

Culling == Head(toCull)

Mark_NotMade ==
  /\ culler = "mark"
  /\ culler' = "files"
  /\ toVisit' = disk[Culling]
  /\ UNCHANGED <<seqVars, toCull, encounteredError, doStop, chVars, diskVars>>

Mark ==
  /\ culler = "mark"
  /\ culler' = "files"
  /\ toVisit' = disk[Culling]
  /\ \/ marked' = marked \union {Culling} /\ UNCHANGED unmarkable
     \/ unmarkable' = unmarkable \union {Culling} /\ UNCHANGED marked
  /\ UNCHANGED <<seqVars, toCull, encounteredError, doStop, chVars, disk,
                 exists, written>>

(* walkFn looks whether it is to stop, at the next file by name...         *)
VisitFile ==
  /\ culler = "files"
  /\ ~doStop
  /\ toVisit # {}
  /\ culler' = "remove"
  /\ UNCHANGED <<seqVars, cullVars, doStop, chVars, diskVars>>

(* ... and only then removes it.  The request may have come in between.    *)
RemoveFile ==
  /\ culler = "remove"
  /\ culler' = "files"
  /\ \E p \in toVisit :
       /\ \A q \in toVisit : p[1] <= q[1]
       /\ toVisit' = toVisit \ {p}
       /\ \/ /\ disk' = [disk EXCEPT ![Culling] = @ \ {p}]
             /\ UNCHANGED encounteredError
          \/ /\ encounteredError' = TRUE
             /\ UNCHANGED disk
  /\ UNCHANGED <<seqVars, toCull, doStop, chVars, exists, marked, written,
                 unmarkable>>

FilesGone ==
  /\ culler = "files"
  /\ toVisit = {}
  /\ ~encounteredError
  /\ culler' = "dirs"
  /\ UNCHANGED <<seqVars, cullVars, doStop, chVars, diskVars>>

(* cullDir returns: announce the directory and cull the next.              *)
NextToCull ==
  /\ toCull' = Tail(toCull)
  /\ culler' = IF Tail(toCull) = <<>> THEN "select" ELSE "mark"
  /\ toVisit' = {}
  /\ encounteredError' = FALSE
  /\ announcing' = IF Announcing THEN announcing \union {Culling} ELSE announcing
  /\ UNCHANGED <<seqVars, doStop, culledDirCh>>

(* Deletion ends before all is gone: stopped, or after an error.           *)
DeletionAbandoned ==
  /\ culler = "files"
  /\ doStop \/ (toVisit = {} /\ encounteredError)
  /\ NextToCull
  /\ UNCHANGED diskVars

(* The directories are removed from the last to the first, the marker      *)
(* before the config directory itself.                                     *)
RemoveDirs ==
  /\ culler = "dirs"
  /\ marked' = marked \ {Culling}
  /\ exists' = exists \ {Culling}
  /\ NextToCull
  /\ UNCHANGED <<disk, written, unmarkable>>

(* That is stopped, or a removal fails.                                    *)
DirsLeft ==
  /\ culler = "dirs"
  /\ marked' \in {marked, marked \ {Culling}}
  /\ NextToCull
  /\ UNCHANGED <<disk, exists, written, unmarkable>>

CullerStep ==
  \/ CompareFails
  \/ CompareDone
  \/ Mark
  \/ VisitFile
  \/ RemoveFile
  \/ FilesGone
  \/ DeletionAbandoned
  \/ RemoveDirs
  \/ DirsLeft

----------------------------------------------------------------------------
(* Properties of whatever composition.                                     *)

CullerTypeOK ==
  /\ disk \in [Dirs -> SUBSET Items]
  /\ exists \subseteq Dirs
  /\ marked \subseteq exists
  /\ written \in [Dirs -> SUBSET Items]
  /\ unmarkable \subseteq Dirs
  /\ culler \in {"select", "compare", "mark", "files", "remove", "dirs",
                 "answer", "stopping"}
  /\ {firstDir, prevDir, currentDir} \subseteq Dirs \union {NoDir}
  /\ toCull \in Seq(Dirs) /\ Len(toCull) <= 2
  /\ toVisit \subseteq Items
  /\ encounteredError \in BOOLEAN
  /\ doStop \in BOOLEAN
  /\ announcing \subseteq Dirs
  /\ culledDirCh \in {"open", "closed", "nil"}

Intact(d) == disk[d] = written[d]

(* "if we see 3 in a row that are the same, we eliminate the middle one"   *)
(* (config_dir_cull.go:3): whatever the directories hold, and wherever a   *)
(* comparison or a deletion was stopped or failed, a directory that has    *)
(* lost a file is the middle one of three that were the same, the other    *)
(* two being intact, or another one is intact that has all it had and      *)
(* more.                                                                   *)
CulledIsRedundant ==
  \A d \in Dirs : ~Intact(d) =>
    \/ \E e, f \in Dirs :
         e < d /\ d < f /\ Intact(e) /\ Intact(f)
           /\ written[e] = written[d] /\ written[f] = written[d]
    \/ \E e \in Dirs :
         Intact(e) /\ written[d] \subseteq written[e] /\ written[d] # written[e]

(* "Create an entry marking this as being deleted" (config_dir_cull.go:69):*)
(* a directory of which something is left but not all has the marker in    *)
(* it, also after a stop, an error or a restart, unless it could not be    *)
(* made.                                                                   *)
MarkedWhileEmptying ==
  \A d \in Dirs :
    ~Intact(d) /\ disk[d] # {} => d \in marked \/ d \in unmarkable

(* What is on the disk implements ConfigStore.                             *)
Store == INSTANCE ConfigStore
           WITH held <- [d \in Dirs |-> IF Intact(d) THEN disk[d] ELSE {}]
ImplementsStore == Store!Spec
============================================================================
