------------------------------ MODULE CullTool ------------------------------
(***************************************************************************)
(* cmds/cull_config_dirs/cull_config_dirs.go: the tool that gives all the  *)
(* config directories it has found to a culler, waits for it to be ready,  *)
(* and lists those that are removed, or would be.                          *)
(***************************************************************************)
EXTENDS ConfigCuller

VARIABLES
  tool,   (* "adding", "stopping", "waiting", "reading", "done" or "dead"  *)
  added,  (* directories added so far                                      *)
  listed  (* directories received from candidatesCh, or waiting in it      *)

vars == <<diskVars, cullerVars, tool, added, listed>>

RouteList == 1

(* Any directories with a list of routes.                                  *)
Init ==
  /\ disk \in [Dirs -> {c \in SUBSET Items :
                          /\ \A p, q \in c : p[1] = q[1] => p = q
                          /\ \E p \in c : p[1] = RouteList}]
  /\ exists = Dirs
  /\ marked = {}
  /\ written = disk
  /\ unmarkable = {}
  /\ InitCuller
  /\ tool = "adding"
  /\ added = 0
  /\ listed = {}

AddDir ==
  /\ tool = "adding"
  /\ ReceiveDir(added + 1)
  /\ added' = added + 1
  /\ tool' = IF added + 2 \in Dirs THEN "adding" ELSE "stopping"
  /\ UNCHANGED <<diskVars, listed>>

StopWhenReady ==
  /\ tool = "stopping"
  /\ ReceiveStop
  /\ tool' = "waiting"
  /\ UNCHANGED <<diskVars, added, listed>>

Stopped ==
  /\ tool = "waiting"
  /\ AnswerStop
  /\ tool' = "reading"
  /\ UNCHANGED <<diskVars, added, listed>>

(* The channel, which has room for all, has been closed and is drained.    *)
AllRead ==
  /\ tool = "reading"
  /\ culledDirCh \in {"closed", "nil"}
  /\ tool' = "done"
  /\ UNCHANGED <<diskVars, cullerVars, added, listed>>

(* The goroutine cullDir starts for a directory runs.  A send on a closed  *)
(* channel panics; one on a nil channel waits for ever.                    *)
SendCulled ==
  /\ culledDirCh # "nil"
  /\ \E d \in announcing :
       /\ announcing' = announcing \ {d}
       /\ IF culledDirCh = "open"
          THEN listed' = listed \union {d} /\ UNCHANGED tool
          ELSE tool' = "dead" /\ UNCHANGED listed
  /\ UNCHANGED <<diskVars, culler, seqVars, cullVars, doStop, culledDirCh, added>>

Next ==
  /\ tool \notin {"done", "dead"}
  /\ \/ AddDir
     \/ StopWhenReady
     \/ Stopped
     \/ AllRead
     \/ SendCulled
     \/ (CullerStep \/ CloseCulledDirCh) /\ UNCHANGED <<tool, added, listed>>

Spec == Init /\ [][Next]_vars

----------------------------------------------------------------------------
(* "If set, culler writes paths of directories selected for removal to     *)
(* this channel" (config_dir_cull.go:47): when the tool is done, each of   *)
(* them has been received, and it does not die on the way.                 *)
AllListed == tool \in {"done", "dead"} => announcing = {} /\ tool = "done"
============================================================================
