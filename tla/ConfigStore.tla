----------------------------- MODULE ConfigStore -----------------------------
(***************************************************************************)
(* What the directories with configurations promise: a configuration that  *)
(* has been saved is forgotten only while another directory holds all of   *)
(* it.                                                                     *)
(***************************************************************************)
CONSTANTS
  Dirs,
  Items  (* what a file may say: pairs of the file and its version *)

VARIABLE held  (* held[d]: the files, with their versions, that d holds *)

Init == held = [d \in Dirs |-> {}]

Save(d, p) ==
  /\ \A q \in held[d] : q[1] # p[1]
  /\ held' = [held EXCEPT ![d] = @ \union {p}]

Forget(d) ==
  /\ \E e \in Dirs \ {d} : held[d] \subseteq held[e]
  /\ held' = [held EXCEPT ![d] = {}]

Next ==
  \E d \in Dirs : Forget(d) \/ \E p \in Items : Save(d, p)

Spec == Init /\ [][Next]_held
============================================================================
