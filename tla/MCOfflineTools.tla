--------------------------- MODULE MCOfflineTools ---------------------------
(***************************************************************************)
(* An instance of CsvStream, SplitLocations and TarDirs for TLC.  They do  *)
(* not interact here: each behaviour is of one of them, the others being   *)
(* over.                                                                   *)
(***************************************************************************)
EXTENDS CsvStream, SplitLocations, TarDirs

CONSTANTS b1, b2

BothPipes == {Raw, Plain}
TwoBlocks == {b1, b2}

(* One file begins with a record of one output and goes on with one of     *)
(* both, the next has one of each.                                         *)
TwoFiles == << << {"a"}, {"a", "b"} >>, << {"a"}, {"b"} >> >>

StreamIsOver ==
  /\ empty = [p \in Pipes |-> <<>>] /\ data = [p \in Pipes |-> <<>>]
  /\ dataOpen = [p \in Pipes |-> TRUE] /\ stopOpen = [p \in Pipes |-> TRUE]
  /\ content = [p \in Pipes |-> [b \in Blocks |-> <<>>]]
  /\ producer = [p \in Pipes |-> "absent"] /\ hold = [p \in Pipes |-> NoBlock]
  /\ result = [p \in Pipes |-> "none"] /\ inOpen = [p \in Pipes |-> FALSE]
  /\ attached = [p \in Pipes |-> FALSE] /\ front = [p \in Pipes |-> NoBlock]
  /\ offset = [p \in Pipes |-> 0] /\ reading = [p \in Pipes |-> FALSE]
  /\ damagedAt = 0 /\ malformed = {} /\ filePos = 0
  /\ opener = "failed" /\ unzip = <<>> /\ unzipSays = "none"
  /\ parser = "done" /\ lines = <<>> /\ records = <<>>
  /\ errorCount = 0 /\ warnings = 0

SplitIsOver ==
  /\ program = "paths" /\ reader = [file |-> 3, next |-> 1, state |-> "opening"]
  /\ damage = [files |-> {}, records |-> {}, noOpen |-> {}, noWrite |-> Outputs]
  /\ recordCh = <<>> /\ worker = [w \in Workers |-> [Idle EXCEPT !.at = "ended"]]
  /\ holder = Nobody /\ outCh = <<>> /\ writer = [o \in Outputs |-> "none"]
  /\ written = [o \in Outputs |-> <<>>] /\ main = "done"

TarIsOver ==
  /\ tool = "none" /\ dir = [d \in Days |-> {}] /\ unread = {}
  /\ final = [d \in Days |-> NoArchive] /\ newer = {}
  /\ day = 1 /\ pc = "none" /\ listing = {} /\ lister = FALSE /\ queue = <<>>
  /\ out = {} /\ orphan = FALSE /\ runs = 0 /\ faults = 0 /\ excused = {}

Init ==
  \/ StreamInit /\ SplitIsOver /\ TarIsOver
  \/ SplitInit /\ StreamIsOver /\ TarIsOver
  \/ TarInit /\ StreamIsOver /\ SplitIsOver

Next ==
  \/ StreamNext /\ UNCHANGED <<SplitVars, TarVars>>
  \/ SplitNext /\ UNCHANGED <<StreamVars, TarVars>>
  \/ tool # "none" /\ TarNext /\ UNCHANGED <<StreamVars, SplitVars>>

Spec ==
  /\ Init /\ [][Next]_<<StreamVars, SplitVars, TarVars>>
  /\ StreamFairness /\ SplitFairness
=============================================================================
