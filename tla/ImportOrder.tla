---------------------------- MODULE ImportOrder ----------------------------
(***************************************************************************)
(* What the evaluation of a list of files promises, without how it sorts   *)
(* them: the files' packages and imports are learnt first; then one file   *)
(* after another is evaluated, each once and none before all the packages  *)
(* that it imports; it succeeds when all are, and may fail at any time.    *)
(***************************************************************************)
VARIABLES
  package,    \* file -> the name of its package
  needs,      \* file -> the names of the packages it imports
  finished,   \* the files evaluated without an error
  outcome     \* "running", "success" or "failed"

order_vars == <<package, needs, finished, outcome>>

Files == DOMAIN package

Init ==
  /\ DOMAIN needs = DOMAIN package
  /\ finished = {}
  /\ outcome = "running"

(* Something more of the files is read; their number stays.                *)
Learn ==
  /\ outcome = "running" /\ finished = {}
  /\ DOMAIN package' = Files /\ DOMAIN needs' = Files
  /\ UNCHANGED <<finished, outcome>>

Finish(f) ==
  /\ outcome = "running"
  /\ f \notin finished
  /\ needs[f] \subseteq {package[g] : g \in finished}
  /\ finished' = finished \cup {f}
  /\ UNCHANGED <<package, needs, outcome>>

Succeed ==
  /\ outcome = "running" /\ finished = Files
  /\ outcome' = "success"
  /\ UNCHANGED <<package, needs, finished>>

Fail ==
  /\ outcome = "running"
  /\ outcome' = "failed"
  /\ UNCHANGED <<package, needs, finished>>

Next == Learn \/ (\E f \in Files : Finish(f)) \/ Succeed \/ Fail

Spec == Init /\ [][Next]_order_vars
=============================================================================
