---------------------------- MODULE MCSubWorkflow ----------------------------
(***************************************************************************)
(* Definitions for TLC.  deploy starts prepare, whose own chain starts     *)
(* check, and gives up on it after a while; batch starts check again after *)
(* a timeout; watch waits for check with no timeout at all; release and    *)
(* survey have a timeoutMs, and children whose chains run inside their     *)
(* starts, of which only tally is sure to return; loop starts itself in    *)
(* its chain.                                                              *)
(***************************************************************************)
EXTENDS SubWorkflow

MCDefs ==
  {"deploy", "prepare", "batch", "watch", "check", "release", "tally", "survey", "probe", "loop"}

MCChild ==
  [d \in MCDefs |-> CASE d = "deploy" -> "prepare"
                      [] d \in {"prepare", "batch", "watch"} -> "check"
                      [] d = "release" -> "tally"
                      [] d = "survey" -> "probe"
                      [] d = "loop" -> "loop"
                      [] OTHER -> NoDef]

MCAttempts == [d \in MCDefs |-> IF d = "batch" THEN 2 ELSE 1]

\* check is late when its deadline passes, prepare expires.
MCDeadline ==
  [d \in MCDefs |-> CASE d = "check" -> "late"
                      [] d = "prepare" -> "expired"
                      [] OTHER -> "none"]
=============================================================================
