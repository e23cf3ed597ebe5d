---------------------------- MODULE MCReliability ----------------------------
(***************************************************************************)
(* Plans for TLC: a submit that pays (two attempts, a fallback to the same *)
(* service), and a submit of the same workflow that posts over HTTP        *)
(* without a timeoutMs and then notifies in an onEnter action.             *)
(***************************************************************************)
EXTENDS Reliability

MCWorkflow == [c \in Calls |-> "wf"]

Auto == {"workflowId", "transition", "correlationId"}

Pay == [transition |-> "pay", keyed |-> TRUE, tokens |-> Auto,
        candidates |-> <<[kind |-> "rest", service |-> "bank"],
                         [kind |-> "cli", service |-> "bank"]>>,
        timeoutMs |-> TRUE, maxAttempts |-> 2, retryOn |-> {"timeout"}]

Notify == [Pay EXCEPT !.transition = "on_enter", !.maxAttempts = 0,
                      !.candidates = <<[kind |-> "cli", service |-> "bank"]>>]

Post == [Notify EXCEPT !.transition = "post", !.timeoutMs = FALSE,
                       !.candidates[1].kind = "rest"]

MCPlan == [c \in Calls |-> IF c = "s1" THEN <<Pay>> ELSE <<Post, Notify>>]
=============================================================================
