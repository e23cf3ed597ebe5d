------------------------------- MODULE MCServe -------------------------------
(***************************************************************************)
(* Two configurations for TLC: "proxy" only imports the tools of a server, *)
(* "flow" has workflows that use that server and another.                  *)
(***************************************************************************)
EXTENDS Serve

MCConnections == [g \in Configs |-> IF g = "proxy" THEN {"ci"} ELSE {"ci", "git"}]

MCUses == [g \in Configs |-> IF g = "proxy" THEN {} ELSE {"ci", "git"}]

MCImports == [g \in Configs |-> IF g = "proxy" THEN <<"ci">> ELSE <<>>]
=============================================================================
