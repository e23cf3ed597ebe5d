---------------------------- MODULE RuntimeClaims ----------------------------
(***************************************************************************)
(* Statements the repository's documentation makes of the runtime that its *)
(* code does not keep.  Each is checked by a run of its own, whose         *)
(* counterexample is the finding.                                          *)
(***************************************************************************)
EXTENDS MCWorkflowRuntime

\* docs/INVARIANTS.md:17-18, "Guards run before executor dispatch. A failing guard
\* means the executor doesn't fire": no transition a chain commits had a failing
\* guard on the instance it left and the evidence then recorded.
GuardsBeforeDispatch ==
  [][\A w \in Workflows :
       LET f == log'[w][Len(log'[w])]
       IN  log'[w] # log[w] /\ f.how = "chain" =>
             GuardsPass(f.via, store[w].context, req[f.by].who, NoArgs, evidence[w])]_vars

\* site/src/content/docs/guides/hot-reload.mdx:29, "any workflow instance that's
\* already started continues on its current definition": every version of a
\* workflow is committed under the definition it was started with.
StartedKeepDefinition ==
  \A w \in Workflows : \A i \in DOMAIN log[w] : log[w][i].def = log[w][1].def
=============================================================================
