------------------------- MODULE WorkflowDefinition -------------------------
(***************************************************************************)
(* A workflow definition as the runtime reads it, and the pure questions   *)
(* it asks of one: which transitions leave a state, whether the guards of  *)
(* a transition pass, which state a transition leads to, what an executor  *)
(* result does to the context, which links a response offers and when a    *)
(* deterministic chain stops.                                              *)
(*                                                                         *)
(* JSON documents become records.  A definition is one record of a         *)
(* function Definitions, so that a hot reload can replace the one in force *)
(* while instances created under another are still alive.                  *)
(***************************************************************************)
EXTENDS Naturals, Sequences, FiniteSets

CONSTANTS
  Defs,         \* identifiers of the definitions a configuration may hold
  Definitions,  \* Definitions[d]: the content of definition d
  States,       \* workflow state names
  Names,        \* transition names
  Keys,         \* keys of the instance context
  Vals,         \* values an executor can put under a key
  NoVal,        \* an absent key
  Kinds,        \* evidence kinds
  Principals,   \* callers
  Humans,       \* the callers holding the human role
  Args,         \* submitted argument documents
  NoArgs        \* the empty document: nobody's arguments

Contexts == [Keys -> Vals \cup {NoVal}]

\* How many evidence records of each kind: a store, or a quorum.
Tallies == [Kinds -> Nat]

NoEvidence == [k \in Kinds |-> 0]

Branches == [key : Keys, val : Vals, target : States]

(***************************************************************************)
(* A transition: the state that declares it, its name and actor tag, the   *)
(* arguments its inputSchema accepts, its guards (who may, which context   *)
(* values, which arguments, how much evidence of a kind, no evidence of a  *)
(* kind), whether it has an executor and then whether a timeoutMs bounds   *)
(* it, the context keys its output mapping sets and the evidence kinds it  *)
(* emits, its target and its branches.                                     *)
(***************************************************************************)
Transitions ==
  [from : States, name : Names, actor : {"agent", "human", "deterministic"},
   accepts : SUBSET Args, who : SUBSET Principals, needs : SUBSET (Keys \X Vals),
   given : SUBSET Args, quorum : Tallies, bans : SUBSET Kinds, runs : BOOLEAN,
   bounded : BOOLEAN, output : SUBSET Keys, emits : SUBSET Kinds, target : States,
   branches : Seq(Branches)]

\* An onEnter action of a state; a timeoutMs may bound it too.
Entries == [state : States, bounded : BOOLEAN, output : SUBSET Keys, emits : SUBSET Kinds]

DefinitionRecords ==
  [initialState : States, initialContext : Contexts, inputs : SUBSET Args,
   terminal : SUBSET States, transitions : SUBSET Transitions, onEnter : SUBSET Entries,
   timeoutMs : BOOLEAN, onTimeout : SUBSET States, maxChainDepth : Nat,
   byGuards : BOOLEAN]

ASSUME DefinitionsAssumption ==
  /\ Definitions \in [Defs -> DefinitionRecords]
  /\ Humans \subseteq Principals
  /\ NoVal \notin Vals
  /\ NoArgs \in Args

\* Object keys are unique and onTimeout names one target: a state has at most one
\* transition of a name and one onEnter action.
ASSUME UniqueKeysAssumption ==
  \A d \in Defs :
    /\ \A t, u \in Definitions[d].transitions :
         t.from = u.from /\ t.name = u.name => t = u
    /\ \A e, f \in Definitions[d].onEnter : e.state = f.state => e = f
    /\ \A s, r \in Definitions[d].onTimeout : s = r

-----------------------------------------------------------------------------
\* Contexts merge_output can produce from ctx when the output keys are set.
Merge(ctx, output) ==
  {new \in Contexts : \A k \in Keys : IF k \in output THEN new[k] \in Vals
                                                      ELSE new[k] = ctx[k]}

\* One more record of each emitted kind.
AddEvidence(tally, emits) ==
  [k \in Kinds |-> IF k \in emits THEN tally[k] + 1 ELSE tally[k]]

is_terminal(d, s) == s \in Definitions[d].terminal

\* The transitions map of state s.
Outgoing(d, s) == {t \in Definitions[d].transitions : t.from = s}

transition_definition(d, s, n) == {t \in Outgoing(d, s) : t.name = n}

\* The guards of t on context ctx, caller p and evidence ev, but for those that read
\* the arguments and those that recording more evidence can turn.
LastingGuards(t, ctx, p, ev) ==
  /\ p \in t.who
  /\ \A need \in t.needs : ctx[need[1]] = need[2]
  /\ \A k \in Kinds : ev[k] >= t.quorum[k]

\* All the guards of t must pass, those over $.arguments and a `not` over an
\* evidence guard among them.
GuardsPass(t, ctx, p, args, ev) ==
  LastingGuards(t, ctx, p, ev) /\ args \in t.given /\ \A k \in t.bans : ev[k] = 0

\* The actor gate of submit: only the human tag restricts the submitter.
ActorAdmits(t, p) == t.actor = "human" => p \in Humans

\* The states resolve_target can return: the first branch that matches the
\* context, or the declared target when none does.
resolve_target(t, ctx) ==
  LET Matches(i) == ctx[t.branches[i].key] = t.branches[i].val
      Firsts == {i \in DOMAIN t.branches :
                   Matches(i) /\ \A j \in DOMAIN t.branches : j < i => ~Matches(j)}
  IN  {t.branches[i].target : i \in Firsts}
        \cup IF \E i \in DOMAIN t.branches : Matches(i) THEN {} ELSE {t.target}

\* Where executing t on context ctx can lead: state and context.
Outcomes(t, ctx) ==
  UNION {{[state |-> s, context |-> new] : s \in resolve_target(t, new)} :
           new \in IF t.runs THEN Merge(ctx, t.output) ELSE {ctx}}

\* The transitions links() offers: none in a terminal state, never a
\* deterministic one.
links(d, s) ==
  {t \in Outgoing(d, s) : ~is_terminal(d, s) /\ t.actor # "deterministic"}

\* Mutant: the guards are left to submit.
filter_no_links(d, s, ctx, p, ev) == {t.name : t \in links(d, s)}

\* The names of those whose guards pass now, when the definition filters links;
\* guards over the arguments are asked of the empty document.
filter_links_by_guards(d, s, ctx, p, ev) ==
  {t.name : t \in {u \in links(d, s) :
                     Definitions[d].byGuards => GuardsPass(u, ctx, p, NoArgs, ev)}}

\* A state the chain walks through: it declares transitions and every one of
\* them is deterministic.
Automatic(d, s) ==
  /\ Outgoing(d, s) # {}
  /\ \A t \in Outgoing(d, s) : t.actor = "deterministic"

\* The candidates select_deterministic_transition accepts: a lone candidate
\* as it is, several by their guards, on the empty document.
Viable(d, s, ctx, p, ev) ==
  IF \E t \in Outgoing(d, s) : Outgoing(d, s) = {t}
  THEN Outgoing(d, s)
  ELSE {t \in Outgoing(d, s) : GuardsPass(t, ctx, p, NoArgs, ev)}

select_deterministic_transition(d, s, ctx, p, ev) ==
  {t \in Viable(d, s, ctx, p, ev) : Viable(d, s, ctx, p, ev) = {t}}
=============================================================================
