------------------------------ MODULE Validation ------------------------------
(***************************************************************************)
(* validate_workflows, which `check' runs over a resolved configuration,   *)
(* and the walk a runtime takes over the definition it was given: what the *)
(* diagnostics say of the graph against where an instance can get to.      *)
(*                                                                         *)
(* A guard, an actor or an argument decides which transition is taken, not *)
(* where it leads, so that the walk takes any transition of its state.     *)
(***************************************************************************)
EXTENDS FiniteSets

CONSTANTS
  Places,   \* names of states, declared or not
  None      \* an absent field

ASSUME NoneAssumption == None \notin Places

VARIABLES
  def,          \* the definition: None before it is built
  stage,        \* "", "diagnosed", "searched" or "walking"
  errors,       \* its errors: the field, and where
  deadEnds,     \* the states warned of as dead ends
  reachable, queue,
  unreachable,  \* the states warned of as unreachable
  at,           \* the state of an instance of the definition
  expired       \* its deadline has been applied

validation == <<stage, errors, deadEnds, reachable, queue, unreachable, at, expired>>

(***************************************************************************)
(* A definition: its states, a function on the names it declares, each     *)
(* with its transitions, a function on their names.  Several branches are  *)
(* the set of their targets.                                               *)
(***************************************************************************)
IsTransition(t) == t.target \in Places \cup {None} /\ t.branches \subseteq Places

IsState(d) ==
  d.terminal \in BOOLEAN /\ \A n \in DOMAIN d.transitions : IsTransition(d.transitions[n])

IsWorkflow(w) ==
  /\ w.initialState \in Places \cup {None} /\ w.onTimeout \in Places \cup {None}
  /\ w.timeoutMs \in BOOLEAN
  /\ DOMAIN w.states \subseteq Places /\ \A s \in DOMAIN w.states : IsState(w.states[s])

Declared == DOMAIN def.states

Transitions(s) == {def.states[s].transitions[n] : n \in DOMAIN def.states[s].transitions}

\* Where a transition can lead: a branch without a target is skipped by both sides.
Targets(t) == t.branches \cup ({t.target} \ {None})

Successors(s) == UNION {Targets(t) : t \in Transitions(s)}

-----------------------------------------------------------------------------
\* Mutant: the targets of branches are not looked at.
ErrorsOfTargets ==
  {<<"initialState", s>> : s \in {def.initialState} \ Declared}
    \cup {<<"onTimeout", s>> : s \in {def.onTimeout} \ (Declared \cup {None})}
    \cup {<<"target", s>> :
            s \in {x \in Declared : \E t \in Transitions(x) : t.target \notin Declared}}

Errors ==
  {<<"initialState", s>> : s \in {def.initialState} \ Declared}
    \cup {<<"onTimeout", s>> : s \in {def.onTimeout} \ (Declared \cup {None})}
    \cup {<<"target", s>> :
            s \in {x \in Declared : \E t \in Transitions(x) : t.target \notin Declared}}
    \cup {<<"branch", s>> :
            s \in {x \in Declared : \E t \in Transitions(x) : ~(t.branches \subseteq Declared)}}

DeadEnds ==
  {s \in Declared : ~def.states[s].terminal /\ Transitions(s) = {} /\ def.onTimeout = None}

\* Mutant: the search begins at an initial state nobody looked up.
DiagnoseUnchecked ==
  /\ stage = "" /\ def # None
  /\ errors' = IF def.initialState = None THEN {<<"initialState", None>>} ELSE Errors
  /\ deadEnds' = IF def.initialState = None THEN {} ELSE DeadEnds
  /\ reachable' = {def.initialState}
  /\ queue' = {def.initialState}
  /\ stage' = "diagnosed"
  /\ UNCHANGED <<def, unreachable, at, expired>>

\* The checks of the declarations.  Without an initial state or without states
\* there is nothing more to look at.
Diagnose ==
  /\ stage = "" /\ def # None
  /\ errors' = IF def.initialState = None THEN {<<"initialState", None>>} ELSE Errors
  /\ deadEnds' = IF def.initialState = None THEN {} ELSE DeadEnds
  /\ reachable' = {def.initialState} \cap Declared
  /\ queue' = {def.initialState} \cap Declared
  /\ stage' = IF def.initialState \in Declared THEN "diagnosed" ELSE "searched"
  /\ UNCHANGED <<def, unreachable, at, expired>>

\* Mutant: the search follows the declared targets only.
VisitTargets(s) ==
  LET new == ({t.target : t \in Transitions(s)} \cap Declared) \ reachable
  IN  /\ stage = "diagnosed" /\ s \in queue
      /\ reachable' = reachable \cup new
      /\ queue' = (queue \ {s}) \cup new
      /\ UNCHANGED <<def, stage, errors, deadEnds, unreachable, at, expired>>

\* One turn of the breadth-first search.  The order of the queue does not matter
\* to what is found.
Visit(s) ==
  LET new == (Successors(s) \cap Declared) \ reachable
  IN  /\ stage = "diagnosed" /\ s \in queue
      /\ reachable' = reachable \cup new
      /\ queue' = (queue \ {s}) \cup new
      /\ UNCHANGED <<def, stage, errors, deadEnds, unreachable, at, expired>>

\* The target of the deadline counts as reachable; the search does not go on from it.
Report ==
  /\ stage = "diagnosed" /\ queue = {}
  /\ stage' = "searched"
  /\ unreachable' = Declared \ (reachable \cup {def.onTimeout})
  /\ UNCHANGED <<def, errors, deadEnds, reachable, queue, at, expired>>

-----------------------------------------------------------------------------
\* start: an instance in the initial state, declared or not.
Enter ==
  /\ stage = "searched" /\ def.initialState # None
  /\ stage' = "walking" /\ at' = def.initialState
  /\ UNCHANGED <<def, errors, deadEnds, reachable, queue, unreachable, expired>>

\* A transition is committed.  One without a target fails before it is.
Move ==
  /\ stage = "walking" /\ at \in Declared
  /\ \E t \in Transitions(at) : t.target # None /\ at' \in Targets(t)
  /\ UNCHANGED <<def, stage, errors, deadEnds, reachable, queue, unreachable, expired>>

\* check_and_apply_timeout moves an overdue instance, from a declared state or not.
Overdue ==
  /\ stage = "walking" /\ def.timeoutMs /\ def.onTimeout # None
  /\ at \in Declared => ~def.states[at].terminal
  /\ at' = def.onTimeout /\ expired' = TRUE
  /\ UNCHANGED <<def, stage, errors, deadEnds, reachable, queue, unreachable>>

-----------------------------------------------------------------------------
InitValidation ==
  /\ stage = "" /\ errors = {} /\ deadEnds = {} /\ reachable = {} /\ queue = {}
  /\ unreachable = {} /\ at = None /\ expired = FALSE

Check == Diagnose \/ (\E s \in Places : Visit(s)) \/ Report

Walk == Enter \/ Move \/ Overdue

ValidationTypeOK ==
  /\ stage \in {"", "diagnosed", "searched", "walking"}
  /\ errors \subseteq {"initialState", "onTimeout", "target", "branch"} \X (Places \cup {None})
  /\ deadEnds \subseteq Places /\ unreachable \subseteq Places
  /\ queue \subseteq reachable /\ reachable \subseteq Places
  /\ at \in Places \cup {None} /\ expired \in BOOLEAN

-----------------------------------------------------------------------------
\* No instance of a definition `check' finds no error in is ever in a state the
\* definition does not declare, where it would have no transition, not be terminal
\* and answer for ever: validate.rs and the four places of the runtime that set a
\* state (start, submit, its chain and the deadline) agree on what a target is.
CheckedStayDeclared == stage = "walking" /\ errors = {} => at \in Declared

\* A state `check' calls unreachable is one no instance enters before its deadline
\* is applied, whatever its guards, its branches and its results.
WarningsAreTrue == stage = "walking" /\ at \in unreachable => expired
=============================================================================
