----------------------------- MODULE SubWorkflow -----------------------------
(***************************************************************************)
(* The workflow executor: a transition whose executor starts another       *)
(* workflow and polls it until it is terminal.                             *)
(*                                                                         *)
(* Every definition here has one transition, which leads from the state    *)
(* "open" to the terminal state "done"; it is taken by an agent's submit   *)
(* or, in a Chained definition, by the deterministic chain inside start.   *)
(* A run is one execution of that transition.  The start of a child whose  *)
(* definition is Chained returns only when its own run has ended, so that  *)
(* runs nest like calls on a stack.  What else the runtime does in start,  *)
(* get and submit is in WorkflowRuntime; a workflow's versions here are    *)
(* those of its ledger.                                                    *)
(***************************************************************************)
EXTENDS Naturals, FiniteSets

CONSTANTS
  MaxIds,       \* bound on the workflows ever started
  Clients,      \* agents that submit, each once
  Defs, NoDef,
  Child,        \* Child[d]: the definitionId of d's executor, NoDef when it has another kind
  Chained,      \* definitions whose transition is deterministic
  TimeoutMs,    \* definitions whose workflow executor has a timeoutMs
  Impatient,    \* those whose reliability policy has one
  Prompt,       \* those whose executor, of another kind, always returns
  Attempts,     \* Attempts[d]: retry.maxAttempts, over timeouts
  Deadline,     \* Deadline[d]: where the workflow's own timeout leads
  Roots,        \* definitions clients start
  Vals, Empty,  \* contexts, and the one without keys
  MaxRoots,     \* bound on the workflows clients start
  MaxVersion    \* bound on the deadlines clients' gets apply

Ids == 1..MaxIds

\* A run in a chain is named after the workflow it runs in.
Runs == Ids \cup Clients

ASSUME SubWorkflowAssumption ==
  /\ MaxIds \in Nat \ {0} /\ MaxRoots \in Nat /\ MaxVersion \in Nat
  /\ Clients \cap Ids = {}
  /\ NoDef \notin Defs /\ Empty \notin Vals
  /\ Child \in [Defs -> Defs \cup {NoDef}]
  /\ Chained \subseteq Defs /\ TimeoutMs \subseteq Defs /\ Impatient \subseteq Defs
  /\ Prompt \subseteq Defs
  /\ Attempts \in [Defs -> Nat \ {0}]
  /\ Deadline \in [Defs -> {"none", "late", "expired"}]
  /\ Roots \subseteq Defs

VARIABLES
  next,       \* the id of the next workflow
  def,        \* [Ids -> its definition]
  state,      \* its state: "late" is a timeout target that is not terminal
  version,
  context,    \* what its transition's executor returned, Empty before
  parent,     \* the workflow whose run started it, 0 for a root
  overdue,    \* workflows past their own timeoutMs
  draining,
  adrift,     \* saves a store may still commit although their futures were dropped
  pc,         \* [Runs -> where the run is]
  target,     \* the workflow the run moves
  seen,       \* the version of it the run loaded
  child,      \* the workflow its executor started, 0 for none
  loaded,     \* the version of the child a get has loaded to apply its deadline
  result,     \* what its executor returned
  tries,      \* attempts begun
  elapsed,    \* the executor's timeoutMs has passed
  callers     \* the runs whose executors are waiting for this one's start

flows == <<next, def, state, version, context, parent>>
outside == <<overdue, draining, adrift>>
runs  == <<pc, target, seen, child, loaded, result, tries, elapsed, callers>>
vars  == <<next, def, state, version, context, parent, overdue, draining, adrift,
           pc, target, seen, child, loaded, result, tries, elapsed, callers>>

Terminal == {"done", "expired"}
Active == {"execute", "starting", "poll", "apply", "save"}
Executing == Active \ {"save"}
Ended == {"committed", "failed", "lost", "dropped"}

Used == 1..(next - 1)
DefOf(r) == def[target[r]]

-----------------------------------------------------------------------------
\* Workflow next is created in its initial state.
CreateFlow(d, from) ==
  /\ next \in Ids
  /\ next' = next + 1
  /\ def' = [def EXCEPT ![next] = d]
  /\ state' = [state EXCEPT ![next] = "open"]
  /\ parent' = [parent EXCEPT ![next] = from]
  /\ UNCHANGED <<version, context>>

\* A client starts a workflow; a Chained one begins its chain at once.
Launch(d) ==
  /\ ~draining
  /\ Cardinality({w \in Used : parent[w] = 0}) < MaxRoots
  /\ CreateFlow(d, 0)
  /\ IF d \in Chained
     THEN /\ pc' = [pc EXCEPT ![next] = "execute"]
          /\ target' = [target EXCEPT ![next] = next]
     ELSE UNCHANGED <<pc, target>>
  /\ UNCHANGED <<outside, seen, child, loaded, result, tries, elapsed, callers>>

\* A get or submit finds w past its deadline.
Fires(w) == w \in overdue /\ state[w] \notin Terminal /\ Deadline[def[w]] # "none"

\* The deadline leads w to its target.
Apply(w) ==
  /\ state' = [state EXCEPT ![w] = Deadline[def[w]]]
  /\ version' = [version EXCEPT ![w] = @ + 1]
  /\ UNCHANGED <<next, def, context, parent>>

\* A client submits the transition of a workflow that is open.
Submit(c, w) ==
  /\ pc[c] = "idle"
  /\ w \in Used /\ state[w] = "open"
  /\ ~Fires(w)
  /\ pc' = [pc EXCEPT ![c] = "execute"]
  /\ target' = [target EXCEPT ![c] = w]
  /\ seen' = [seen EXCEPT ![c] = version[w]]
  /\ UNCHANGED <<flows, outside, child, loaded, result, tries, elapsed, callers>>

\* A client's get.
ClientGet(w) ==
  /\ w \in Used /\ Fires(w) /\ version[w] < MaxVersion
  /\ Apply(w)
  /\ UNCHANGED <<outside, runs>>

-----------------------------------------------------------------------------
\* The run whose executor waits for the start that run r is part of.
Starter(r) == {p \in callers[r] : child[p] = target[r]}

\* The runs inside the start that run r's executor waits for.
Under(r) == {q \in Runs : r \in callers[q] /\ pc[q] \in Active}

\* Run r moves to point, the runs of gone are dropped with their futures, and the
\* executor that waited for r, if any, gets to back.
Settle(r, point, gone, back) ==
  pc' = [q \in Runs |-> IF q = r THEN point
                        ELSE IF q \in gone THEN "dropped"
                        ELSE IF q \in Starter(r) THEN back ELSE pc[q]]

\* Run r ends.  The start it was part of returns the child's id, whether its
\* chain moved or failed, and the executor begins to poll.
End(r, outcome, gone) ==
  /\ Settle(r, outcome, gone, "poll")
  /\ elapsed' = [q \in Runs |-> elapsed[q] /\ q \notin Starter(r)]
  /\ UNCHANGED <<target, seen, child, loaded, result, tries, callers>>

\* An attempt of r failed; a timeout is retried while attempts are left.
Fail(r, class, gone) ==
  \/ /\ class = "timeout" /\ tries[r] < Attempts[DefOf(r)]
     /\ Settle(r, "execute", gone, "starting")
     /\ tries' = [tries EXCEPT ![r] = @ + 1]
     /\ UNCHANGED <<target, seen, child, loaded, result, elapsed, callers>>
  \/ /\ ~(class = "timeout" /\ tries[r] < Attempts[DefOf(r)])
     /\ End(r, "failed", gone)

\* The executor has returned v.
Succeed(r, v) ==
  /\ pc' = [pc EXCEPT ![r] = "save"]
  /\ result' = [result EXCEPT ![r] = v]
  /\ UNCHANGED <<target, seen, child, loaded, tries, elapsed, callers>>

\* An executor of another kind.
ExecuteOther(r) ==
  /\ pc[r] = "execute" /\ Child[DefOf(r)] = NoDef
  /\ (\E v \in Vals : Succeed(r, v)) \/ Fail(r, "permanent", {})
  /\ UNCHANGED <<flows, outside>>

\* Mutant: a child whose start was a chain is polled under an id never read.
StartUnnamed(r) ==
  /\ pc[r] = "execute" /\ Child[DefOf(r)] # NoDef
  /\ ~draining
  /\ CreateFlow(Child[DefOf(r)], target[r])
  /\ pc' = [pc EXCEPT ![r] = "poll"]
  /\ UNCHANGED <<outside, target, seen, child, loaded, result, tries, elapsed, callers>>

\* The start of a Chained child goes on in its chain, a run that r awaits.
Await(r, d) ==
  IF d \in Chained
  THEN /\ pc' = [pc EXCEPT ![r] = "starting", ![next] = "execute"]
       /\ target' = [target EXCEPT ![next] = next]
       /\ callers' = [callers EXCEPT ![next] = callers[r] \cup {r}]
  ELSE /\ pc' = [pc EXCEPT ![r] = "poll"]
       /\ UNCHANGED <<target, callers>>

\* The workflow executor starts the child.
StartChild(r) ==
  /\ pc[r] = "execute" /\ Child[DefOf(r)] # NoDef
  /\ ~draining
  /\ CreateFlow(Child[DefOf(r)], target[r])
  /\ child' = [child EXCEPT ![r] = next]
  /\ elapsed' = [elapsed EXCEPT ![r] = FALSE]
  /\ Await(r, Child[DefOf(r)])
  /\ UNCHANGED <<outside, seen, loaded, result, tries>>


\* start is an error: it refuses while the gateway drains, and at any time a
\* definition that is gone, an input its schema rejects, or a store that fails.
StartRefused(r) ==
  /\ pc[r] = "execute" /\ Child[DefOf(r)] # NoDef
  /\ Fail(r, "permanent", {})
  /\ UNCHANGED <<flows, outside>>

\* The executor's timeoutMs, tested before each get.
OutOfTime(r) == DefOf(r) \in TimeoutMs /\ elapsed[r]

TimesOut(r) ==
  /\ pc[r] = "poll" /\ OutOfTime(r)
  /\ Fail(r, "timeout", {})
  /\ UNCHANGED <<flows, outside>>

\* Mutant: any status but "waiting_for_action" counts as completed.
PollMoved(r) ==
  /\ pc[r] = "poll" /\ ~OutOfTime(r)
  /\ state[child[r]] # "open"
  /\ Succeed(r, Empty)
  /\ UNCHANGED <<flows, outside>>

\* The get answers "completed", whichever terminal state it finds.  The executor
\* looks for the child's context under /workflow, where no answer has it, and
\* returns {} instead.
PollCompleted(r) ==
  /\ pc[r] = "poll" /\ ~OutOfTime(r)
  /\ state[child[r]] \in Terminal
  /\ Succeed(r, Empty)
  /\ UNCHANGED <<flows, outside>>

\* The get is an error: its store or its definitions fail.
PollFails(r) ==
  /\ pc[r] = "poll" /\ ~OutOfTime(r)
  /\ Fail(r, "permanent", {})
  /\ UNCHANGED <<flows, outside>>

\* The get has loaded a child past its own deadline.
PollOverdue(r) ==
  /\ pc[r] = "poll" /\ ~OutOfTime(r)
  /\ Fires(child[r])
  /\ pc' = [pc EXCEPT ![r] = "apply"]
  /\ loaded' = [loaded EXCEPT ![r] = version[child[r]]]
  /\ UNCHANGED <<flows, outside, target, seen, child, result, tries, elapsed, callers>>

\* It saves the timeout target: "completed" when that is terminal, else
\* "timed_out", which is an error, as is a save that loses its race or fails.
ApplyDeadline(r) ==
  /\ pc[r] = "apply"
  /\ \/ /\ version[child[r]] = loaded[r]
        /\ Apply(child[r])
        /\ IF Deadline[def[child[r]]] \in Terminal THEN Succeed(r, Empty)
                                                   ELSE Fail(r, "permanent", {})
     \/ Fail(r, "permanent", {}) /\ UNCHANGED flows
  /\ UNCHANGED outside

\* The run's transition is committed with what its executor returned.
Save(r) ==
  /\ pc[r] = "save" /\ version[target[r]] = seen[r]
  /\ state' = [state EXCEPT ![target[r]] = "done"]
  /\ version' = [version EXCEPT ![target[r]] = @ + 1]
  /\ context' = [context EXCEPT ![target[r]] = result[r]]
  /\ End(r, "committed", {})
  /\ UNCHANGED <<next, def, parent, outside>>

\* Or the save lost its race or failed: in a chain that makes start an error, the
\* executor that waits for it fails, and the start that one was part of returns.
Lose(r) ==
  /\ pc[r] = "save"
  /\ LET up == UNION {Starter(p) : p \in Starter(r)}
     IN  /\ pc' = [q \in Runs |-> IF q = r THEN "lost"
                                  ELSE IF q \in Starter(r) THEN "failed"
                                  ELSE IF q \in up THEN "poll" ELSE pc[q]]
         /\ elapsed' = [q \in Runs |-> elapsed[q] /\ q \notin up]
  /\ UNCHANGED <<flows, outside, target, seen, child, loaded, result, tries, callers>>

-----------------------------------------------------------------------------
\* The executor's clock.
Elapse(r) ==
  /\ pc[r] = "poll" /\ DefOf(r) \in TimeoutMs /\ ~elapsed[r]
  /\ elapsed' = [elapsed EXCEPT ![r] = TRUE]
  /\ UNCHANGED <<flows, outside, pc, target, seen, child, loaded, result, tries, callers>>

\* The saves that runs await: of a deadline in a get, of their transition.
Awaited(gone) ==
  {[flow |-> child[q], seen |-> loaded[q],
    state |-> Deadline[def[child[q]]], context |-> context[child[q]]]
     : q \in {p \in gone : pc[p] = "apply"}}
  \cup {[flow |-> target[q], seen |-> seen[q], state |-> "done", context |-> result[q]]
     : q \in {p \in gone : pc[p] = "save"}}

\* Mutant: the executor runs in a task of its own that nobody aborts.
DropDetached(r) ==
  /\ pc[r] \in Executing /\ DefOf(r) \in Impatient
  /\ Fail(r, "timeout", {})
  /\ UNCHANGED <<flows, outside>>

\* The reliability policy's timeoutMs drops the executor's future, and the start it
\* may be in.  The child it started stays, and a save that was under way is out of
\* reach if the store has handed it to a thread or a server.
Drop(r) ==
  /\ pc[r] \in Executing /\ DefOf(r) \in Impatient
  /\ Fail(r, "timeout", Under(r))
  /\ adrift' = adrift \cup Awaited({r} \cup Under(r))
  /\ UNCHANGED <<flows, overdue, draining>>

\* The store commits such a save, and nobody hears of it.
Land(s) ==
  /\ version[s.flow] = s.seen
  /\ state' = [state EXCEPT ![s.flow] = s.state]
  /\ version' = [version EXCEPT ![s.flow] = @ + 1]
  /\ context' = [context EXCEPT ![s.flow] = s.context]
  /\ adrift' = adrift \ {s}
  /\ UNCHANGED <<next, def, parent, overdue, draining, runs>>

\* Or it was not handed over yet, or fails, or finds another version.
Vanish(s) ==
  /\ adrift' = adrift \ {s}
  /\ UNCHANGED <<flows, overdue, draining, runs>>

\* A workflow's own timeoutMs passes.
Expire(w) ==
  /\ w \in Used /\ Deadline[def[w]] # "none"
  /\ overdue' = overdue \cup {w}
  /\ UNCHANGED <<flows, draining, adrift, runs>>

begin_drain ==
  /\ draining' = TRUE
  /\ UNCHANGED <<flows, overdue, adrift, runs>>

Init ==
  /\ next = 1
  /\ def = [w \in Ids |-> NoDef] /\ state = [w \in Ids |-> "open"]
  /\ version = [w \in Ids |-> 0] /\ context = [w \in Ids |-> Empty]
  /\ parent = [w \in Ids |-> 0]
  /\ overdue = {} /\ draining = FALSE /\ adrift = {}
  /\ pc = [r \in Runs |-> "idle"] /\ target = [r \in Runs |-> 0]
  /\ seen = [r \in Runs |-> 0] /\ child = [r \in Runs |-> 0]
  /\ loaded = [r \in Runs |-> 0] /\ result = [r \in Runs |-> Empty]
  /\ tries = [r \in Runs |-> 1] /\ elapsed = [r \in Runs |-> FALSE]
  /\ callers = [r \in Runs |-> {}]

Step(r) ==
  \/ ExecuteOther(r) \/ StartChild(r) \/ StartRefused(r)
  \/ TimesOut(r) \/ PollCompleted(r) \/ PollFails(r) \/ PollOverdue(r) \/ ApplyDeadline(r)
  \/ Save(r) \/ Lose(r)

Next ==
  \/ \E d \in Roots : Launch(d)
  \/ \E c \in Clients, w \in Ids : Submit(c, w)
  \/ \E w \in Ids : ClientGet(w) \/ Expire(w)
  \/ \E r \in Runs : Step(r) \/ Elapse(r) \/ Drop(r)
  \/ \E s \in adrift : Land(s) \/ Vanish(s)
  \/ begin_drain

Spec == Init /\ [][Next]_vars

\* An executor of another kind that may never return.
Awaits(r) ==
  pc[r] = "execute" /\ Child[DefOf(r)] = NoDef /\ DefOf(r) \notin Prompt

Advance(r) == (~Awaits(r) /\ Step(r)) \/ Elapse(r) \/ Drop(r)

\* Runs are polled and clocks run on; other executors, saves adrift, agents,
\* deadlines and the drain owe nothing.
FairSpec == Spec /\ \A r \in Runs : WF_vars(Advance(r))

-----------------------------------------------------------------------------
TypeOK ==
  /\ next \in 1..(MaxIds + 1)
  /\ def \in [Ids -> Defs \cup {NoDef}]
  /\ state \in [Ids -> {"open", "late"} \cup Terminal]
  /\ version \in [Ids -> Nat]
  /\ context \in [Ids -> Vals \cup {Empty}]
  /\ parent \in [Ids -> Ids \cup {0}]
  /\ overdue \subseteq Ids
  /\ draining \in BOOLEAN
  /\ adrift \subseteq [flow : Ids, seen : Nat, state : {"late"} \cup Terminal,
                      context : Vals \cup {Empty}]
  /\ pc \in [Runs -> {"idle"} \cup Active \cup Ended]
  /\ target \in [Runs -> Ids \cup {0}]
  /\ seen \in [Runs -> Nat] /\ loaded \in [Runs -> Nat]
  /\ child \in [Runs -> Ids \cup {0}]
  /\ result \in [Runs -> Vals \cup {Empty}]
  /\ tries \in [Runs -> Nat] /\ elapsed \in [Runs -> BOOLEAN]
  /\ callers \in [Runs -> SUBSET Runs]
  /\ \A w \in Used : def[w] \in Defs
  /\ \A r \in Runs : /\ pc[r] # "idle" => target[r] \in Used
                     /\ pc[r] \in {"starting", "poll", "apply"} => child[r] \in Used

\* A child that w itself started, of the definition w's executor names, has ended.
OwnChildEnded(w) ==
  \E v \in Used : parent[v] = w /\ def[v] = Child[def[w]] /\ state[v] \in Terminal

\* WorkflowExecutor::execute returns when the sub-workflow is terminal: a parent moves
\* on a workflow executor only after a child of its own has ended, whoever else drives
\* the child, whatever was retried, timed out or saved after its caller was dropped.
ParentsFollowChildren ==
  \A w \in Used : state[w] = "done" /\ Child[def[w]] # NoDef => OwnChildEnded(w)

\* Futures nest: a run inside a start is awaited by every one of its callers, so that
\* below an executor that was dropped, timed out or answered no run goes on.  What may
\* still come from there is a save that was under way, and none of these undoes an end:
\* each moves only a workflow nobody has moved since the save was prepared.
CallersAwait ==
  /\ \A r \in Runs : pc[r] \in Active => \A p \in callers[r] : pc[p] = "starting"
  /\ \A s \in adrift : version[s.flow] = s.seen => state[s.flow] \notin Terminal

\* A run of d ends if runs of the definitions in S do: it has a reliability timeout, or
\* an executor of another kind that always returns, or a timeoutMs -- which does not
\* cover the start of the child, so that a child run by its own start must end too.
EndsWith(d, S) ==
  \/ d \in Impatient
  \/ Child[d] = NoDef /\ d \in Prompt
  \/ Child[d] # NoDef /\ d \in TimeoutMs /\ (Child[d] \in Chained => Child[d] \in S)

\* The definitions whose runs end whatever their children do; not, with any timeoutMs,
\* one that starts itself in its own chain.
Bounded ==
  {d \in Defs : \A S \in SUBSET Defs : (\A e \in Defs : EndsWith(e, S) => e \in S) => d \in S}

=============================================================================
