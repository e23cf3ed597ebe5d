--------------------------- MODULE WorkflowRuntime ---------------------------
(***************************************************************************)
(* The workflow runtime: concurrent start, get and submit calls over one   *)
(* workflow store.  A call is a process that stops at each await that      *)
(* touches something shared; between two awaits other calls, a definition  *)
(* reload, the clock or a crash may step in.  Only save_if_version guards  *)
(* the store.                                                              *)
(*                                                                         *)
(* Variables store, evidence, live, draining, overdue, pc, req and run are *)
(* what the program keeps; log, audit and reply record what was committed, *)
(* audited and answered.                                                   *)
(***************************************************************************)
EXTENDS WorkflowDefinition

CONSTANTS
  Calls,        \* the calls clients make
  Workflows,    \* workflow ids
  Requests,     \* what a call may ask: records [op, name, who, args]
  Quoted,       \* the versions clients quote as expectedVersion
  MaxFaults,    \* bound on crashes and failing awaits
  NoInstance,   \* an id the store does not hold
  NoDef, NoVia, NoRun, NoRequest, NoReply

ASSUME RuntimeAssumption ==
  /\ Requests \subseteq [op : {"start", "get", "submit"}, name : Names,
                         who : Principals, args : Args]
  /\ Quoted \subseteq Nat
  /\ MaxFaults \in Nat

VARIABLES
  store,        \* [Workflows -> the stored instance]
  evidence,     \* the in-memory evidence store: records per workflow and kind
  live,         \* the definition the swappable definition store holds
  draining,     \* the drain flag
  overdue,      \* workflows older than their timeoutMs
  pc,           \* where each call is
  req,          \* its request
  run,          \* its local variables
  reply,        \* its answer
  log,          \* per workflow, every version ever committed
  audit,        \* the lifecycle events of each workflow
  faults        \* crashes and failed awaits so far

shared == <<store, evidence, log, audit>>
outside == <<live, draining, overdue>>
world  == <<live, draining, overdue, faults>>
vars   == <<store, evidence, log, audit, live, draining, overdue, faults,
            pc, req, run, reply>>

Instances == [state : States, version : Nat, context : Contexts]

Fresh(d) == [state |-> Definitions[d].initialState, version |-> 0,
             context |-> Definitions[d].initialContext]

CallRequests ==
  [op : {"start", "get", "submit"}, name : Names, who : Principals, args : Args,
   wf : Workflows, expected : Nat]

\* The locals of a call: its snapshot or pending instance, its definition, the
\* transition it took, the evidence it accumulated, its chain steps, and the
\* function that called run_on_enter.  An event is taken when the sink recorded it.
Runs ==
  [inst : Instances, def : Defs \cup {NoDef}, via : Transitions \cup {NoVia},
   acc : Tallies, steps : Nat, caller : {"start", "submit", "chain"}]

Commits ==
  [inst : Instances, how : {"create", "transition", "chain", "onEnter", "timeout"},
   by : Calls, via : Transitions \cup {NoVia}, def : Defs]

Events ==
  [type : {"started", "transitioned", "completed", "timed_out", "rejected"},
   by : Calls, state : States, version : Nat, taken : BOOLEAN]

Answers ==
  [status : {"started", "executed", "waiting_for_action", "completed", "timed_out",
             "rejected", "failed"},
   code : {"none", "STALE_WORKFLOW_VERSION", "INVALID_TRANSITION", "ACTOR_MISMATCH",
           "INPUT_SCHEMA_VIOLATION", "GUARD_REJECTED", "EXECUTOR_FAILED", "CHAIN_FAILED"},
   state : States, version : Nat, links : SUBSET Names]

Errors == [status : {"error"},
           code : {"shutting_down", "input", "conflict", "onEnter", "fault", "lost"}]

\* The absent values are none of the values they stand in for.
ASSUME AbsentAssumption ==
  /\ NoDef \notin Defs
  /\ NoVia \notin Transitions
  /\ NoInstance \notin Instances
  /\ NoRequest \notin CallRequests
  /\ NoRun \notin Runs
  /\ NoReply \notin Answers \cup Errors

\* Points of a call that hold the instance they loaded or saved.
Settled == {"respond", "gate", "execute", "evidence", "onEnter", "entered", "chain", "finish"}
\* Points of a call about to save the instance it changed.
Saving == {"saveTimeout", "saveTransition", "saveEnter", "saveChain"}
Points == {"idle", "admit", "create", "load", "define", "done"} \cup Settled \cup Saving

-----------------------------------------------------------------------------
(***************************************************************************)
(* Helpers: control of a call, and the store.                              *)
(***************************************************************************)
Wf(c) == req[c].wf

Def(c) == Definitions[run[c].def]

Goto(c, point, locals) ==
  /\ pc' = [pc EXCEPT ![c] = point]
  /\ run' = [run EXCEPT ![c] = locals]
  /\ UNCHANGED <<req, reply>>

Answer(c, r) ==
  /\ pc' = [pc EXCEPT ![c] = "done"]
  /\ run' = [run EXCEPT ![c] = NoRun]
  /\ reply' = [reply EXCEPT ![c] = r]
  /\ UNCHANGED req

\* Mutant: the error is dropped and the client never hears of it.
BailSilently(c, code) == Goto(c, "done", NoRun)

\* The call ends in an anyhow error: no workflow, no links.
Bail(c, code) == Answer(c, [status |-> "error", code |-> code])

\* The response body; a terminal state turns any status into "completed".
response(c, status, code, recovery) ==
  LET inst == run[c].inst
  IN  [status |-> IF is_terminal(run[c].def, inst.state) THEN "completed" ELSE status,
       code |-> code, state |-> inst.state, version |-> inst.version,
       links |-> recovery \cup
                   filter_links_by_guards(run[c].def, inst.state, inst.context,
                                          req[c].who, evidence[Wf(c)])]

Event(c, type, inst, taken) ==
  [type |-> type, by |-> c, state |-> inst.state, version |-> inst.version,
   taken |-> taken]

\* The sink records an event.
Audited(c, type, inst) ==
  audit' = [audit EXCEPT ![Wf(c)] = @ \cup {Event(c, type, inst, TRUE)}]

\* A record whose error is swallowed (`let _ =`): the sink takes the event, or
\* fails and the call goes on without it.
AuditedIfItCan(c, type, inst) ==
  \/ Audited(c, type, inst) /\ UNCHANGED faults
  \/ /\ faults < MaxFaults
     /\ faults' = faults + 1
     /\ audit' = [audit EXCEPT ![Wf(c)] = @ \cup {Event(c, type, inst, FALSE)}]

stored(c) == store[Wf(c)]

Committed(c, how) ==
  /\ store' = [store EXCEPT ![Wf(c)] = run[c].inst]
  /\ log' = [log EXCEPT ![Wf(c)] =
               Append(@, [inst |-> run[c].inst, how |-> how, by |-> c,
                          via |-> run[c].via, def |-> run[c].def])]

\* Mutant: the store replaces without comparing.
save_if_version_unchecked(c, expected, how) == Committed(c, how)

\* WorkflowStore::save_if_version: compare the stored version, then replace.
save_if_version(c, expected, how) ==
  /\ stored(c).version = expected
  /\ Committed(c, how)

\* Mutant: the loser is answered from the instance it failed to save.
SaveConflictAnswered(c, expected) ==
  /\ stored(c).version # expected
  /\ Answer(c, response(c, "rejected", "STALE_WORKFLOW_VERSION", {}))
  /\ UNCHANGED shared

\* save_if_version found another version; its caller returns the bare error.
SaveConflict(c, expected) ==
  /\ stored(c).version # expected
  /\ Bail(c, "conflict")
  /\ UNCHANGED shared

\* An instance moved to a state and context, one version on.
Successor(inst, outcome) ==
  [state |-> outcome.state, version |-> inst.version + 1, context |-> outcome.context]

\* check_and_apply_timeout fires: deadline passed, not terminal, a target declared.
TimeoutFires(c) ==
  /\ Definitions[live].timeoutMs
  /\ ~is_terminal(live, run[c].inst.state)
  /\ Wf(c) \in overdue
  /\ Definitions[live].onTimeout # {}

-----------------------------------------------------------------------------
(***************************************************************************)
(* A request arrives.  A start will create an id no other call uses        *)
(* (a UUID); get and submit name an id the store holds, which its client   *)
(* has from an answer or from the audit trail, at any version it quotes.   *)
(***************************************************************************)
Unclaimed(w) ==
  store[w] = NoInstance /\ \A b \in Calls : pc[b] # "idle" => req[b].wf # w

Issue(c) ==
  /\ pc[c] = "idle"
  /\ \E q \in Requests, w \in Workflows, v \in Quoted :
       /\ IF q.op = "start" THEN Unclaimed(w) ELSE store[w] # NoInstance
       /\ req' = [req EXCEPT ![c] =
                    [op |-> q.op, name |-> q.name, who |-> q.who, args |-> q.args,
                     wf |-> w, expected |-> IF q.op = "submit" THEN v ELSE 0]]
       /\ pc' = [pc EXCEPT ![c] = IF q.op = "start" THEN "admit" ELSE "load"]
  /\ UNCHANGED <<shared, world, run, reply>>

(***************************************************************************)
(* start: refused while draining or on bad input; then the definition in   *)
(* force is loaded and version 0 created.                                  *)
(***************************************************************************)
Admit(c) ==
  /\ pc[c] = "admit"
  /\ IF draining THEN Bail(c, "shutting_down")
     ELSE IF req[c].args \notin Definitions[live].inputs THEN Bail(c, "input")
     ELSE Goto(c, "create",
               [inst |-> Fresh(live), def |-> live, via |-> NoVia, acc |-> NoEvidence,
                steps |-> 0, caller |-> "start"])
  /\ UNCHANGED <<shared, world>>

Create(c) ==
  /\ pc[c] = "create"
  /\ Committed(c, "create")
  /\ Audited(c, "started", run[c].inst)
  /\ Goto(c, "onEnter", run[c])
  /\ UNCHANGED <<evidence, world>>

(***************************************************************************)
(* get and submit: load the instance, then the definition now in force,    *)
(* and apply the lazy timeout before anything else.                        *)
(***************************************************************************)
LoadInstance(c) ==
  /\ pc[c] = "load"
  /\ Goto(c, "define",
          [inst |-> stored(c), def |-> NoDef, via |-> NoVia, acc |-> NoEvidence,
           steps |-> 0, caller |-> "submit"])
  /\ UNCHANGED <<shared, world>>

LoadDefinition(c) ==
  /\ pc[c] = "define"
  /\ IF TimeoutFires(c)
     THEN \E s \in Definitions[live].onTimeout :
            Goto(c, "saveTimeout",
                 [run[c] EXCEPT !.def = live, !.inst = Successor(@,
                    [state |-> s, context |-> @.context])])
     ELSE Goto(c, IF req[c].op = "get" THEN "respond" ELSE "gate",
               [run[c] EXCEPT !.def = live])
  /\ UNCHANGED <<shared, world>>

SaveTimeout(c) ==
  /\ pc[c] = "saveTimeout"
  /\ \/ /\ save_if_version(c, run[c].inst.version - 1, "timeout")
        /\ AuditedIfItCan(c, "timed_out", run[c].inst)
        /\ Answer(c, response(c, "timed_out", "none", {}))
        /\ UNCHANGED evidence
     \/ SaveConflict(c, run[c].inst.version - 1) /\ UNCHANGED faults
  /\ UNCHANGED outside

Get(c) ==
  /\ pc[c] = "respond"
  /\ Answer(c, response(c, "waiting_for_action", "none", {}))
  /\ UNCHANGED <<shared, world>>

(***************************************************************************)
(* submit: the gates, in order, on the snapshot.  Version, transition,     *)
(* actor, input schema, guards.                                            *)
(***************************************************************************)
Named(c) == transition_definition(run[c].def, run[c].inst.state, req[c].name)

Refuse(c, code) ==
  /\ AuditedIfItCan(c, "rejected", run[c].inst)
  /\ Answer(c, response(c, "rejected", code, {}))
  /\ UNCHANGED <<store, evidence, log>>

\* What the gates after the version and name checks say of transition t.
Verdict(c, t) ==
  IF ~ActorAdmits(t, req[c].who) THEN "ACTOR_MISMATCH"
  ELSE IF req[c].args \notin t.accepts THEN "INPUT_SCHEMA_VIOLATION"
  ELSE IF ~GuardsPass(t, run[c].inst.context, req[c].who, req[c].args, evidence[Wf(c)])
       THEN "GUARD_REJECTED"
  ELSE "none"

Gate(c) ==
  /\ pc[c] = "gate"
  /\ IF run[c].inst.version # req[c].expected THEN Refuse(c, "STALE_WORKFLOW_VERSION")
     ELSE IF Named(c) = {} THEN Refuse(c, "INVALID_TRANSITION")
     ELSE \E t \in Named(c) :
            IF Verdict(c, t) # "none" THEN Refuse(c, Verdict(c, t))
            ELSE /\ Goto(c, "execute", [run[c] EXCEPT !.via = t])
                 /\ UNCHANGED <<shared, faults>>
  /\ UNCHANGED outside

(***************************************************************************)
(* submit: dispatch the executor.  Failure answers from the snapshot;      *)
(* success merges the output, resolves the target and makes ready to save. *)
(***************************************************************************)
ExecuteFails(c) ==
  /\ pc[c] = "execute"
  /\ run[c].via.runs
  /\ Audited(c, "rejected", run[c].inst)
  /\ Answer(c, response(c, "failed", "EXECUTOR_FAILED", {}))
  /\ UNCHANGED <<store, evidence, log, world>>

Emitted(t) == IF t.runs THEN t.emits ELSE {}

Execute(c) ==
  /\ pc[c] = "execute"
  /\ \E out \in Outcomes(run[c].via, run[c].inst.context) :
       Goto(c, "saveTransition",
            [run[c] EXCEPT !.inst = Successor(@, out),
                           !.acc = AddEvidence(@, Emitted(run[c].via))])
  /\ UNCHANGED <<shared, world>>

\* Mutant: save over whatever version the store holds by now.
SaveTransitionLatest(c) ==
  /\ pc[c] = "saveTransition"
  /\ save_if_version(c, stored(c).version, "transition")
  /\ Goto(c, "evidence", run[c])
  /\ UNCHANGED <<evidence, audit, world>>

SaveTransition(c) ==
  /\ pc[c] = "saveTransition"
  /\ \/ /\ save_if_version(c, req[c].expected, "transition")
        /\ Goto(c, "evidence", run[c])
        /\ UNCHANGED <<evidence, audit>>
     \/ SaveConflict(c, req[c].expected)
  /\ UNCHANGED world

(***************************************************************************)
(* After a save: persist the accumulated evidence.  A chain keeps its      *)
(* accumulator, and audits the step here, before onEnter; it goes on when  *)
(* the sink refuses the event.                                             *)
(***************************************************************************)
RecordEvidence(c) ==
  /\ pc[c] = "evidence"
  /\ evidence' = [evidence EXCEPT ![Wf(c)] = [k \in Kinds |-> @[k] + run[c].acc[k]]]
  /\ IF run[c].caller = "chain"
     THEN /\ Goto(c, "onEnter", run[c])
          /\ AuditedIfItCan(c, "transitioned", run[c].inst)
     ELSE /\ Goto(c, "onEnter", [run[c] EXCEPT !.acc = NoEvidence])
          /\ UNCHANGED <<audit, faults>>
  /\ UNCHANGED <<store, log, outside>>

(***************************************************************************)
(* run_on_enter: execute the action of the state just entered, record its  *)
(* evidence, save one version on.  Its failure is an error of the call.    *)
(***************************************************************************)
EntryActions(c) == {e \in Def(c).onEnter : e.state = run[c].inst.state}

SkipOnEnter(c) ==
  /\ pc[c] = "onEnter"
  /\ EntryActions(c) = {}
  /\ Goto(c, "entered", run[c])
  /\ UNCHANGED <<shared, world>>

\* Mutant: answered like the failure of the transition's own executor.
OnEnterFailsAnswered(c) ==
  /\ pc[c] = "onEnter"
  /\ EntryActions(c) # {}
  /\ Answer(c, response(c, "failed", "EXECUTOR_FAILED", {}))
  /\ UNCHANGED <<shared, world>>

OnEnterFails(c) ==
  /\ pc[c] = "onEnter"
  /\ EntryActions(c) # {}
  /\ Bail(c, "onEnter")
  /\ UNCHANGED <<shared, world>>

OnEnter(c) ==
  /\ pc[c] = "onEnter"
  /\ \E e \in EntryActions(c), inst \in {run[c].inst} :
       \E new \in Merge(inst.context, e.output) :
         /\ evidence' = [evidence EXCEPT ![Wf(c)] = AddEvidence(@, e.emits)]
         /\ Goto(c, "saveEnter",
                 [run[c] EXCEPT !.inst = Successor(inst,
                    [state |-> inst.state, context |-> new])])
  /\ UNCHANGED <<store, log, audit, world>>

SaveOnEnter(c) ==
  /\ pc[c] = "saveEnter"
  /\ \/ /\ save_if_version(c, run[c].inst.version - 1, "onEnter")
        /\ Goto(c, "entered", run[c])
        /\ UNCHANGED <<evidence, audit>>
     \/ SaveConflict(c, run[c].inst.version - 1)
  /\ UNCHANGED world

\* Mutant: submit forgets its audit event.
EnteredSilently(c) ==
  /\ pc[c] = "entered"
  /\ Goto(c, "chain", [run[c] EXCEPT !.caller = "chain"])
  /\ UNCHANGED <<shared, world>>

\* Back in the caller of run_on_enter: submit audits its transition; a chain
\* stops when the deadline has passed.
Entered(c) ==
  /\ pc[c] = "entered"
  /\ Goto(c, IF run[c].caller = "chain" /\ Def(c).timeoutMs /\ Wf(c) \in overdue
             THEN "finish" ELSE "chain",
          [run[c] EXCEPT !.caller = "chain"])
  /\ IF run[c].caller = "submit" THEN Audited(c, "transitioned", run[c].inst)
                                 ELSE UNCHANGED audit
  /\ UNCHANGED <<store, evidence, log, world>>

(***************************************************************************)
(* run_deterministic_chain, one turn of its loop per pass.                 *)
(***************************************************************************)
\* Mutant: off by one at the depth limit.
ChainStopsLate(c) ==
  \/ is_terminal(run[c].def, run[c].inst.state)
  \/ run[c].steps > Def(c).maxChainDepth
  \/ ~Automatic(run[c].def, run[c].inst.state)

ChainStops(c) ==
  \/ is_terminal(run[c].def, run[c].inst.state)
  \/ run[c].steps >= Def(c).maxChainDepth
  \/ ~Automatic(run[c].def, run[c].inst.state)

Leaving(c) == Outgoing(run[c].def, run[c].inst.state)

Selected(c) ==
  select_deterministic_transition(run[c].def, run[c].inst.state, run[c].inst.context,
                                  req[c].who, evidence[Wf(c)])

\* Mutant: with no single candidate the loop waits for one.
SelectionWaits(c) == pc[c] = "chain" /\ Selected(c) # {} /\ UNCHANGED vars

\* The caller answers with the partial progress and, for recovery, a link to the
\* transition that failed.
ChainFailed(c, recovery) == Answer(c, response(c, "failed", "CHAIN_FAILED", recovery))

\* No single candidate, or the error of a guard among several.
SelectionFails(c) ==
  /\ pc[c] = "chain" /\ ~ChainStops(c)
  /\ \/ Selected(c) = {} /\ UNCHANGED faults
     \/ /\ \A t \in Leaving(c) : Leaving(c) # {t}
        /\ faults < MaxFaults
        /\ faults' = faults + 1
  /\ ChainFailed(c, {})
  /\ UNCHANGED <<shared, outside>>

ChainStepFails(c) ==
  /\ pc[c] = "chain" /\ ~ChainStops(c)
  /\ \E t \in Selected(c) :
       t.runs /\ ChainFailed(c, {t.name})
  /\ UNCHANGED <<shared, world>>

ChainStep(c) ==
  /\ pc[c] = "chain" /\ ~ChainStops(c)
  /\ \E t \in Selected(c) : \E out \in Outcomes(t, run[c].inst.context) :
       Goto(c, "saveChain",
            [run[c] EXCEPT !.inst = Successor(@, out), !.via = t,
                           !.acc = AddEvidence(@, Emitted(t))])
  /\ UNCHANGED <<shared, world>>

SaveChainStep(c) ==
  /\ pc[c] = "saveChain"
  /\ \/ /\ save_if_version(c, run[c].inst.version - 1, "chain")
        /\ Goto(c, "evidence", [run[c] EXCEPT !.steps = @ + 1])
        /\ UNCHANGED <<evidence, audit>>
     \/ SaveConflict(c, run[c].inst.version - 1)
  /\ UNCHANGED world

\* The loop has stopped: audit completion and answer.
Finish(c) ==
  /\ \/ pc[c] = "finish"
     \/ pc[c] = "chain" /\ ChainStops(c)
  /\ IF is_terminal(run[c].def, run[c].inst.state)
     THEN Audited(c, "completed", run[c].inst) ELSE UNCHANGED audit
  /\ Answer(c, response(c, IF req[c].op = "start" THEN "started" ELSE "executed",
                        "none", {}))
  /\ UNCHANGED <<store, evidence, log, world>>

-----------------------------------------------------------------------------
(***************************************************************************)
(* The world around the calls.                                             *)
(***************************************************************************)
\* An await that returns Err through `?`: store, definitions, audit or guards.
\* Recording evidence, building the response and AuditedIfItCan swallow theirs.
Fault(c) ==
  /\ pc[c] \notin {"idle", "evidence", "respond", "done"}
  /\ faults < MaxFaults
  /\ faults' = faults + 1
  /\ Bail(c, "fault")
  /\ UNCHANGED <<shared, live, draining, overdue>>

\* The process dies and restarts: calls in flight are lost, and so are the
\* evidence records; the workflow store is durable.
Crash ==
  /\ faults < MaxFaults
  /\ faults' = faults + 1
  /\ LET Lost == {c \in Calls : pc[c] \notin {"idle", "done"}}
     IN  /\ pc' = [c \in Calls |-> IF c \in Lost THEN "done" ELSE pc[c]]
         /\ run' = [c \in Calls |-> IF c \in Lost THEN NoRun ELSE run[c]]
         /\ reply' = [c \in Calls |-> IF c \in Lost
                        THEN [status |-> "error", code |-> "lost"] ELSE reply[c]]
  /\ evidence' = [w \in Workflows |-> NoEvidence]
  /\ draining' = FALSE
  /\ live' \in Defs
  /\ UNCHANGED <<store, log, audit, overdue, req>>

begin_drain ==
  /\ draining' = TRUE
  /\ UNCHANGED <<shared, live, overdue, faults, pc, req, run, reply>>

\* SIGHUP: the swappable definition store gets another set of definitions.
Reload ==
  /\ live' \in Defs
  /\ UNCHANGED <<shared, draining, overdue, faults, pc, req, run, reply>>

\* The clock passes a workflow's deadline.
Expire(w) ==
  /\ store[w] # NoInstance
  /\ \E d \in Defs : Definitions[d].timeoutMs
  /\ overdue' = overdue \cup {w}
  /\ UNCHANGED <<shared, live, draining, faults, pc, req, run, reply>>

-----------------------------------------------------------------------------
Init ==
  /\ store = [w \in Workflows |-> NoInstance]
  /\ evidence = [w \in Workflows |-> NoEvidence]
  /\ log = [w \in Workflows |-> <<>>]
  /\ audit = [w \in Workflows |-> {}]
  /\ live \in Defs
  /\ draining = FALSE
  /\ overdue = {}
  /\ faults = 0
  /\ pc = [c \in Calls |-> "idle"]
  /\ req = [c \in Calls |-> NoRequest]
  /\ run = [c \in Calls |-> NoRun]
  /\ reply = [c \in Calls |-> NoReply]

\* The steps of a call under way.
Step(c) ==
  \/ Admit(c) \/ Create(c)
  \/ LoadInstance(c) \/ LoadDefinition(c) \/ SaveTimeout(c) \/ Get(c)
  \/ Gate(c) \/ ExecuteFails(c) \/ Execute(c) \/ SaveTransition(c)
  \/ RecordEvidence(c)
  \/ SkipOnEnter(c) \/ OnEnterFails(c) \/ OnEnter(c) \/ SaveOnEnter(c) \/ Entered(c)
  \/ SelectionFails(c) \/ ChainStepFails(c) \/ ChainStep(c) \/ SaveChainStep(c)
  \/ Finish(c)

\* Call c awaits an executor that no timeoutMs bounds (a chain, one of those its
\* state may select): nobody owes it a return.
Awaits(c) ==
  \/ pc[c] = "execute" /\ run[c].via.runs /\ ~run[c].via.bounded
  \/ pc[c] = "onEnter" /\ \E e \in EntryActions(c) : ~e.bounded
  \/ /\ pc[c] = "chain" /\ ~ChainStops(c)
     /\ \E t \in Leaving(c) : t.runs /\ ~t.bounded

World == Crash \/ begin_drain \/ Reload \/ \E w \in Workflows : Expire(w)

\* Every client has its answer: the system may stop.
Quiescent == (\A c \in Calls : pc[c] = "done") /\ UNCHANGED vars

Next ==
  \/ \E c \in Calls : Issue(c) \/ Step(c) \/ Fault(c)
  \/ World
  \/ Quiescent

Spec == Init /\ [][Next]_vars

\* Once issued, a call is polled until it returns, and an executor under a timeoutMs
\* returns or is failed by it; other executors, clients, reloads, the clock and
\* faults owe nothing.
FairSpec == Spec /\ \A c \in Calls : WF_vars(~Awaits(c) /\ Step(c))

-----------------------------------------------------------------------------
(***************************************************************************)
(* What the runtime promises.                                              *)
(***************************************************************************)
\* What a call holds at its point.
LocalsOK(c) ==
  /\ pc[c] # "idle" => req[c] \in CallRequests
  /\ pc[c] \in {"create", "define"} \cup Settled \cup Saving => run[c] \in Runs
  /\ pc[c] \in {"create"} \cup Settled \cup Saving => run[c].def \in Defs
  /\ pc[c] \in {"execute", "saveTransition", "saveChain"} => run[c].via \in Transitions
  /\ pc[c] = "done" <=> reply[c] # NoReply

\* Every variable holds values of its kind, and a call between its load and its
\* answer holds locals (with a definition once one is loaded).  Types of
\* WorkflowInstance, SubmitTransition, the response body and AuditEvent.
TypeOK ==
  /\ store \in [Workflows -> Instances \cup {NoInstance}]
  /\ evidence \in [Workflows -> Tallies]
  /\ log \in [Workflows -> Seq(Commits)]
  /\ audit \in [Workflows -> SUBSET Events]
  /\ live \in Defs
  /\ draining \in BOOLEAN
  /\ overdue \subseteq Workflows
  /\ faults \in 0..MaxFaults
  /\ pc \in [Calls -> Points]
  /\ req \in [Calls -> CallRequests \cup {NoRequest}]
  /\ run \in [Calls -> Runs \cup {NoRun}]
  /\ reply \in [Calls -> Answers \cup Errors \cup {NoReply}]
  /\ \A c \in Calls : LocalsOK(c)

Answered(c) == pc[c] = "done" /\ reply[c].status # "error"

\* The indices of the versions call c committed.
CommitsOf(c) == {i \in DOMAIN log[Wf(c)] : log[Wf(c)][i].by = c}

\* Commit f is one legal step from instance old: a transition leaving its state,
\* its state's onEnter action, or the timeout of a state that is not terminal.
LegalStep(old, f) ==
  \/ /\ f.how \in {"transition", "chain"}
     /\ f.via \in Outgoing(f.def, old.state)
     /\ \E out \in Outcomes(f.via, old.context) : f.inst = Successor(old, out)
  \/ /\ f.how = "onEnter"
     /\ \E e \in Definitions[f.def].onEnter : e.state = old.state /\
          \E new \in Merge(old.context, e.output) :
            f.inst = Successor(old, [state |-> old.state, context |-> new])
  \/ /\ f.how = "timeout"
     /\ ~is_terminal(f.def, old.state)
     /\ \E s \in Definitions[f.def].onTimeout :
          f.inst = Successor(old, [state |-> s, context |-> old.context])

\* One line of history: the store holds the last committed version, versions run
\* 0, 1, 2, ... with no gap or fork, and each is one legal step from the one
\* before, whatever calls, reloads and crashes interleave (no lost update).
LinearHistory ==
  \A w \in Workflows :
    /\ store[w] = IF log[w] = <<>> THEN NoInstance ELSE log[w][Len(log[w])].inst
    /\ \A i \in DOMAIN log[w] :
         /\ log[w][i].inst.version = i - 1
         /\ IF i = 1 THEN log[w][i].how = "create"
                     ELSE LegalStep(log[w][i - 1].inst, log[w][i])

\* Time of check is time of use: when a submitted transition is committed, its
\* actor gate, input schema and guards hold of the stored instance it replaces
\* and of the evidence then recorded, although submit checked them before its
\* executor ran.  Not so for a guard that wants no evidence of a kind: evidence is
\* not versioned, and another call may record some in between.
CommitsAreGuarded ==
  [][\A w \in Workflows :
       LET f == log'[w][Len(log'[w])]
       IN  log'[w] # log[w] /\ f.how = "transition" =>
             /\ f.via.from = store[w].state
             /\ ActorAdmits(f.via, req[f.by].who)
             /\ req[f.by].args \in f.via.accepts \cap f.via.given
             /\ LastingGuards(f.via, store[w].context, req[f.by].who, evidence[w])]_vars

\* The submit of c was answered without error, and not because the deadline fired.
Succeeded(c) ==
  /\ Answered(c) /\ req[c].op = "submit" /\ reply[c].code = "none"
  /\ \A i \in CommitsOf(c) : log[Wf(c)][i].how # "timeout"

\* A submit answered without error has committed exactly the transition it named,
\* once, as the version right after the one it quoted: no retry of a racing client
\* is applied to a version it did not see.
ExecutedOnce ==
  \A c \in Calls : Succeeded(c) =>
    LET mine == {i \in CommitsOf(c) : log[Wf(c)][i].how = "transition"}
    IN  /\ mine = {req[c].expected + 2}
        /\ \A i \in mine : log[Wf(c)][i].via.name = req[c].name

\* No interleaving inside a call: the versions a call commits (its transition or
\* creation, the onEnter action, the chain steps and theirs) are consecutive; when
\* another call commits in between, the first one commits nothing more.
CallsAreContiguous ==
  \A c \in Calls : pc[c] # "idle" =>
    \A i, j \in CommitsOf(c) : i..j \subseteq CommitsOf(c)

\* A submit refused by a gate, or whose executor failed, has committed nothing;
\* nor has a get, unless it applied the timeout.
RefusedLeaveNoTrace ==
  \A c \in Calls : Answered(c) =>
    /\ reply[c].status = "rejected" \/ reply[c].code \notin {"none", "CHAIN_FAILED"}
         => CommitsOf(c) = {}
    /\ req[c].op = "get" =>
         \A i \in CommitsOf(c) : log[Wf(c)][i].how = "timeout"

\* Every answer describes a version that was committed: its state is the state
\* of that version (no response is built from a snapshot that lost its race).
AnswersAreCommitted ==
  \A c \in Calls : Answered(c) =>
    /\ reply[c].version + 1 \in DOMAIN log[Wf(c)]
    /\ log[Wf(c)][reply[c].version + 1].inst.state = reply[c].state

\* A chain walks only through states all of whose transitions are deterministic,
\* never out of a terminal state, and no further than maxChainDepth in one call.
ChainWithinBounds ==
  \A c \in Calls : pc[c] # "idle" =>
    LET steps == {i \in CommitsOf(c) : log[Wf(c)][i].how = "chain"}
    IN  \A i \in steps :
          LET d == log[Wf(c)][i].def
              s == log[Wf(c)][i - 1].inst.state
          IN  /\ Automatic(d, s) /\ ~is_terminal(d, s)
              /\ Cardinality(steps) <= Definitions[d].maxChainDepth

\* The audit trail tells the history.  What it reports was committed with that
\* state; the transition of an answered submit is in it, by that call, at its
\* version or, after an onEnter, at the next; so is every chain step of an answered
\* call, unless the sink failed on it: the number of events lost is never more than
\* that of the faults.
AuditTellsHistory ==
  \A w \in Workflows :
    /\ \A e \in audit[w] :
         /\ e.version + 1 \in DOMAIN log[w]
         /\ log[w][e.version + 1].inst.state = e.state
    /\ \A i \in DOMAIN log[w] :
         log[w][i].how \in {"transition", "chain"} /\ Answered(log[w][i].by) =>
           \E e \in audit[w] : /\ e.type = "transitioned" /\ e.by = log[w][i].by
                               /\ e.state = log[w][i].inst.state
                               /\ e.version \in {i - 1, i}
                               /\ e.taken \/ log[w][i].how = "chain"
    /\ Cardinality({e \in audit[w] : ~e.taken}) <= faults

\* A link an answer offered is still good while its version is current: following
\* it is never an invalid transition and, when links are filtered by guards and
\* the same caller follows it, never refused by a guard; unless one wants no evidence
\* of a kind, or reads the arguments: links are filtered on the empty document, and
\* only submit asks such a guard of the real ones.  Holds while one definition is in
\* force and evidence is not lost.
LinksAreHonoured ==
  [][\A a, b \in Calls :
       /\ Answered(a) /\ pc[b] = "gate" /\ pc'[b] = "done"
       /\ Wf(a) = Wf(b) /\ reply[a].version = req[b].expected
       /\ req[b].name \in reply[a].links
       => /\ reply'[b].code # "INVALID_TRANSITION"
          /\ (/\ Definitions[live].byGuards /\ reply[a].code # "CHAIN_FAILED"
              /\ req[a].who = req[b].who
              /\ \A t \in transition_definition(live, reply[a].state, req[b].name) :
                   t.bans = {} /\ req[b].args \in t.given)
               => reply'[b].code # "GUARD_REJECTED"]_vars

\* The store is a ledger: whatever the calls do, each workflow is created once and
\* then moves one legal step and one version at a time.
Ledger == INSTANCE WorkflowLedger WITH register <- store

ImplementsLedger == Ledger!LedgerSpec

\* Every call a client makes is answered or ends up awaiting for ever an executor
\* without a timeoutMs, however the calls interleave: the gates and the chain loop
\* always come to an end, and nobody waits for another call.
EveryCallAnswered ==
  \A c \in Calls : (pc[c] # "idle") ~> (pc[c] = "done" \/ []Awaits(c))
=============================================================================
