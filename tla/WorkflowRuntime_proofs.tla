----------------------- MODULE WorkflowRuntime_proofs -----------------------
(***************************************************************************)
(* The types of the workflow runtime, then the history of a workflow.      *)
(*                                                                         *)
(* TypeOK alone is not inductive: a call loads what the store holds, which *)
(* is an instance only because the id it names was created and nothing     *)
(* deletes an instance.  TypeInv adds that (Seen).  One lemma per part of  *)
(* the runtime shows that its actions keep TypeInv.                        *)
(***************************************************************************)
EXTENDS WorkflowRuntime, TLAPS

\* The workflow a call under way names is in the store.
Seen == \A c \in Calls : pc[c] \notin {"idle", "admit", "create", "done"} =>
                           store[Wf(c)] # NoInstance

TypeInv == TypeOK /\ Seen

\* The parts of TypeOK about the store and about the world around the calls.
SharedOK ==
  /\ store \in [Workflows -> Instances \cup {NoInstance}]
  /\ evidence \in [Workflows -> Tallies]
  /\ log \in [Workflows -> Seq(Commits)]
  /\ audit \in [Workflows -> SUBSET Events]

WorldOK ==
  /\ live \in Defs
  /\ draining \in BOOLEAN
  /\ overdue \subseteq Workflows
  /\ faults \in 0..MaxFaults

\* No stored workflow disappears.
Keeps == \A w \in Workflows : store[w] # NoInstance => store'[w] # NoInstance

\* merge_output yields a context.
LEMMA MergeType ==
  ASSUME NEW ctx, NEW output, NEW new \in Merge(ctx, output)
  PROVE  new \in Contexts
  BY DEF Merge

\* Adding a record to a tally yields a tally.
LEMMA AddEvidenceType ==
  ASSUME NEW tally \in Tallies, NEW emits
  PROVE  AddEvidence(tally, emits) \in Tallies
  BY DEF AddEvidence, Tallies

\* resolve_target yields a state: a branch's target or the declared one.
LEMMA TargetType ==
  ASSUME NEW t \in Transitions, NEW ctx, NEW s \in resolve_target(t, ctx)
  PROVE  s \in States
<1>1. t.target \in States /\ t.branches \in Seq(Branches)
  BY DEF Transitions
<1>2. \A i \in DOMAIN t.branches : t.branches[i].target \in States
  <2> SUFFICES ASSUME NEW i \in DOMAIN t.branches PROVE t.branches[i] \in Branches
    BY DEF Branches
  <2> QED BY <1>1
<1>3. s = t.target \/ \E i \in DOMAIN t.branches : s = t.branches[i].target
  BY DEF resolve_target
<1> QED BY <1>1, <1>2, <1>3

\* What executing a transition leads to is a state and a context.
LEMMA OutcomeType ==
  ASSUME NEW t \in Transitions, NEW ctx \in Contexts, NEW out \in Outcomes(t, ctx)
  PROVE  out.state \in States /\ out.context \in Contexts
  BY MergeType, TargetType DEF Outcomes

\* What the runtime reads of a definition has its type; a fresh instance is one.
LEMMA DefinitionType ==
  ASSUME NEW d \in Defs
  PROVE  /\ Fresh(d) \in Instances
         /\ Definitions[d].onTimeout \subseteq States
         /\ Definitions[d].transitions \subseteq Transitions
         /\ Definitions[d].onEnter \subseteq Entries
         /\ Definitions[d].maxChainDepth \in Nat
  BY DefinitionsAssumption DEF Fresh, Instances, DefinitionRecords

\* The instance one version on is an instance.
LEMMA SuccessorType ==
  ASSUME NEW inst \in Instances, NEW out, out.state \in States, out.context \in Contexts
  PROVE  Successor(inst, out) \in Instances
  BY DEF Successor, Instances

\* The links offered are transition names.
LEMMA LinksType ==
  ASSUME NEW d \in Defs, NEW s, NEW ctx, NEW p, NEW ev
  PROVE  filter_links_by_guards(d, s, ctx, p, ev) \subseteq Names
  BY DefinitionType DEF filter_links_by_guards, links, Outgoing, Transitions

\* The response body has its type.
LEMMA ResponseType ==
  ASSUME TypeOK, NEW c \in Calls, run[c] \in Runs, run[c].def \in Defs,
         NEW status \in {"started", "executed", "waiting_for_action", "completed",
                         "timed_out", "rejected", "failed"},
         NEW code \in {"none", "STALE_WORKFLOW_VERSION", "INVALID_TRANSITION",
                       "ACTOR_MISMATCH", "INPUT_SCHEMA_VIOLATION", "GUARD_REJECTED",
                       "EXECUTOR_FAILED", "CHAIN_FAILED"},
         NEW recovery \in SUBSET Names
  PROVE  response(c, status, code, recovery) \in Answers
<1>1. run[c].inst.state \in States /\ run[c].inst.version \in Nat
  BY DEF Runs, Instances
<1>2. filter_links_by_guards(run[c].def, run[c].inst.state, run[c].inst.context,
                             req[c].who, evidence[Wf(c)]) \subseteq Names
  BY LinksType
<1> QED BY <1>1, <1>2 DEF response, Answers

\* A call that moves to another point keeps the types of pc, req, run and reply.
LEMMA GotoType ==
  ASSUME TypeOK, NEW c \in Calls, pc[c] \notin {"idle", "done"},
         NEW point \in Points \ {"idle", "done"}, NEW locals \in Runs,
         point \in {"create"} \cup Settled \cup Saving => locals.def \in Defs,
         point \in {"execute", "saveTransition", "saveChain"} => locals.via \in Transitions,
         Goto(c, point, locals)
  PROVE  /\ pc' \in [Calls -> Points]
         /\ req' \in [Calls -> CallRequests \cup {NoRequest}]
         /\ run' \in [Calls -> Runs \cup {NoRun}]
         /\ reply' \in [Calls -> Answers \cup Errors \cup {NoReply}]
         /\ \A b \in Calls : LocalsOK(b)'
<1>1. /\ pc' \in [Calls -> Points]
      /\ req' \in [Calls -> CallRequests \cup {NoRequest}]
      /\ run' \in [Calls -> Runs \cup {NoRun}]
      /\ reply' \in [Calls -> Answers \cup Errors \cup {NoReply}]
  BY DEF TypeOK, Goto
<1>2. ASSUME NEW b \in Calls PROVE LocalsOK(b)'
  <2>1. CASE b = c
    BY <2>1 DEF TypeOK, Goto, LocalsOK
  <2>2. CASE b # c
    BY <2>2 DEF TypeOK, Goto, LocalsOK
  <2> QED BY <2>1, <2>2
<1> QED BY <1>1, <1>2

\* A call that is answered keeps them too.
LEMMA AnswerType ==
  ASSUME TypeOK, NEW c \in Calls, pc[c] \notin {"idle", "done"},
         NEW r \in Answers \cup Errors, Answer(c, r)
  PROVE  /\ pc' \in [Calls -> Points]
         /\ req' \in [Calls -> CallRequests \cup {NoRequest}]
         /\ run' \in [Calls -> Runs \cup {NoRun}]
         /\ reply' \in [Calls -> Answers \cup Errors \cup {NoReply}]
         /\ \A b \in Calls : LocalsOK(b)'
<1>1. /\ pc' \in [Calls -> Points]
      /\ req' \in [Calls -> CallRequests \cup {NoRequest}]
      /\ run' \in [Calls -> Runs \cup {NoRun}]
      /\ reply' \in [Calls -> Answers \cup Errors \cup {NoReply}]
  BY DEF TypeOK, Answer, Points
<1>2. ASSUME NEW b \in Calls PROVE LocalsOK(b)'
  <2>1. CASE b = c
    BY <2>1, AbsentAssumption DEF TypeOK, Answer, LocalsOK, Settled, Saving
  <2>2. CASE b # c
    BY <2>2 DEF TypeOK, Answer, LocalsOK
  <2> QED BY <2>1, <2>2
<1> QED BY <1>1, <1>2

\* A commit keeps the types of the store and the log, and forgets no instance.
LEMMA CommittedType ==
  ASSUME TypeInv, NEW c \in Calls, req[c] \in CallRequests, run[c] \in Runs, run[c].def \in Defs,
         NEW how \in {"create", "transition", "chain", "onEnter", "timeout"},
         Committed(c, how)
  PROVE  /\ store' \in [Workflows -> Instances \cup {NoInstance}]
         /\ log' \in [Workflows -> Seq(Commits)]
         /\ \A w \in Workflows : store[w] # NoInstance => store'[w] # NoInstance
         /\ store'[Wf(c)] # NoInstance
<1> DEFINE f == [inst |-> run[c].inst, how |-> how, by |-> c, via |-> run[c].via,
                 def |-> run[c].def]
<1>1. f \in Commits /\ run[c].inst \in Instances /\ Wf(c) \in Workflows
  BY DEF Commits, Runs, Wf, CallRequests
<1>2. log' = [log EXCEPT ![Wf(c)] = Append(@, f)] /\ store' = [store EXCEPT ![Wf(c)] = run[c].inst]
  BY DEF Committed
<1> HIDE DEF f
<1>3. log \in [Workflows -> Seq(Commits)] /\ store \in [Workflows -> Instances \cup {NoInstance}]
  BY DEF TypeInv, TypeOK
<1>4. log' \in [Workflows -> Seq(Commits)]
  BY <1>1, <1>2, <1>3
<1> QED BY <1>1, <1>2, <1>3, <1>4, AbsentAssumption

\* An audited event keeps the type of the trail.
LEMMA AuditedType ==
  ASSUME TypeInv, NEW c \in Calls, req[c] \in CallRequests, NEW inst \in Instances,
         NEW type \in {"started", "transitioned", "completed", "timed_out", "rejected"},
         Audited(c, type, inst)
  PROVE  audit' \in [Workflows -> SUBSET Events]
<1>1. Event(c, type, inst, TRUE) \in Events
  BY DEF Event, Events, Instances
<1>2. Wf(c) \in Workflows
  BY DEF Wf, CallRequests
<1>3. audit \in [Workflows -> SUBSET Events]
  BY DEF TypeInv, TypeOK
<1> QED BY <1>1, <1>2, <1>3 DEF Audited

\* So does an event the sink may refuse; the refusal is a fault within its bound.
LEMMA AuditedIfItCanType ==
  ASSUME TypeInv, NEW c \in Calls, req[c] \in CallRequests, NEW inst \in Instances,
         NEW type \in {"started", "transitioned", "completed", "timed_out", "rejected"},
         AuditedIfItCan(c, type, inst)
  PROVE  audit' \in [Workflows -> SUBSET Events] /\ faults' \in 0..MaxFaults
<1>1. CASE Audited(c, type, inst) /\ UNCHANGED faults
  BY <1>1, AuditedType DEF TypeInv, TypeOK
<1>2. CASE /\ faults < MaxFaults /\ faults' = faults + 1
           /\ audit' = [audit EXCEPT ![Wf(c)] = @ \cup {Event(c, type, inst, FALSE)}]
  <2>1. Event(c, type, inst, FALSE) \in Events
    BY DEF Event, Events, Instances
  <2>2. Wf(c) \in Workflows /\ audit \in [Workflows -> SUBSET Events]
    BY DEF Wf, CallRequests, TypeInv, TypeOK
  <2>3. audit' \in [Workflows -> SUBSET Events]
    BY <1>2, <2>1, <2>2
  <2>4. faults' \in 0..MaxFaults
    BY <1>2, RuntimeAssumption DEF TypeInv, TypeOK
  <2> QED BY <2>3, <2>4
<1> QED BY <1>1, <1>2 DEF AuditedIfItCan

\* Type correctness of a step that moves a call, from that of what it shares.
LEMMA GotoStep ==
  ASSUME TypeInv, NEW c \in Calls, pc[c] \notin {"idle", "done"},
         NEW point \in Points \ {"idle", "done"}, NEW locals \in Runs,
         point \in {"create"} \cup Settled \cup Saving => locals.def \in Defs,
         point \in {"execute", "saveTransition", "saveChain"} => locals.via \in Transitions,
         Goto(c, point, locals), SharedOK', WorldOK', Keeps,
         point \notin {"admit", "create"} => store'[Wf(c)] # NoInstance
  PROVE  TypeInv'
<1>1. TypeOK'
  BY GotoType DEF TypeInv, TypeOK, SharedOK, WorldOK
<1>2. Seen'
  <2> SUFFICES ASSUME NEW b \in Calls, pc'[b] \notin {"idle", "admit", "create", "done"}
               PROVE  store'[Wf(b)] # NoInstance
    BY DEF Seen, Goto, Wf
  <2>1. CASE b = c
    BY <2>1 DEF TypeInv, TypeOK, Goto
  <2>2. CASE b # c
    <3>1. pc'[b] = pc[b] /\ req[b] \in CallRequests
      BY <2>2 DEF TypeInv, TypeOK, Goto, LocalsOK
    <3>2. Wf(b) \in Workflows
      BY <3>1 DEF CallRequests, Wf
    <3> QED BY <3>1, <3>2 DEF TypeInv, Seen, Keeps
  <2> QED BY <2>1, <2>2
<1> QED BY <1>1, <1>2 DEF TypeInv

\* Type correctness of a step that answers a call, from that of what it shares.
LEMMA AnswerStep ==
  ASSUME TypeInv, NEW c \in Calls, pc[c] \notin {"idle", "done"},
         NEW r \in Answers \cup Errors, Answer(c, r), SharedOK', WorldOK', Keeps
  PROVE  TypeInv'
<1>1. TypeOK'
  BY AnswerType DEF TypeInv, TypeOK, SharedOK, WorldOK
<1>2. Seen'
  <2> SUFFICES ASSUME NEW b \in Calls, pc'[b] \notin {"idle", "admit", "create", "done"}
               PROVE  store'[Wf(b)] # NoInstance
    BY DEF Seen, Answer, Wf
  <2>1. b # c /\ pc'[b] = pc[b] /\ req[b] \in CallRequests
    BY DEF TypeInv, TypeOK, Answer, LocalsOK
  <2>2. Wf(b) \in Workflows
    BY <2>1 DEF CallRequests, Wf
  <2> QED BY <2>1, <2>2 DEF TypeInv, Seen, Keeps
<1> QED BY <1>1, <1>2 DEF TypeInv

\* What TypeInv says of a call that holds an instance and a definition.
LEMMA Holding ==
  ASSUME TypeInv, NEW c \in Calls, pc[c] \in {"create"} \cup Settled \cup Saving
  PROVE  /\ req[c] \in CallRequests /\ Wf(c) \in Workflows
         /\ run[c] \in Runs /\ run[c].def \in Defs /\ run[c].inst \in Instances
         /\ pc[c] # "create" => store[Wf(c)] # NoInstance
         /\ pc[c] \notin {"idle", "admit", "done"}
<1>1. req[c] \in CallRequests /\ run[c] \in Runs /\ run[c].def \in Defs
  BY DEF TypeInv, TypeOK, LocalsOK, Settled, Saving
<1> QED BY <1>1 DEF TypeInv, Seen, Runs, CallRequests, Wf, Settled, Saving

\* A step that leaves the shared state or the world alone keeps its types.
LEMMA Unmoved ==
  ASSUME TypeInv
  PROVE  /\ UNCHANGED shared => SharedOK' /\ Keeps
         /\ UNCHANGED world => WorldOK'
         /\ UNCHANGED outside /\ UNCHANGED faults => UNCHANGED world
         /\ UNCHANGED outside /\ faults' \in 0..MaxFaults => WorldOK'
BY DEF TypeInv, TypeOK, SharedOK, WorldOK, Keeps, shared, outside, world

\* Issuing a call, admitting a start and creating its instance keep TypeInv.
LEMMA StartType ==
  ASSUME TypeInv, NEW c \in Calls, Admit(c) \/ Create(c)
  PROVE  TypeInv'
<1>1. CASE Admit(c)
  <2>1. SharedOK' /\ Keeps /\ WorldOK' /\ pc[c] = "admit"
    BY <1>1, Unmoved DEF Admit
  <2>2. CASE \E r \in Errors : Answer(c, r)
    BY <2>1, <2>2, AnswerStep
  <2>3. ASSUME Goto(c, "create", [inst |-> Fresh(live), def |-> live, via |-> NoVia,
                                  acc |-> NoEvidence, steps |-> 0, caller |-> "start"])
        PROVE  TypeInv'
    <3>1. live \in Defs
      BY DEF TypeInv, TypeOK
    <3>2. Fresh(live) \in Instances /\ NoEvidence \in Tallies
      BY <3>1, DefinitionType DEF NoEvidence, Tallies
    <3>3. [inst |-> Fresh(live), def |-> live, via |-> NoVia, acc |-> NoEvidence,
           steps |-> 0, caller |-> "start"] \in Runs
      BY <3>1, <3>2 DEF Runs
    <3> QED BY <2>1, <2>3, <3>1, <3>3, GotoStep DEF Points
  <2>4. [status |-> "error", code |-> "shutting_down"] \in Errors
        /\ [status |-> "error", code |-> "input"] \in Errors
    BY DEF Errors
  <2> QED BY <1>1, <2>2, <2>3, <2>4 DEF Admit, Bail
<1>2. CASE Create(c)
  <2>1. pc[c] = "create"
    BY <1>2 DEF Create
  <2>2. /\ req[c] \in CallRequests /\ Wf(c) \in Workflows
        /\ run[c] \in Runs /\ run[c].def \in Defs /\ run[c].inst \in Instances
    BY <2>1, Holding
  <2>3. /\ Committed(c, "create") /\ Audited(c, "started", run[c].inst)
        /\ Goto(c, "onEnter", run[c]) /\ UNCHANGED <<evidence, world>>
    BY <1>2 DEF Create
  <2>4. /\ store' \in [Workflows -> Instances \cup {NoInstance}]
        /\ log' \in [Workflows -> Seq(Commits)] /\ Keeps /\ store'[Wf(c)] # NoInstance
    BY <2>2, <2>3, CommittedType DEF Keeps
  <2>5. audit' \in [Workflows -> SUBSET Events]
    BY <2>2, <2>3, AuditedType
  <2>6. SharedOK' /\ WorldOK'
    BY <2>3, <2>4, <2>5, Unmoved DEF SharedOK, TypeInv, TypeOK
  <2> QED BY <2>1, <2>2, <2>3, <2>4, <2>6, GotoStep DEF Points, Settled
<1> QED BY <1>1, <1>2

\* A save that passes its version check keeps the types of what it writes.
LEMMA SaveType ==
  ASSUME TypeInv, NEW c \in Calls, pc[c] \in Saving, NEW expected,
         NEW how \in {"transition", "chain", "onEnter", "timeout"},
         save_if_version(c, expected, how), UNCHANGED evidence,
         audit' \in [Workflows -> SUBSET Events]
  PROVE  SharedOK' /\ Keeps /\ store'[Wf(c)] # NoInstance
<1>1. req[c] \in CallRequests /\ run[c] \in Runs /\ run[c].def \in Defs
  BY Holding
<1>2. Committed(c, how)
  BY DEF save_if_version
<1> QED BY <1>1, <1>2, CommittedType DEF SharedOK, Keeps, TypeInv, TypeOK

\* A save that fails its version check keeps TypeInv.
LEMMA ConflictType ==
  ASSUME TypeInv, NEW c \in Calls, pc[c] \in Saving, NEW expected,
         SaveConflict(c, expected), UNCHANGED world
  PROVE  TypeInv'
<1>1. [status |-> "error", code |-> "conflict"] \in Errors
  BY DEF Errors
<1> QED BY <1>1, AnswerStep, Unmoved, Holding DEF SaveConflict, Bail

\* Loading the instance and the definition, the lazy timeout and get keep TypeInv.
LEMMA LoadType ==
  ASSUME TypeInv, NEW c \in Calls,
         LoadInstance(c) \/ LoadDefinition(c) \/ SaveTimeout(c) \/ Get(c)
  PROVE  TypeInv'
<1>1. CASE LoadInstance(c)
  <2> DEFINE locals == [inst |-> stored(c), def |-> NoDef, via |-> NoVia,
                        acc |-> NoEvidence, steps |-> 0, caller |-> "submit"]
  <2>1. /\ pc[c] = "load" /\ Goto(c, "define", locals)
        /\ SharedOK' /\ Keeps /\ WorldOK'
    BY <1>1, Unmoved DEF LoadInstance
  <2>2. Wf(c) \in Workflows /\ store[Wf(c)] # NoInstance
    BY <2>1 DEF TypeInv, TypeOK, Seen, LocalsOK, Wf, CallRequests
  <2>3. stored(c) \in Instances /\ NoEvidence \in Tallies
    BY <2>2 DEF stored, TypeInv, TypeOK, NoEvidence, Tallies
  <2>4. locals \in Runs
    BY <2>3 DEF Runs
  <2>5. store'[Wf(c)] # NoInstance
    BY <2>2, <2>1 DEF Keeps
  <2> HIDE DEF locals
  <2> QED BY <2>1, <2>4, <2>5, GotoStep DEF Points, Settled, Saving
<1>2. CASE LoadDefinition(c)
  <2>1. /\ pc[c] = "define" /\ SharedOK' /\ Keeps /\ WorldOK' /\ live \in Defs
    BY <1>2, Unmoved DEF LoadDefinition, TypeInv, TypeOK
  <2>2. run[c] \in Runs /\ Wf(c) \in Workflows /\ store[Wf(c)] # NoInstance
    BY <2>1 DEF TypeInv, TypeOK, Seen, LocalsOK, Wf, CallRequests
  <2>3. store'[Wf(c)] # NoInstance
    BY <2>1, <2>2 DEF Keeps
  <2>4. ASSUME NEW s \in Definitions[live].onTimeout,
               Goto(c, "saveTimeout",
                 [run[c] EXCEPT !.def = live, !.inst = Successor(@,
                    [state |-> s, context |-> @.context])])
        PROVE  TypeInv'
    <3> DEFINE inst == Successor(run[c].inst, [state |-> s, context |-> run[c].inst.context])
               locals == [run[c] EXCEPT !.def = live, !.inst = inst]
    <3>1. inst \in Instances
      <4>1. s \in States
        BY <2>1, DefinitionType
      <4> QED BY <4>1, <2>2, SuccessorType DEF Runs, Instances
    <3> HIDE DEF inst
    <3>2. locals \in Runs /\ locals.def \in Defs
      BY <3>1, <2>1, <2>2 DEF Runs
    <3>3. Goto(c, "saveTimeout", locals)
      BY <2>4, <2>2 DEF inst, Runs
    <3> HIDE DEF locals
    <3> QED BY <3>2, <3>3, <2>1, <2>3, GotoStep DEF Points, Settled, Saving
  <2>5. ASSUME NEW point \in {"respond", "gate"},
               Goto(c, point, [run[c] EXCEPT !.def = live])
        PROVE  TypeInv'
    <3>1. [run[c] EXCEPT !.def = live] \in Runs /\ [run[c] EXCEPT !.def = live].def \in Defs
      BY <2>1, <2>2 DEF Runs
    <3> QED BY <3>1, <2>5, <2>1, <2>3, GotoStep DEF Points, Settled, Saving
  <2> QED BY <1>2, <2>4, <2>5 DEF LoadDefinition
<1>3. CASE SaveTimeout(c)
  <2>1. pc[c] = "saveTimeout" /\ UNCHANGED outside
    BY <1>3 DEF SaveTimeout
  <2>2. CASE SaveConflict(c, run[c].inst.version - 1) /\ UNCHANGED faults
    BY <2>1, <2>2, Unmoved, ConflictType DEF Saving
  <2>3. ASSUME save_if_version(c, run[c].inst.version - 1, "timeout"),
               AuditedIfItCan(c, "timed_out", run[c].inst), UNCHANGED evidence,
               Answer(c, response(c, "timed_out", "none", {}))
        PROVE  TypeInv'
    <3>1. audit' \in [Workflows -> SUBSET Events] /\ WorldOK'
      BY <2>1, <2>3, Holding, AuditedIfItCanType, Unmoved DEF Saving
    <3>2. SharedOK' /\ Keeps
      BY <2>1, <2>3, <3>1, SaveType DEF Saving
    <3>3. response(c, "timed_out", "none", {}) \in Answers
      BY <2>1, Holding, ResponseType DEF TypeInv, Saving
    <3> QED BY <2>1, <2>3, <3>1, <3>2, <3>3, AnswerStep
  <2> QED BY <1>3, <2>2, <2>3 DEF SaveTimeout
<1>4. CASE Get(c)
  <2>1. pc[c] = "respond" /\ SharedOK' /\ Keeps /\ WorldOK'
    BY <1>4, Unmoved DEF Get
  <2>2. response(c, "waiting_for_action", "none", {}) \in Answers
    BY <2>1, Holding, ResponseType DEF TypeInv, Settled
  <2> QED BY <1>4, <2>1, <2>2, AnswerStep DEF Get
<1> QED BY <1>1, <1>2, <1>3, <1>4

\* The locals of a call that executed a transition have their type.
LEMMA AdvanceLocals ==
  ASSUME NEW locals \in Runs, locals.def \in Defs, NEW t \in Transitions,
         NEW out \in Outcomes(t, locals.inst.context), NEW acc \in Tallies
  PROVE  LET new == [locals EXCEPT !.inst = Successor(@, out), !.via = t, !.acc = acc]
         IN  new \in Runs /\ new.def \in Defs /\ new.via \in Transitions
<1>1. locals.inst \in Instances /\ locals.inst.context \in Contexts
  BY DEF Runs, Instances
<1>2. Successor(locals.inst, out) \in Instances
  BY <1>1, OutcomeType, SuccessorType
<1> QED BY <1>2 DEF Runs

\* The gates of submit and its executor keep TypeInv.
LEMMA GateType ==
  ASSUME TypeInv, NEW c \in Calls, Gate(c) \/ ExecuteFails(c) \/ Execute(c)
  PROVE  TypeInv'
<1>1. CASE Gate(c)
  <2>1. pc[c] = "gate" /\ UNCHANGED outside
    BY <1>1 DEF Gate
  <2>2. /\ req[c] \in CallRequests /\ run[c] \in Runs /\ run[c].def \in Defs
        /\ run[c].inst \in Instances /\ Wf(c) \in Workflows /\ store[Wf(c)] # NoInstance
    BY <2>1, Holding DEF Settled
  <2>3. ASSUME NEW code \in {"STALE_WORKFLOW_VERSION", "INVALID_TRANSITION", "ACTOR_MISMATCH",
                              "INPUT_SCHEMA_VIOLATION", "GUARD_REJECTED"},
               Refuse(c, code)
        PROVE  TypeInv'
    <3>1. audit' \in [Workflows -> SUBSET Events] /\ WorldOK'
      BY <2>1, <2>2, <2>3, AuditedIfItCanType, Unmoved DEF Refuse
    <3>2. SharedOK' /\ Keeps
      BY <2>3, <3>1 DEF Refuse, SharedOK, Keeps, TypeInv, TypeOK
    <3>3. response(c, "rejected", code, {}) \in Answers
      BY <2>2, ResponseType DEF TypeInv
    <3> QED BY <2>1, <2>3, <3>1, <3>2, <3>3, AnswerStep DEF Refuse
  <2>4. ASSUME NEW t \in Named(c), Goto(c, "execute", [run[c] EXCEPT !.via = t]),
               UNCHANGED <<shared, faults>>
        PROVE  TypeInv'
    <3>1. t \in Transitions
      BY <2>2, DefinitionType DEF Named, transition_definition, Outgoing
    <3>2. SharedOK' /\ Keeps /\ store'[Wf(c)] # NoInstance /\ WorldOK'
      BY <2>1, <2>2, <2>4, Unmoved DEF Keeps
    <3>3. LET new == [run[c] EXCEPT !.via = t]
          IN  new \in Runs /\ new.def \in Defs /\ new.via \in Transitions
      BY <2>2, <3>1 DEF Runs
    <3> QED BY <2>1, <2>4, <3>2, <3>3, GotoStep DEF Points, Settled
  <2>5. \A t : Verdict(c, t) \in {"none", "ACTOR_MISMATCH", "INPUT_SCHEMA_VIOLATION",
                                   "GUARD_REJECTED"}
    BY DEF Verdict
  <2> QED BY <1>1, <2>3, <2>4, <2>5 DEF Gate
<1>2. CASE ExecuteFails(c)
  <2>1. pc[c] = "execute" /\ WorldOK' /\ UNCHANGED <<store, evidence, log>>
    BY <1>2, Unmoved DEF ExecuteFails
  <2>2. audit' \in [Workflows -> SUBSET Events]
    BY <1>2, <2>1, Holding, AuditedType DEF ExecuteFails, Settled
  <2>3. SharedOK' /\ Keeps
    BY <2>1, <2>2 DEF SharedOK, Keeps, TypeInv, TypeOK
  <2>4. response(c, "failed", "EXECUTOR_FAILED", {}) \in Answers
    BY <2>1, Holding, ResponseType DEF TypeInv, Settled
  <2> QED BY <1>2, <2>1, <2>3, <2>4, AnswerStep DEF ExecuteFails
<1>3. CASE Execute(c)
  <2>1. pc[c] = "execute" /\ SharedOK' /\ Keeps /\ WorldOK'
    BY <1>3, Unmoved DEF Execute
  <2>2. /\ run[c] \in Runs /\ run[c].def \in Defs /\ Wf(c) \in Workflows
        /\ store'[Wf(c)] # NoInstance
    BY <2>1, Holding DEF Settled, Keeps
  <2>3. run[c].via \in Transitions
    BY <2>1 DEF TypeInv, TypeOK, LocalsOK
  <2>4. PICK out \in Outcomes(run[c].via, run[c].inst.context) :
          Goto(c, "saveTransition",
               [run[c] EXCEPT !.inst = Successor(@, out),
                              !.acc = AddEvidence(@, Emitted(run[c].via))])
    BY <1>3 DEF Execute
  <2>5. AddEvidence(run[c].acc, Emitted(run[c].via)) \in Tallies
    BY <2>2, AddEvidenceType DEF Runs
  <2>6. [run[c] EXCEPT !.inst = Successor(@, out),
                       !.acc = AddEvidence(@, Emitted(run[c].via))]
        = [run[c] EXCEPT !.inst = Successor(@, out), !.via = run[c].via,
                         !.acc = AddEvidence(run[c].acc, Emitted(run[c].via))]
    BY <2>2 DEF Runs
  <2> QED BY <2>1, <2>2, <2>3, <2>4, <2>5, <2>6, AdvanceLocals, GotoStep
          DEF Points, Saving
<1> QED BY <1>1, <1>2, <1>3

\* Saving a transition and recording its evidence keep TypeInv.
LEMMA CommitType ==
  ASSUME TypeInv, NEW c \in Calls, SaveTransition(c) \/ RecordEvidence(c)
  PROVE  TypeInv'
<1>1. CASE SaveTransition(c)
  <2>1. /\ pc[c] = "saveTransition" /\ UNCHANGED world /\ WorldOK'
        /\ run[c] \in Runs /\ run[c].def \in Defs
    BY <1>1, Unmoved, Holding DEF SaveTransition, Saving
  <2>2. CASE SaveConflict(c, req[c].expected)
    BY <2>1, <2>2, ConflictType DEF Saving
  <2>3. ASSUME save_if_version(c, req[c].expected, "transition"),
               Goto(c, "evidence", run[c]), UNCHANGED <<evidence, audit>>
        PROVE  TypeInv'
    <3>1. SharedOK' /\ Keeps /\ store'[Wf(c)] # NoInstance
      BY <2>1, <2>3, SaveType DEF Saving, TypeInv, TypeOK
    <3> QED BY <2>1, <2>3, <3>1, GotoStep DEF Points, Settled, Saving
  <2> QED BY <1>1, <2>2, <2>3 DEF SaveTransition
<1>2. CASE RecordEvidence(c)
  <2>1. /\ pc[c] = "evidence" /\ UNCHANGED outside /\ UNCHANGED <<store, log>>
        /\ run[c] \in Runs /\ run[c].def \in Defs /\ run[c].inst \in Instances
        /\ Wf(c) \in Workflows /\ store[Wf(c)] # NoInstance /\ req[c] \in CallRequests
    BY <1>2, Holding DEF RecordEvidence, Settled
  <2>2. evidence' \in [Workflows -> Tallies]
    <3>1. [k \in Kinds |-> evidence[Wf(c)][k] + run[c].acc[k]] \in Tallies
      BY <2>1 DEF TypeInv, TypeOK, Tallies, Runs
    <3> QED BY <1>2, <2>1, <3>1 DEF RecordEvidence, TypeInv, TypeOK
  <2>3. audit' \in [Workflows -> SUBSET Events] /\ faults' \in 0..MaxFaults
    BY <1>2, <2>1, AuditedIfItCanType DEF RecordEvidence, TypeInv, TypeOK
  <2>4. SharedOK' /\ Keeps /\ store'[Wf(c)] # NoInstance /\ WorldOK'
    BY <2>1, <2>2, <2>3, Unmoved DEF SharedOK, Keeps, TypeInv, TypeOK
  <2>5. LET new == [run[c] EXCEPT !.acc = NoEvidence] IN new \in Runs /\ new.def \in Defs
    BY <2>1 DEF Runs, NoEvidence, Tallies
  <2>6. CASE Goto(c, "onEnter", run[c])
    BY <2>1, <2>4, <2>6, GotoStep DEF Points, Settled
  <2>7. CASE Goto(c, "onEnter", [run[c] EXCEPT !.acc = NoEvidence])
    BY <2>1, <2>4, <2>5, <2>7, GotoStep DEF Points, Settled
  <2> QED BY <1>2, <2>6, <2>7 DEF RecordEvidence
<1> QED BY <1>1, <1>2

\* run_on_enter keeps TypeInv.
LEMMA EnterType ==
  ASSUME TypeInv, NEW c \in Calls,
         SkipOnEnter(c) \/ OnEnterFails(c) \/ OnEnter(c) \/ SaveOnEnter(c) \/ Entered(c)
  PROVE  TypeInv'
<1>1. CASE SkipOnEnter(c)
  <2>1. /\ pc[c] = "onEnter" /\ Goto(c, "entered", run[c])
        /\ SharedOK' /\ Keeps /\ WorldOK'
    BY <1>1, Unmoved DEF SkipOnEnter
  <2> QED BY <2>1, Holding, GotoStep DEF Points, Settled, Keeps
<1>2. CASE OnEnterFails(c)
  <2>1. [status |-> "error", code |-> "onEnter"] \in Errors
    BY DEF Errors
  <2> QED BY <1>2, <2>1, Unmoved, AnswerStep DEF OnEnterFails, Bail
<1>3. CASE OnEnter(c)
  <2>1. /\ pc[c] = "onEnter" /\ WorldOK' /\ UNCHANGED <<store, log, audit>>
        /\ run[c] \in Runs /\ run[c].def \in Defs /\ run[c].inst \in Instances
        /\ Wf(c) \in Workflows /\ store[Wf(c)] # NoInstance
    BY <1>3, Unmoved, Holding DEF OnEnter, Settled
  <2>2. PICK e \in EntryActions(c) : \E new \in Merge(run[c].inst.context, e.output) :
          /\ evidence' = [evidence EXCEPT ![Wf(c)] = AddEvidence(@, e.emits)]
          /\ Goto(c, "saveEnter",
                  [run[c] EXCEPT !.inst = Successor(run[c].inst,
                     [state |-> run[c].inst.state, context |-> new])])
    BY <1>3 DEF OnEnter
  <2>3. PICK new \in Merge(run[c].inst.context, e.output) :
          /\ evidence' = [evidence EXCEPT ![Wf(c)] = AddEvidence(@, e.emits)]
          /\ Goto(c, "saveEnter",
                  [run[c] EXCEPT !.inst = Successor(run[c].inst,
                     [state |-> run[c].inst.state, context |-> new])])
    BY <2>2
  <2> DEFINE inst == Successor(run[c].inst, [state |-> run[c].inst.state, context |-> new])
             locals == [run[c] EXCEPT !.inst = inst]
  <2>4. inst \in Instances
    BY <2>1, <2>3, MergeType, SuccessorType DEF Instances
  <2> HIDE DEF inst
  <2>5. locals \in Runs /\ locals.def \in Defs
    BY <2>1, <2>4 DEF Runs
  <2>6. Goto(c, "saveEnter", locals)
    BY <2>3 DEF inst
  <2> HIDE DEF locals
  <2>7. evidence' \in [Workflows -> Tallies]
    BY <2>1, <2>3, AddEvidenceType DEF TypeInv, TypeOK
  <2>8. SharedOK' /\ Keeps /\ store'[Wf(c)] # NoInstance
    BY <2>1, <2>7 DEF SharedOK, Keeps, TypeInv, TypeOK
  <2> QED BY <2>1, <2>5, <2>6, <2>8, GotoStep DEF Points, Saving
<1>4. CASE SaveOnEnter(c)
  <2>1. /\ pc[c] = "saveEnter" /\ UNCHANGED world /\ WorldOK'
        /\ run[c] \in Runs /\ run[c].def \in Defs
    BY <1>4, Unmoved, Holding DEF SaveOnEnter, Saving
  <2>2. CASE SaveConflict(c, run[c].inst.version - 1)
    BY <2>1, <2>2, ConflictType DEF Saving
  <2>3. ASSUME save_if_version(c, run[c].inst.version - 1, "onEnter"),
               Goto(c, "entered", run[c]), UNCHANGED <<evidence, audit>>
        PROVE  TypeInv'
    <3>1. SharedOK' /\ Keeps /\ store'[Wf(c)] # NoInstance
      BY <2>1, <2>3, SaveType DEF Saving, TypeInv, TypeOK
    <3> QED BY <2>1, <2>3, <3>1, GotoStep DEF Points, Settled, Saving
  <2> QED BY <1>4, <2>2, <2>3 DEF SaveOnEnter
<1>5. CASE Entered(c)
  <2>1. /\ pc[c] = "entered" /\ WorldOK' /\ UNCHANGED <<store, evidence, log>>
        /\ run[c] \in Runs /\ run[c].def \in Defs /\ run[c].inst \in Instances
        /\ Wf(c) \in Workflows /\ store[Wf(c)] # NoInstance /\ req[c] \in CallRequests
    BY <1>5, Unmoved, Holding DEF Entered, Settled
  <2>2. audit' \in [Workflows -> SUBSET Events]
    BY <1>5, <2>1, AuditedType DEF Entered, TypeInv, TypeOK
  <2>3. SharedOK' /\ Keeps /\ store'[Wf(c)] # NoInstance
    BY <2>1, <2>2 DEF SharedOK, Keeps, TypeInv, TypeOK
  <2>4. LET new == [run[c] EXCEPT !.caller = "chain"] IN new \in Runs /\ new.def \in Defs
    BY <2>1 DEF Runs
  <2>5. PICK point \in {"finish", "chain"} : Goto(c, point, [run[c] EXCEPT !.caller = "chain"])
    BY <1>5 DEF Entered
  <2> QED BY <2>1, <2>3, <2>4, <2>5, GotoStep DEF Points, Settled, Saving
<1> QED BY <1>1, <1>2, <1>3, <1>4, <1>5

\* The deterministic chain and the answer after it keep TypeInv.
LEMMA ChainType ==
  ASSUME TypeInv, NEW c \in Calls,
         \/ SelectionFails(c) \/ ChainStepFails(c) \/ ChainStep(c) \/ SaveChainStep(c)
         \/ Finish(c)
  PROVE  TypeInv'
<1>1. CASE SelectionFails(c) \/ ChainStepFails(c)
  <2>1. /\ pc[c] = "chain" /\ SharedOK' /\ Keeps /\ WorldOK'
        /\ run[c] \in Runs /\ run[c].def \in Defs
    <3>1. /\ pc[c] = "chain" /\ UNCHANGED shared /\ UNCHANGED outside
          /\ faults' = faults \/ (faults < MaxFaults /\ faults' = faults + 1)
      BY <1>1 DEF SelectionFails, ChainStepFails, outside, world
    <3>2. faults' \in 0..MaxFaults
      BY <3>1, RuntimeAssumption DEF TypeInv, TypeOK
    <3> QED BY <3>1, <3>2, Unmoved, Holding DEF Settled
  <2>2. \A t \in Selected(c) : t.name \in Names
    BY <2>1, DefinitionType
       DEF Selected, select_deterministic_transition, Viable, Outgoing, Transitions
  <2>3. PICK recovery \in SUBSET Names :
          Answer(c, response(c, "failed", "CHAIN_FAILED", recovery))
    BY <1>1, <2>2 DEF SelectionFails, ChainStepFails, ChainFailed
  <2>4. response(c, "failed", "CHAIN_FAILED", recovery) \in Answers
    BY <2>1, ResponseType DEF TypeInv
  <2> QED BY <2>1, <2>3, <2>4, AnswerStep
<1>2. CASE ChainStep(c)
  <2>1. /\ pc[c] = "chain" /\ SharedOK' /\ Keeps /\ WorldOK'
        /\ run[c] \in Runs /\ run[c].def \in Defs /\ Wf(c) \in Workflows
        /\ store[Wf(c)] # NoInstance
    BY <1>2, Unmoved, Holding DEF ChainStep, Settled
  <2>2. PICK t \in Selected(c) : \E out \in Outcomes(t, run[c].inst.context) :
          Goto(c, "saveChain", [run[c] EXCEPT !.inst = Successor(@, out), !.via = t,
                                              !.acc = AddEvidence(@, Emitted(t))])
    BY <1>2 DEF ChainStep
  <2>3. PICK out \in Outcomes(t, run[c].inst.context) :
          Goto(c, "saveChain", [run[c] EXCEPT !.inst = Successor(@, out), !.via = t,
                                              !.acc = AddEvidence(@, Emitted(t))])
    BY <2>2
  <2>4. t \in Transitions
    BY <2>1, DefinitionType
       DEF Selected, select_deterministic_transition, Viable, Outgoing
  <2>5. AddEvidence(run[c].acc, Emitted(t)) \in Tallies
    BY <2>1, AddEvidenceType DEF Runs
  <2>6. Goto(c, "saveChain", [run[c] EXCEPT !.inst = Successor(@, out), !.via = t,
                                            !.acc = AddEvidence(run[c].acc, Emitted(t))])
    BY <2>1, <2>3 DEF Runs
  <2> QED BY <2>1, <2>4, <2>5, <2>6, AdvanceLocals, GotoStep DEF Points, Saving, Keeps
<1>3. CASE SaveChainStep(c)
  <2>1. /\ pc[c] = "saveChain" /\ UNCHANGED world /\ WorldOK'
        /\ run[c] \in Runs /\ run[c].def \in Defs
    BY <1>3, Unmoved, Holding DEF SaveChainStep, Saving
  <2>2. CASE SaveConflict(c, run[c].inst.version - 1)
    BY <2>1, <2>2, ConflictType DEF Saving
  <2>3. ASSUME save_if_version(c, run[c].inst.version - 1, "chain"),
               Goto(c, "evidence", [run[c] EXCEPT !.steps = @ + 1]),
               UNCHANGED <<evidence, audit>>
        PROVE  TypeInv'
    <3>1. SharedOK' /\ Keeps /\ store'[Wf(c)] # NoInstance
      BY <2>1, <2>3, SaveType DEF Saving, TypeInv, TypeOK
    <3>2. LET new == [run[c] EXCEPT !.steps = @ + 1] IN new \in Runs /\ new.def \in Defs
      BY <2>1 DEF Runs
    <3> QED BY <2>1, <2>3, <3>1, <3>2, GotoStep DEF Points, Settled, Saving
  <2> QED BY <1>3, <2>2, <2>3 DEF SaveChainStep
<1>4. CASE Finish(c)
  <2>1. /\ pc[c] \in {"finish", "chain"} /\ WorldOK' /\ UNCHANGED <<store, evidence, log>>
        /\ run[c] \in Runs /\ run[c].def \in Defs /\ run[c].inst \in Instances
        /\ req[c] \in CallRequests
    BY <1>4, Unmoved, Holding DEF Finish, Settled
  <2>2. audit' \in [Workflows -> SUBSET Events]
    BY <1>4, <2>1, AuditedType DEF Finish, TypeInv, TypeOK
  <2>3. SharedOK' /\ Keeps
    BY <2>1, <2>2 DEF SharedOK, Keeps, TypeInv, TypeOK
  <2>4. PICK status \in {"started", "executed"} : Answer(c, response(c, status, "none", {}))
    BY <1>4 DEF Finish
  <2>5. response(c, status, "none", {}) \in Answers
    BY <2>1, ResponseType DEF TypeInv
  <2> QED BY <2>1, <2>3, <2>4, <2>5, AnswerStep
<1> QED BY <1>1, <1>2, <1>3, <1>4

\* Faults, crashes, drains, reloads and the clock keep TypeInv.
LEMMA WorldType ==
  ASSUME TypeInv, World \/ Quiescent \/ \E c \in Calls : Issue(c) \/ Fault(c)
  PROVE  TypeInv'
<1>1. ASSUME NEW c \in Calls, Issue(c) PROVE TypeInv'
  <2>1. PICK q \in Requests, w \in Workflows, v \in Quoted :
          /\ IF q.op = "start" THEN Unclaimed(w) ELSE store[w] # NoInstance
          /\ req' = [req EXCEPT ![c] =
                       [op |-> q.op, name |-> q.name, who |-> q.who, args |-> q.args,
                        wf |-> w, expected |-> IF q.op = "submit" THEN v ELSE 0]]
          /\ pc' = [pc EXCEPT ![c] = IF q.op = "start" THEN "admit" ELSE "load"]
    BY <1>1 DEF Issue
  <2> DEFINE r == [op |-> q.op, name |-> q.name, who |-> q.who, args |-> q.args,
                   wf |-> w, expected |-> IF q.op = "submit" THEN v ELSE 0]
  <2>2. r \in CallRequests /\ r.wf = w
    BY RuntimeAssumption DEF CallRequests
  <2>3. req' = [req EXCEPT ![c] = r]
    BY <2>1
  <2> HIDE DEF r
  <2>4. UNCHANGED <<shared, world, run, reply>> /\ pc[c] = "idle"
    BY <1>1 DEF Issue
  <2>5. \A b \in Calls : LocalsOK(b)'
    <3> SUFFICES ASSUME NEW b \in Calls PROVE LocalsOK(b)'
      OBVIOUS
    <3>1. CASE b = c
      BY <3>1, <2>1, <2>2, <2>3, <2>4 DEF LocalsOK, TypeInv, TypeOK, Settled, Saving
    <3>2. CASE b # c
      BY <3>2, <2>1, <2>2, <2>3, <2>4 DEF LocalsOK, TypeInv, TypeOK
    <3> QED BY <3>1, <3>2
  <2>6. TypeOK'
    BY <2>1, <2>2, <2>3, <2>4, <2>5 DEF TypeInv, TypeOK, shared, world, Points
  <2>7. Seen'
    BY <2>1, <2>2, <2>3, <2>4 DEF TypeInv, TypeOK, Seen, shared, Wf
  <2> QED BY <2>6, <2>7 DEF TypeInv
<1>2. ASSUME NEW c \in Calls, Fault(c) PROVE TypeInv'
  <2>1. SharedOK' /\ Keeps /\ WorldOK'
    BY <1>2, Unmoved, RuntimeAssumption DEF Fault, WorldOK, TypeInv, TypeOK
  <2>2. [status |-> "error", code |-> "fault"] \in Errors
    BY DEF Errors
  <2> QED BY <1>2, <2>1, <2>2, AnswerStep DEF Fault, Bail
<1>3. CASE Crash
  <2>1. [status |-> "error", code |-> "lost"] \in Errors
    BY DEF Errors
  <2>2. NoEvidence \in Tallies
    BY DEF NoEvidence, Tallies
  <2>3. \A b \in Calls : LocalsOK(b)'
    BY <1>3, <2>1, AbsentAssumption DEF Crash, LocalsOK, TypeInv, TypeOK, Settled, Saving
  <2>4. TypeOK'
    <3>1. SharedOK' /\ WorldOK'
      <4>1. /\ evidence' = [w \in Workflows |-> NoEvidence]
            /\ UNCHANGED <<store, log, audit, overdue>>
            /\ live' \in Defs /\ draining' = FALSE
            /\ faults < MaxFaults /\ faults' = faults + 1
        BY <1>3 DEF Crash
      <4>2. SharedOK'
        <5>1. evidence' \in [Workflows -> Tallies]
          BY <4>1, <2>2
        <5> QED BY <4>1, <5>1 DEF SharedOK, TypeInv, TypeOK
      <4>3. WorldOK'
        <5>1. faults' \in 0..MaxFaults
          BY <4>1, RuntimeAssumption DEF TypeInv, TypeOK
        <5>2. draining' \in BOOLEAN
          BY <4>1
        <5>3. live' \in Defs /\ overdue' \subseteq Workflows
          BY <4>1 DEF TypeInv, TypeOK
        <5> QED BY <5>1, <5>2, <5>3 DEF WorldOK
      <4> QED BY <4>2, <4>3
    <3>2. pc' \in [Calls -> Points] /\ run' \in [Calls -> Runs \cup {NoRun}]
      BY <1>3 DEF Crash, TypeInv, TypeOK, Points
    <3>3. reply' \in [Calls -> Answers \cup Errors \cup {NoReply}] /\ UNCHANGED req
      BY <1>3, <2>1 DEF Crash, TypeInv, TypeOK
    <3> QED BY <2>3, <3>1, <3>2, <3>3 DEF TypeInv, TypeOK, SharedOK, WorldOK
  <2>5. Seen'
    BY <1>3 DEF Crash, TypeInv, Seen, Wf
  <2> QED BY <2>4, <2>5 DEF TypeInv
<1>4. CASE begin_drain \/ Reload \/ (\E w \in Workflows : Expire(w)) \/ Quiescent
  <2>1. UNCHANGED <<shared, faults, pc, req, run, reply>>
    BY <1>4 DEF begin_drain, Reload, Expire, Quiescent, vars, shared
  <2>2. WorldOK'
    BY <1>4 DEF begin_drain, Reload, Expire, Quiescent, vars, WorldOK, TypeInv, TypeOK
  <2>3. \A b \in Calls : LocalsOK(b)'
    BY <2>1 DEF LocalsOK, TypeInv, TypeOK
  <2> QED BY <2>1, <2>2, <2>3 DEF TypeInv, TypeOK, Seen, shared, Wf, WorldOK
<1> QED BY <1>1, <1>2, <1>3, <1>4 DEF World

\* TypeInv is inductive: every step keeps it.
LEMMA TypeStep == TypeInv /\ [Next]_vars => TypeInv'
<1> SUFFICES ASSUME TypeInv, [Next]_vars PROVE TypeInv'
  OBVIOUS
<1>1. ASSUME NEW c \in Calls, Step(c) PROVE TypeInv'
  BY <1>1, StartType, LoadType, GateType, CommitType, EnterType, ChainType DEF Step
<1>2. CASE UNCHANGED vars
  <2>1. \A b \in Calls : LocalsOK(b)'
    BY <1>2 DEF LocalsOK, TypeInv, TypeOK, vars
  <2> QED BY <1>2, <2>1 DEF TypeInv, TypeOK, Seen, Wf, vars
<1> QED BY <1>1, <1>2, WorldType DEF Next

\* TypeInv holds initially.
LEMMA TypeInit == Init => TypeInv
<1> SUFFICES ASSUME Init PROVE TypeInv
  OBVIOUS
<1>1. \A c \in Calls : LocalsOK(c)
  BY DEF Init, LocalsOK, Settled, Saving
<1>2. NoEvidence \in Tallies
  BY DEF NoEvidence, Tallies
<1>3. SharedOK
  <2>1. evidence \in [Workflows -> Tallies]
    BY <1>2 DEF Init
  <2>2. log \in [Workflows -> Seq(Commits)]
    BY DEF Init
  <2>3. audit \in [Workflows -> SUBSET Events] /\ store \in [Workflows -> {NoInstance}]
    BY DEF Init
  <2> QED BY <2>1, <2>2, <2>3 DEF SharedOK
<1>4. WorldOK
  <2>1. faults \in 0..MaxFaults
    BY RuntimeAssumption DEF Init
  <2>2. draining \in BOOLEAN
    BY DEF Init
  <2>3. live \in Defs /\ overdue \subseteq Workflows
    BY DEF Init
  <2> QED BY <2>1, <2>2, <2>3 DEF WorldOK
<1>5. /\ pc \in [Calls -> Points]
      /\ req \in [Calls -> CallRequests \cup {NoRequest}]
      /\ run \in [Calls -> Runs \cup {NoRun}]
      /\ reply \in [Calls -> Answers \cup Errors \cup {NoReply}]
  BY DEF Init, Points
<1>6. Seen
  BY DEF Init, Seen
<1> QED BY <1>1, <1>3, <1>4, <1>5, <1>6 DEF TypeInv, TypeOK, SharedOK, WorldOK

\* Whatever calls, reloads, faults and crashes interleave, and for every set of
\* definitions, every variable holds values of its kind and every call under way
\* holds the locals its point needs; a call is done exactly when it is answered.
THEOREM TypeCorrect == Spec => []TypeOK
<1>1. TypeInv => TypeOK
  BY DEF TypeInv
<1> QED BY <1>1, TypeInit, TypeStep, PTL DEF Spec

-----------------------------------------------------------------------------
(***************************************************************************)
(* The history of a workflow, for every value of the constants: it is      *)
(* linear, it implements the ledger, and the gates of a submit hold where  *)
(* its transition is committed.                                            *)
(*                                                                         *)
(* LinearHistory alone is not inductive.  HistoryInv adds what each call   *)
(* holds (CallInv): between saves a version its log contains, before a     *)
(* save a legal successor of such a version.  When the save finds that     *)
(* version in the store, it is the last of the log, and the successor is a *)
(* legal next entry.  A step of another call only appends to logs and adds *)
(* evidence, which disturbs none of this.                                  *)
(***************************************************************************)

\* How the save a call is about to make will be logged.
How(point) ==
  CASE point = "saveTimeout" -> "timeout"
    [] point = "saveTransition" -> "transition"
    [] point = "saveEnter" -> "onEnter"
    [] point = "saveChain" -> "chain"

\* What a commit of call c adds to the log.
Entry(c, how) == [inst |-> run[c].inst, how |-> how, by |-> c, via |-> run[c].via,
                  def |-> run[c].def]

Pending(c) == Entry(c, How(pc[c]))

\* A start owns an id nobody else names.
Starting(c) ==
  pc[c] \in {"admit", "create"} =>
    /\ store[Wf(c)] = NoInstance
    /\ \A b \in Calls : b # c /\ pc[b] # "idle" => req[b].wf # req[c].wf
    /\ pc[c] = "create" => run[c].inst = Fresh(run[c].def)

\* A call between saves holds a committed version.
Snapshot(c) ==
  pc[c] \in {"define"} \cup Settled =>
    /\ run[c].inst.version + 1 \in DOMAIN log[Wf(c)]
    /\ log[Wf(c)][run[c].inst.version + 1].inst = run[c].inst

\* A call about to save holds a legal successor of a committed version.
Prepared(c) ==
  pc[c] \in Saving =>
    /\ run[c].inst.version \in DOMAIN log[Wf(c)]
    /\ LegalStep(log[Wf(c)][run[c].inst.version].inst, Pending(c))

\* The gates of submit passed on instance inst, and still do.
Permits(c, inst) ==
  /\ run[c].via \in Outgoing(run[c].def, inst.state)
  /\ ActorAdmits(run[c].via, req[c].who)
  /\ req[c].args \in run[c].via.accepts \cap run[c].via.given
  /\ LastingGuards(run[c].via, inst.context, req[c].who, evidence[Wf(c)])

Cleared(c) ==
  /\ pc[c] = "execute" =>
       run[c].inst.version = req[c].expected /\ Permits(c, run[c].inst)
  /\ pc[c] = "saveTransition" =>
       /\ run[c].inst.version = req[c].expected + 1
       /\ Permits(c, log[Wf(c)][run[c].inst.version].inst)

CallInv(c) == Starting(c) /\ Snapshot(c) /\ Prepared(c) /\ Cleared(c)

HistoryInv == LinearHistory /\ \A c \in Calls : CallInv(c)

-----------------------------------------------------------------------------
\* Committed versions stay, and so do evidence records.
Extends ==
  \A w \in Workflows : \A i \in DOMAIN log[w] :
    i \in DOMAIN log'[w] /\ log'[w][i] = log[w][i]

Gathers == \A w \in Workflows, k \in Kinds : evidence'[w][k] >= evidence[w][k]

\* What a step of call c leaves alone.
Frame(c) ==
  /\ pc[c] # "idle" /\ pc'[c] # "idle" /\ req' = req
  /\ \A b \in Calls : b # c => pc'[b] = pc[b] /\ run'[b] = run[b] /\ reply'[b] = reply[b]
  /\ \A w \in Workflows : w # Wf(c) => store'[w] = store[w] /\ log'[w] = log[w]
  /\ Extends /\ Gathers

\* Lasting guards that pass still pass when evidence is added: a quorum is a lower
\* bound.
LEMMA GuardsStayOpen ==
  ASSUME NEW t, NEW ctx, NEW p, NEW ev \in Tallies, NEW more \in Tallies,
         t.quorum \in Tallies, \A k \in Kinds : more[k] >= ev[k], LastingGuards(t, ctx, p, ev)
  PROVE  LastingGuards(t, ctx, p, more)
<1>1. ASSUME NEW k \in Kinds PROVE more[k] >= t.quorum[k]
  <2>1. ev[k] >= t.quorum[k] /\ more[k] >= ev[k]
    BY DEF LastingGuards
  <2>2. ev[k] \in Nat /\ more[k] \in Nat /\ t.quorum[k] \in Nat
    BY DEF Tallies
  <2> QED BY <2>1, <2>2
<1> QED BY <1>1 DEF LastingGuards

\* Once the gates of submit let a call through, they would as the evidence grows.
LEMMA PermitsStay ==
  ASSUME TypeInv, TypeInv', NEW b \in Calls, NEW inst, Permits(b, inst),
         run[b] \in Runs, run[b].via \in Transitions, Wf(b) \in Workflows,
         run'[b] = run[b], req'[b] = req[b], Gathers
  PROVE  Permits(b, inst)'
<1>1. /\ evidence[Wf(b)] \in Tallies /\ evidence'[Wf(b)] \in Tallies
      /\ \A k \in Kinds : evidence'[Wf(b)][k] >= evidence[Wf(b)][k]
  BY DEF TypeInv, TypeOK, Gathers
<1>2. run[b].via.quorum \in Tallies
  BY DEF Transitions
<1>3. LastingGuards(run[b].via, inst.context, req[b].who, evidence'[Wf(b)])
  BY <1>1, <1>2, GuardsStayOpen DEF Permits
<1> QED BY <1>3 DEF Permits, Wf

\* The invariant of a call survives the step of another that only appends to logs
\* and adds evidence.
LEMMA Bystander ==
  ASSUME TypeInv, TypeInv', NEW b \in Calls, CallInv(b), Starting(b)',
         pc'[b] = pc[b], run'[b] = run[b], req'[b] = req[b], Extends, Gathers
  PROVE  CallInv(b)'
<1>1. CASE pc[b] \in {"define"} \cup Settled \cup Saving
  <2>1. run[b] \in Runs /\ Wf(b) \in Workflows /\ Wf(b)' = Wf(b)
    BY <1>1 DEF TypeInv, TypeOK, LocalsOK, Wf, CallRequests, Settled, Saving
  <2>2. pc[b] \in {"execute", "saveTransition"} => run[b].via \in Transitions
    BY DEF TypeInv, TypeOK, LocalsOK
  <2>3. Snapshot(b)'
    BY <2>1 DEF CallInv, Snapshot, Extends
  <2>4. Prepared(b)'
    BY <2>1 DEF CallInv, Prepared, Extends, Pending, Entry
  <2>5. Cleared(b)'
    <3>1. CASE pc[b] = "execute"
      BY <3>1, <2>1, <2>2, PermitsStay DEF CallInv, Cleared
    <3>2. CASE pc[b] = "saveTransition"
      <4>1. log'[Wf(b)][run[b].inst.version] = log[Wf(b)][run[b].inst.version]
        BY <3>2, <2>1 DEF CallInv, Prepared, Extends, Saving
      <4>2. Permits(b, log[Wf(b)][run[b].inst.version].inst)
            /\ run[b].inst.version = req[b].expected + 1
        BY <3>2 DEF CallInv, Cleared
      <4> DEFINE inst == log[Wf(b)][run[b].inst.version].inst
      <4>3. run[b].via \in Outgoing(run[b].def, inst.state)
            /\ ActorAdmits(run[b].via, req[b].who)
            /\ req[b].args \in run[b].via.accepts \cap run[b].via.given
            /\ LastingGuards(run[b].via, inst.context, req[b].who, evidence[Wf(b)])
        BY <4>2 DEF Permits
      <4>4. LastingGuards(run[b].via, inst.context, req[b].who, evidence'[Wf(b)])
        <5>1. /\ evidence[Wf(b)] \in Tallies /\ evidence'[Wf(b)] \in Tallies
              /\ \A k \in Kinds : evidence'[Wf(b)][k] >= evidence[Wf(b)][k]
          BY <2>1 DEF TypeInv, TypeOK, Gathers
        <5>2. run[b].via.quorum \in Tallies
          BY <3>2, <2>2 DEF Transitions
        <5> HIDE DEF inst
        <5> QED BY <4>3, <5>1, <5>2, GuardsStayOpen
      <4> QED BY <3>2, <2>1, <4>1, <4>2, <4>3, <4>4 DEF Cleared, Permits
    <3>3. CASE pc[b] \notin {"execute", "saveTransition"}
      BY <3>3 DEF Cleared
    <3> QED BY <3>1, <3>2, <3>3
  <2> QED BY <2>3, <2>4, <2>5 DEF CallInv
<1>2. CASE pc[b] \notin {"define"} \cup Settled \cup Saving
  BY <1>2 DEF CallInv, Snapshot, Prepared, Cleared, Settled, Saving
<1> QED BY <1>1, <1>2

-----------------------------------------------------------------------------
\* What a commit does to the store and to the log.
LEMMA CommitAppends ==
  ASSUME TypeInv, NEW c \in Calls, pc[c] \in {"create"} \cup Saving,
         NEW how \in {"create", "transition", "chain", "onEnter", "timeout"},
         Committed(c, how)
  PROVE  /\ Wf(c) \in Workflows /\ Entry(c, how) \in Commits
         /\ log[Wf(c)] \in Seq(Commits) /\ log'[Wf(c)] \in Seq(Commits)
         /\ log'[Wf(c)] = Append(log[Wf(c)], Entry(c, how))
         /\ Len(log'[Wf(c)]) = Len(log[Wf(c)]) + 1
         /\ log'[Wf(c)][Len(log[Wf(c)]) + 1] = Entry(c, how)
         /\ store'[Wf(c)] = run[c].inst
         /\ \A x \in Workflows : x # Wf(c) => store'[x] = store[x] /\ log'[x] = log[x]
         /\ Extends
<1> DEFINE w == Wf(c)
           f == Entry(c, how)
<1>1. w \in Workflows /\ f \in Commits
  BY Holding DEF Commits, Runs, Wf, Entry
<1>2. /\ store' = [store EXCEPT ![w] = run[c].inst] /\ log' = [log EXCEPT ![w] = Append(@, f)]
      /\ log \in [Workflows -> Seq(Commits)] /\ store \in [Workflows -> Instances \cup {NoInstance}]
  BY DEF Committed, TypeInv, TypeOK, Entry
<1> HIDE DEF w, f
<1>3. /\ log'[w] = Append(log[w], f) /\ log[w] \in Seq(Commits)
      /\ store'[w] = run[c].inst
      /\ \A x \in Workflows : x # w => store'[x] = store[x] /\ log'[x] = log[x]
  BY <1>1, <1>2
<1>4. /\ log'[w] \in Seq(Commits) /\ Len(log'[w]) = Len(log[w]) + 1
      /\ log'[w][Len(log[w]) + 1] = f
      /\ \A i \in DOMAIN log[w] : i \in DOMAIN log'[w] /\ log'[w][i] = log[w][i]
  BY <1>1, <1>3
<1>5. Extends
  BY <1>3, <1>4 DEF Extends
<1> QED BY <1>1, <1>3, <1>4, <1>5 DEF w, f

\* A step that leaves store and log alone extends the history (by nothing).
LEMMA StoreUntouched ==
  ASSUME UNCHANGED <<store, log>>
  PROVE  Extends /\ \A w \in Workflows : store'[w] = store[w] /\ log'[w] = log[w]
BY DEF Extends

\* A step that leaves the evidence alone only adds evidence (none).
LEMMA EvidenceUntouched ==
  ASSUME TypeInv, UNCHANGED evidence
  PROVE  Gathers
BY DEF Gathers, TypeInv, TypeOK, Tallies

\* Recording evidence, of a transition or of an onEnter action, only adds.
LEMMA EvidenceGrows ==
  ASSUME TypeInv, NEW c \in Calls, OnEnter(c) \/ RecordEvidence(c)
  PROVE  Gathers
<1>1. /\ evidence \in [Workflows -> [Kinds -> Nat]] /\ run[c].acc \in [Kinds -> Nat]
      /\ Wf(c) \in Workflows
  BY Holding DEF OnEnter, RecordEvidence, Settled, TypeInv, TypeOK, Tallies, Runs
<1>2. CASE OnEnter(c)
  <2>1. PICK e : evidence' = [evidence EXCEPT ![Wf(c)] = AddEvidence(@, e.emits)]
    BY <1>2 DEF OnEnter
  <2> QED BY <1>1, <2>1 DEF Gathers, AddEvidence
<1>3. CASE RecordEvidence(c)
  <2>1. evidence' = [evidence EXCEPT ![Wf(c)] = [k \in Kinds |-> @[k] + run[c].acc[k]]]
    BY <1>3 DEF RecordEvidence
  <2>2. \A k \in Kinds : evidence[Wf(c)][k] + run[c].acc[k] >= evidence[Wf(c)][k]
    BY <1>1
  <2> QED BY <1>1, <2>1, <2>2 DEF Gathers
<1> QED BY <1>2, <1>3

\* The control part of a frame.
Alone(c) ==
  /\ pc[c] # "idle" /\ pc'[c] # "idle" /\ req' = req
  /\ \A b \in Calls : b # c => pc'[b] = pc[b] /\ run'[b] = run[b] /\ reply'[b] = reply[b]

\* A call that moves to another point moves alone.
LEMMA GotoAlone ==
  ASSUME TypeInv, NEW c \in Calls, pc[c] # "idle", NEW point, point # "idle",
         NEW locals, Goto(c, point, locals)
  PROVE  Alone(c) /\ pc'[c] = point /\ run'[c] = locals /\ req' = req
BY DEF Alone, Goto, TypeInv, TypeOK

\* A call that is answered moves alone.
LEMMA AnswerAlone ==
  ASSUME TypeInv, NEW c \in Calls, pc[c] # "idle", NEW r, Answer(c, r)
  PROVE  Alone(c) /\ pc'[c] = "done" /\ reply'[c] = r
BY DEF Alone, Answer, TypeInv, TypeOK

\* A save, passed or not, disturbs no other call.
LEMMA SaveFrame ==
  ASSUME TypeInv, NEW c \in Calls, pc[c] \in Saving, NEW expected,
         NEW how \in {"transition", "chain", "onEnter", "timeout"},
         NEW point, point # "idle", NEW locals, NEW r,
         UNCHANGED evidence,
         \/ save_if_version(c, expected, how) /\ (Goto(c, point, locals) \/ Answer(c, r))
         \/ SaveConflict(c, expected)
  PROVE  Frame(c)
<1>1. pc[c] # "idle"
  BY DEF Saving
<1>2. Alone(c)
  BY <1>1, GotoAlone, AnswerAlone DEF SaveConflict, Bail
<1>3. /\ Extends
      /\ \A w \in Workflows : w # Wf(c) => store'[w] = store[w] /\ log'[w] = log[w]
  BY CommitAppends, StoreUntouched DEF save_if_version, SaveConflict, shared
<1> QED BY <1>2, <1>3, EvidenceUntouched DEF Frame, Alone

\* No step of a call disturbs another: logs are extended and evidence added.
LEMMA StepFrame ==
  ASSUME TypeInv, NEW c \in Calls, Step(c) \/ Fault(c)
  PROVE  Frame(c)
<1>1. CASE Create(c)
  <2>1. /\ pc[c] = "create" /\ Committed(c, "create") /\ UNCHANGED evidence
        /\ Goto(c, "onEnter", run[c])
    BY <1>1 DEF Create
  <2>2. Alone(c)
    BY <2>1, GotoAlone
  <2>3. /\ Extends
        /\ \A w \in Workflows : w # Wf(c) => store'[w] = store[w] /\ log'[w] = log[w]
    BY <2>1, CommitAppends
  <2> QED BY <2>1, <2>2, <2>3, EvidenceUntouched DEF Frame, Alone
<1>2. CASE SaveTimeout(c)
  BY <1>2, SaveFrame DEF SaveTimeout, Saving, SaveConflict, shared
<1>3. CASE SaveTransition(c)
  BY <1>3, SaveFrame DEF SaveTransition, Saving, SaveConflict, shared
<1>4. CASE SaveOnEnter(c)
  BY <1>4, SaveFrame DEF SaveOnEnter, Saving, SaveConflict, shared
<1>5. CASE SaveChainStep(c)
  BY <1>5, SaveFrame DEF SaveChainStep, Saving, SaveConflict, shared
<1>6. CASE OnEnter(c) \/ RecordEvidence(c)
  <2>1. UNCHANGED <<store, log>> /\ pc[c] # "idle"
    BY <1>6 DEF OnEnter, RecordEvidence
  <2>2. Alone(c)
    BY <1>6, <2>1, GotoAlone DEF OnEnter, RecordEvidence
  <2> QED BY <1>6, <2>1, <2>2, StoreUntouched, EvidenceGrows DEF Frame, Alone
<1>7. CASE \/ Admit(c) \/ LoadInstance(c) \/ LoadDefinition(c) \/ Get(c) \/ Gate(c)
           \/ ExecuteFails(c) \/ Execute(c) \/ SkipOnEnter(c) \/ OnEnterFails(c)
           \/ Entered(c) \/ SelectionFails(c) \/ ChainStepFails(c) \/ ChainStep(c)
           \/ Finish(c) \/ Fault(c)
  <2>1. UNCHANGED <<store, log, evidence>> /\ pc[c] # "idle"
    BY <1>7 DEF Admit, LoadInstance, LoadDefinition, Get, Gate, Refuse, ExecuteFails,
                Execute, SkipOnEnter, OnEnterFails, Entered, SelectionFails,
                ChainStepFails, ChainStep, Finish, Fault, shared
  <2>2. (\E r : Answer(c, r)) \/ \E point, locals : point # "idle" /\ Goto(c, point, locals)
    <3>1. CASE Admit(c) \/ LoadInstance(c) \/ LoadDefinition(c) \/ Get(c)
      BY <3>1 DEF Admit, LoadInstance, LoadDefinition, Get, Bail
    <3>2. CASE Gate(c) \/ ExecuteFails(c) \/ Execute(c)
      BY <3>2 DEF Gate, Refuse, ExecuteFails, Execute
    <3>3. CASE SkipOnEnter(c) \/ OnEnterFails(c) \/ Entered(c) \/ Finish(c) \/ Fault(c)
      BY <3>3 DEF SkipOnEnter, OnEnterFails, Entered, Finish, Fault, Bail
    <3>4. CASE SelectionFails(c) \/ ChainStepFails(c) \/ ChainStep(c)
      BY <3>4 DEF SelectionFails, ChainStepFails, ChainFailed, ChainStep
    <3> QED BY <1>7, <3>1, <3>2, <3>3, <3>4
  <2>3. Alone(c)
    BY <2>1, <2>2, GotoAlone, AnswerAlone
  <2> QED BY <2>1, <2>3, StoreUntouched, EvidenceUntouched DEF Frame, Alone
<1> QED BY <1>1, <1>2, <1>3, <1>4, <1>5, <1>6, <1>7 DEF Step

\* A step of one call keeps the invariant of every other.
LEMMA OthersKeep ==
  ASSUME TypeInv, TypeInv', HistoryInv, NEW c \in Calls, Frame(c),
         NEW b \in Calls, b # c
  PROVE  CallInv(b)'
<1>1. pc'[b] = pc[b] /\ run'[b] = run[b] /\ req'[b] = req[b] /\ CallInv(b)
  BY DEF Frame, HistoryInv
<1>2. Starting(b)'
  <2> SUFFICES ASSUME pc[b] \in {"admit", "create"} PROVE Starting(b)'
    BY <1>1 DEF Starting
  <2>1. /\ store[Wf(b)] = NoInstance
        /\ \A d \in Calls : d # b /\ pc[d] # "idle" => req[d].wf # req[b].wf
        /\ pc[b] = "create" => run[b].inst = Fresh(run[b].def)
    BY <1>1 DEF CallInv, Starting
  <2>2. Wf(b) \in Workflows /\ Wf(c) # Wf(b)
    BY <2>1 DEF TypeInv, TypeOK, LocalsOK, Wf, CallRequests, Frame
  <2>3. store'[Wf(b)] = NoInstance
    BY <2>1, <2>2 DEF Frame
  <2>4. \A d \in Calls : d # b /\ pc'[d] # "idle" => req'[d].wf # req'[b].wf
    BY <2>1 DEF Frame
  <2> QED BY <1>1, <2>1, <2>3, <2>4 DEF Starting, Wf
<1> QED BY <1>1, <1>2, Bystander DEF Frame

\* A step that leaves store and log alone keeps the history linear.
LEMMA HistoryUnchanged ==
  ASSUME LinearHistory, UNCHANGED <<store, log>>
  PROVE  LinearHistory'
BY DEF LinearHistory

\* The last committed version is the stored one.
LEMMA Last ==
  ASSUME TypeInv, LinearHistory, NEW w \in Workflows, store[w] # NoInstance
  PROVE  /\ log[w] \in Seq(Commits) /\ Len(log[w]) \in Nat \ {0}
         /\ store[w] = log[w][Len(log[w])].inst
         /\ store[w].version = Len(log[w]) - 1
<1>1. log[w] # <<>> /\ store[w] = log[w][Len(log[w])].inst /\ log[w] \in Seq(Commits)
  BY DEF LinearHistory, TypeInv, TypeOK
<1>2. Len(log[w]) \in Nat \ {0} /\ Len(log[w]) \in DOMAIN log[w]
  BY <1>1
<1>3. log[w][Len(log[w])].inst.version = Len(log[w]) - 1
  BY <1>2 DEF LinearHistory
<1> QED BY <1>1, <1>2, <1>3

\* A save that passes its version check extends the history by a legal step, and
\* leaves the call holding the version it committed.
LEMMA SaveHistory ==
  ASSUME TypeInv, HistoryInv, NEW c \in Calls, pc[c] \in Saving,
         save_if_version(c, run[c].inst.version - 1, How(pc[c]))
  PROVE  /\ LinearHistory'
         /\ run[c].inst.version + 1 \in DOMAIN log'[Wf(c)]
         /\ log'[Wf(c)][run[c].inst.version + 1].inst = run[c].inst
         /\ log'[Wf(c)][run[c].inst.version + 1].by = c
         /\ log[Wf(c)][run[c].inst.version].inst = store[Wf(c)]
         /\ Len(log[Wf(c)]) = run[c].inst.version
         /\ LegalStep(store[Wf(c)], Pending(c))
<1> DEFINE w == Wf(c)
           n == Len(log[w])
           f == Pending(c)
<1>1. How(pc[c]) \in {"transition", "chain", "onEnter", "timeout"}
  BY DEF How, Saving
<1>2. Committed(c, How(pc[c])) /\ store[w].version = run[c].inst.version - 1
  BY DEF save_if_version, stored
<1>3. /\ w \in Workflows /\ f \in Commits
      /\ log'[w] = Append(log[w], f) /\ Len(log'[w]) = n + 1 /\ log'[w][n + 1] = f
      /\ log[w] \in Seq(Commits) /\ log'[w] \in Seq(Commits)
      /\ store'[w] = run[c].inst
      /\ \A x \in Workflows : x # w => store'[x] = store[x] /\ log'[x] = log[x]
      /\ Extends
  BY <1>1, <1>2, CommitAppends DEF Pending
<1>4. store[w] # NoInstance /\ run[c].inst \in Instances
  BY Holding, <1>3 DEF Saving
<1>5. n \in Nat \ {0} /\ store[w] = log[w][n].inst /\ store[w].version = n - 1
  BY <1>3, <1>4, Last DEF HistoryInv
<1>6. run[c].inst.version = n
  BY <1>2, <1>4, <1>5 DEF Instances
<1>7. LegalStep(log[w][n].inst, f)
  BY <1>6 DEF HistoryInv, CallInv, Prepared
<1>8. f.inst = run[c].inst /\ f.by = c
  BY DEF Pending, Entry
<1> HIDE DEF w, n, f
<1>9. LinearHistory'
  <2> SUFFICES ASSUME NEW x \in Workflows
               PROVE  /\ store'[x] = IF log'[x] = <<>> THEN NoInstance
                                                       ELSE log'[x][Len(log'[x])].inst
                      /\ \A i \in DOMAIN log'[x] :
                           /\ log'[x][i].inst.version = i - 1
                           /\ IF i = 1 THEN log'[x][i].how = "create"
                                       ELSE LegalStep(log'[x][i - 1].inst, log'[x][i])
    BY DEF LinearHistory, LegalStep
  <2>1. CASE x # w
    BY <2>1, <1>3 DEF HistoryInv, LinearHistory
  <2>2. CASE x = w
    <3>1. log'[w] # <<>> /\ store'[w] = log'[w][Len(log'[w])].inst
      BY <1>3, <1>5, <1>8
    <3>2. ASSUME NEW i \in DOMAIN log'[w]
          PROVE  /\ log'[w][i].inst.version = i - 1
                 /\ IF i = 1 THEN log'[w][i].how = "create"
                             ELSE LegalStep(log'[w][i - 1].inst, log'[w][i])
      <4>0. i \in 1..(n + 1) /\ i \in Nat
        BY <1>3, <1>5
      <4>1. CASE i = n + 1
        <5>1. i # 1 /\ i - 1 = n /\ n \in DOMAIN log[w]
          BY <4>1, <1>3, <1>5
        <5>2. log'[w][n] = log[w][n]
          BY <5>1, <1>3 DEF Extends
        <5> QED BY <4>1, <5>1, <5>2, <1>3, <1>6, <1>7, <1>8
      <4>2. CASE i # n + 1
        <5>1. i \in DOMAIN log[w] /\ (i # 1 => i - 1 \in DOMAIN log[w])
          BY <4>0, <4>2, <1>3, <1>5
        <5>2. log'[w][i] = log[w][i] /\ (i # 1 => log'[w][i - 1] = log[w][i - 1])
          BY <5>1, <1>3 DEF Extends
        <5> QED BY <5>1, <5>2, <1>3 DEF HistoryInv, LinearHistory
      <4> QED BY <4>1, <4>2
    <3> QED BY <2>2, <3>1, <3>2
  <2> QED BY <2>1, <2>2
<1>10. n + 1 \in DOMAIN log'[w]
  BY <1>3, <1>5
<1> QED BY <1>3, <1>5, <1>6, <1>7, <1>8, <1>9, <1>10 DEF w, n, f

-----------------------------------------------------------------------------
\* The invariant of the call that steps, by where it arrives.
LEMMA AtDone ==
  ASSUME NEW c \in Calls, pc'[c] = "done"
  PROVE  CallInv(c)'
BY DEF CallInv, Starting, Snapshot, Prepared, Cleared, Settled, Saving

\* A call keeps its invariant when it arrives at a point between saves holding a
\* committed version.
LEMMA AtSettled ==
  ASSUME NEW c \in Calls, pc'[c] \in {"define"} \cup (Settled \ {"execute"}), req' = req,
         run'[c].inst.version + 1 \in DOMAIN log'[Wf(c)],
         log'[Wf(c)][run'[c].inst.version + 1].inst = run'[c].inst
  PROVE  CallInv(c)'
BY DEF CallInv, Starting, Snapshot, Prepared, Cleared, Settled, Saving, Wf

\* A call keeps its invariant when it arrives at a save with a legal successor of a
\* committed version.
LEMMA AtSaving ==
  ASSUME NEW c \in Calls, pc'[c] \in Saving \ {"saveTransition"}, req' = req,
         run'[c].inst.version \in DOMAIN log'[Wf(c)],
         LegalStep(log'[Wf(c)][run'[c].inst.version].inst, Pending(c)')
  PROVE  CallInv(c)'
BY DEF CallInv, Starting, Snapshot, Prepared, Cleared, Settled, Saving, Wf, LegalStep

\* A save and its conflict, whatever comes after it.
LEMMA SaveKeeps ==
  ASSUME TypeInv, HistoryInv, NEW c \in Calls, pc[c] \in Saving,
         NEW point \in Settled \ {"execute"}, NEW locals, locals.inst = run[c].inst, NEW r,
         \/ /\ save_if_version(c, run[c].inst.version - 1, How(pc[c]))
            /\ Goto(c, point, locals) \/ Answer(c, r)
         \/ SaveConflict(c, run[c].inst.version - 1)
  PROVE  CallInv(c)' /\ LinearHistory'
<1>1. CASE SaveConflict(c, run[c].inst.version - 1)
  <2>1. UNCHANGED <<store, log>> /\ pc'[c] = "done"
    BY <1>1, AnswerAlone DEF SaveConflict, Bail, shared, Saving
  <2> QED BY <2>1, AtDone, HistoryUnchanged DEF HistoryInv
<1>2. CASE save_if_version(c, run[c].inst.version - 1, How(pc[c]))
            /\ (Goto(c, point, locals) \/ Answer(c, r))
  <2>1. /\ LinearHistory'
        /\ run[c].inst.version + 1 \in DOMAIN log'[Wf(c)]
        /\ log'[Wf(c)][run[c].inst.version + 1].inst = run[c].inst
    BY <1>2, SaveHistory
  <2>2. CASE Answer(c, r)
    BY <2>1, <2>2, AnswerAlone, AtDone DEF Saving
  <2>3. CASE Goto(c, point, locals)
    <3>1. pc'[c] = point /\ run'[c] = locals /\ req' = req
      BY <2>3, GotoAlone DEF Saving, Settled, Goto
    <3> QED BY <2>1, <3>1, AtSettled
  <2> QED BY <1>2, <2>1, <2>2, <2>3
<1> QED BY <1>1, <1>2

\* Admitting a start and creating its instance keep the history and the call's
\* invariant: nobody else holds the id.
LEMMA StartKeeps ==
  ASSUME TypeInv, HistoryInv, NEW c \in Calls, Admit(c) \/ Create(c)
  PROVE  CallInv(c)' /\ LinearHistory'
<1>0. Starting(c) /\ Frame(c)
  BY StepFrame DEF HistoryInv, CallInv, Step
<1>1. CASE Admit(c)
  <2>1. pc[c] = "admit" /\ UNCHANGED <<store, log>>
    BY <1>1 DEF Admit, shared
  <2>2. LinearHistory'
    BY <2>1, HistoryUnchanged DEF HistoryInv
  <2>3. CASE \E r : Answer(c, r)
    BY <2>1, <2>2, <2>3, AnswerAlone, AtDone
  <2>4. ASSUME Goto(c, "create", [inst |-> Fresh(live), def |-> live, via |-> NoVia,
                                  acc |-> NoEvidence, steps |-> 0, caller |-> "start"])
        PROVE  CallInv(c)'
    <3>1. pc'[c] = "create" /\ run'[c].inst = Fresh(live) /\ run'[c].def = live
      BY <2>1, <2>4, GotoAlone
    <3>2. store'[Wf(c)] = NoInstance /\ req' = req
      BY <1>0, <2>1 DEF Starting, Frame
    <3>3. \A b \in Calls : b # c /\ pc'[b] # "idle" => req'[b].wf # req'[c].wf
      BY <1>0, <2>1 DEF Starting, Frame
    <3> QED BY <3>1, <3>2, <3>3
            DEF CallInv, Starting, Snapshot, Prepared, Cleared, Settled, Saving, Wf, Fresh
  <2> QED BY <1>1, <2>2, <2>3, <2>4 DEF Admit, Bail
<1>2. CASE Create(c)
  <2> DEFINE w == Wf(c)
             f == Entry(c, "create")
  <2>1. pc[c] = "create" /\ Committed(c, "create") /\ Goto(c, "onEnter", run[c])
    BY <1>2 DEF Create
  <2>2. /\ w \in Workflows /\ log[w] \in Seq(Commits) /\ log'[w] = Append(log[w], f)
        /\ store'[w] = run[c].inst /\ f \in Commits
        /\ \A x \in Workflows : x # w => store'[x] = store[x] /\ log'[x] = log[x]
    BY <2>1, CommitAppends
  <2>3. store[w] = NoInstance /\ run[c].inst = Fresh(run[c].def)
    BY <1>0, <2>1 DEF Starting
  <2>4. log[w] = <<>>
    <3> SUFFICES ASSUME log[w] # <<>> PROVE FALSE
      OBVIOUS
    <3>1. store[w] = log[w][Len(log[w])].inst
      BY <2>2 DEF HistoryInv, LinearHistory
    <3>2. log[w][Len(log[w])] \in Commits
      BY <2>2
    <3> QED BY <2>3, <3>1, <3>2, AbsentAssumption DEF Commits
  <2>5. run[c].inst.version = 0 /\ f.inst = run[c].inst /\ f.how = "create"
    BY <2>3 DEF Fresh, Entry
  <2> HIDE DEF w, f
  <2>6. log'[w] = <<f>> /\ Len(log'[w]) = 1 /\ DOMAIN log'[w] = {1} /\ log'[w][1] = f
    BY <2>2, <2>4
  <2>7. LinearHistory'
    <3> SUFFICES ASSUME NEW x \in Workflows
                 PROVE  /\ store'[x] = IF log'[x] = <<>> THEN NoInstance
                                                         ELSE log'[x][Len(log'[x])].inst
                        /\ \A i \in DOMAIN log'[x] :
                             /\ log'[x][i].inst.version = i - 1
                             /\ IF i = 1 THEN log'[x][i].how = "create"
                                         ELSE LegalStep(log'[x][i - 1].inst, log'[x][i])
      BY DEF LinearHistory, LegalStep
    <3>1. CASE x # w
      BY <3>1, <2>2 DEF HistoryInv, LinearHistory
    <3>2. CASE x = w
      <4>1. log'[w] # <<>>
        BY <2>6
      <4> QED BY <4>1, <3>2, <2>2, <2>5, <2>6
    <3> QED BY <3>1, <3>2
  <2>8. pc'[c] = "onEnter" /\ run'[c] = run[c] /\ req' = req
    BY <2>1, GotoAlone DEF Goto
  <2>9. run[c].inst.version + 1 \in DOMAIN log'[w] /\ log'[w][run[c].inst.version + 1].inst = run[c].inst
    BY <2>5, <2>6
  <2> QED BY <2>7, <2>8, <2>9, AtSettled DEF Settled, w
<1> QED BY <1>1, <1>2

\* So do loading the instance and the definition, the lazy timeout and get.
LEMMA LoadKeeps ==
  ASSUME TypeInv, HistoryInv, NEW c \in Calls,
         LoadInstance(c) \/ LoadDefinition(c) \/ SaveTimeout(c) \/ Get(c)
  PROVE  CallInv(c)' /\ LinearHistory'
<1>1. CASE LoadInstance(c)
  <2>1. /\ pc[c] = "load" /\ UNCHANGED <<store, log>>
        /\ Goto(c, "define", [inst |-> stored(c), def |-> NoDef, via |-> NoVia,
                              acc |-> NoEvidence, steps |-> 0, caller |-> "submit"])
    BY <1>1 DEF LoadInstance, shared
  <2>2. pc'[c] = "define" /\ run'[c].inst = store[Wf(c)] /\ req' = req
    BY <2>1, GotoAlone DEF stored
  <2>3. Wf(c) \in Workflows /\ store[Wf(c)] # NoInstance
    BY <2>1 DEF TypeInv, TypeOK, Seen, LocalsOK, Wf, CallRequests
  <2>4. /\ log[Wf(c)] \in Seq(Commits) /\ Len(log[Wf(c)]) \in Nat \ {0}
        /\ store[Wf(c)] = log[Wf(c)][Len(log[Wf(c)])].inst
        /\ store[Wf(c)].version = Len(log[Wf(c)]) - 1
    BY <2>3, Last DEF HistoryInv
  <2>5. store[Wf(c)].version + 1 = Len(log[Wf(c)]) /\ Len(log[Wf(c)]) \in DOMAIN log[Wf(c)]
    BY <2>4
  <2>6. CallInv(c)'
    BY <2>1, <2>2, <2>4, <2>5, AtSettled
  <2> QED BY <2>1, <2>6, HistoryUnchanged DEF HistoryInv
<1>2. CASE LoadDefinition(c)
  <2>1. /\ pc[c] = "define" /\ UNCHANGED <<store, log>> /\ live \in Defs
        /\ run[c] \in Runs /\ run[c].inst \in Instances
    <3>1. pc[c] = "define" /\ UNCHANGED <<store, log>>
      BY <1>2 DEF LoadDefinition, shared
    <3>2. run[c] \in Runs
      BY <3>1 DEF TypeInv, TypeOK, LocalsOK
    <3>3. run[c].inst \in Instances
      <4>1. store[Wf(c)] # NoInstance /\ Wf(c) \in Workflows
        BY <3>1 DEF TypeInv, TypeOK, Seen, LocalsOK, Wf, CallRequests
      <4> QED BY <3>2, <4>1 DEF Runs
    <3> QED BY <3>1, <3>2, <3>3 DEF TypeInv, TypeOK
  <2>2. /\ run[c].inst.version + 1 \in DOMAIN log[Wf(c)]
        /\ log[Wf(c)][run[c].inst.version + 1].inst = run[c].inst
    BY <2>1 DEF HistoryInv, CallInv, Snapshot
  <2>3. ASSUME TimeoutFires(c), NEW s \in Definitions[live].onTimeout,
               Goto(c, "saveTimeout",
                 [run[c] EXCEPT !.def = live, !.inst = Successor(@,
                    [state |-> s, context |-> @.context])])
        PROVE  CallInv(c)'
    <3> DEFINE inst == Successor(run[c].inst, [state |-> s, context |-> run[c].inst.context])
    <3>1. pc'[c] = "saveTimeout" /\ req' = req /\ run'[c] = [run[c] EXCEPT !.def = live, !.inst = inst]
      BY <2>1, <2>3, GotoAlone DEF Goto, Runs
    <3>2. run'[c].def = live /\ run'[c].inst = inst
      BY <2>1, <3>1 DEF Runs
    <3>3. inst.version = run[c].inst.version + 1
      BY DEF Successor
    <3>4. LegalStep(run[c].inst, Pending(c)')
      BY <2>3, <3>1, <3>2 DEF LegalStep, Pending, Entry, How, TimeoutFires
    <3> QED BY <2>1, <2>2, <3>1, <3>2, <3>3, <3>4, AtSaving DEF Saving
  <2>4. ASSUME NEW point \in {"respond", "gate"}, Goto(c, point, [run[c] EXCEPT !.def = live])
        PROVE  CallInv(c)'
    <3>1. pc'[c] = point /\ req' = req /\ run'[c] = [run[c] EXCEPT !.def = live]
      BY <2>1, <2>4, GotoAlone
    <3>2. run'[c].inst = run[c].inst
      BY <2>1, <3>1 DEF Runs
    <3> QED BY <2>1, <2>2, <3>1, <3>2, AtSettled DEF Settled
  <2>5. CallInv(c)'
    BY <1>2, <2>3, <2>4 DEF LoadDefinition
  <2> QED BY <2>1, <2>5, HistoryUnchanged DEF HistoryInv
<1>3. CASE SaveTimeout(c)
  BY <1>3, SaveKeeps DEF SaveTimeout, Saving, Settled, How
<1>4. CASE Get(c)
  <2>1. pc[c] = "respond" /\ UNCHANGED <<store, log>> /\ pc'[c] = "done"
    BY <1>4, AnswerAlone DEF Get, shared
  <2> QED BY <2>1, AtDone, HistoryUnchanged DEF HistoryInv
<1> QED BY <1>1, <1>2, <1>3, <1>4

\* So do the gates of submit and its executor.
LEMMA GateKeeps ==
  ASSUME TypeInv, HistoryInv, NEW c \in Calls, Gate(c) \/ ExecuteFails(c) \/ Execute(c)
  PROVE  CallInv(c)' /\ LinearHistory'
<1>0. UNCHANGED <<store, log>> /\ LinearHistory' /\ pc[c] \in Settled
  BY HistoryUnchanged DEF HistoryInv, Gate, Refuse, ExecuteFails, Execute, shared, Settled
<1>1. /\ run[c].inst.version + 1 \in DOMAIN log[Wf(c)]
      /\ log[Wf(c)][run[c].inst.version + 1].inst = run[c].inst
      /\ run[c] \in Runs
  BY <1>0, Holding DEF HistoryInv, CallInv, Snapshot
<1>2. CASE Gate(c)
  <2>1. pc[c] = "gate"
    BY <1>2 DEF Gate
  <2>2. CASE \E r : Answer(c, r)
    BY <1>0, <2>1, <2>2, AnswerAlone, AtDone
  <2>3. ASSUME NEW t \in Named(c), Verdict(c, t) = "none", run[c].inst.version = req[c].expected,
               Goto(c, "execute", [run[c] EXCEPT !.via = t]), UNCHANGED <<shared, faults>>
        PROVE  CallInv(c)'
    <3>1. pc'[c] = "execute" /\ req' = req /\ run'[c] = [run[c] EXCEPT !.via = t]
      BY <2>1, <2>3, GotoAlone DEF Goto
    <3>2. run'[c].via = t /\ run'[c].inst = run[c].inst /\ run'[c].def = run[c].def
      BY <1>1, <3>1 DEF Runs
    <3>3. t \in Outgoing(run[c].def, run[c].inst.state)
      BY DEF Named, transition_definition
    <3>4. /\ ActorAdmits(t, req[c].who) /\ req[c].args \in t.accepts \cap t.given
          /\ LastingGuards(t, run[c].inst.context, req[c].who, evidence[Wf(c)])
      BY <2>3 DEF Verdict, GuardsPass
    <3>5. Permits(c, run[c].inst)'
      BY <2>3, <3>1, <3>2, <3>3, <3>4 DEF Permits, Wf, shared
    <3>6. Snapshot(c)'
      BY <1>0, <1>1, <3>1, <3>2 DEF Snapshot, Wf
    <3> QED BY <2>3, <3>1, <3>2, <3>5, <3>6
            DEF CallInv, Starting, Prepared, Cleared, Settled, Saving
  <2> QED BY <1>0, <1>2, <2>2, <2>3 DEF Gate, Refuse
<1>3. CASE ExecuteFails(c)
  BY <1>0, <1>3, AnswerAlone, AtDone DEF ExecuteFails
<1>4. CASE Execute(c)
  <2>1. pc[c] = "execute" /\ UNCHANGED <<store, log, evidence>>
    BY <1>4 DEF Execute, shared
  <2>2. PICK out \in Outcomes(run[c].via, run[c].inst.context) :
          Goto(c, "saveTransition",
               [run[c] EXCEPT !.inst = Successor(@, out),
                              !.acc = AddEvidence(@, Emitted(run[c].via))])
    BY <1>4 DEF Execute
  <2>3. /\ pc'[c] = "saveTransition" /\ req' = req
        /\ run'[c].inst = Successor(run[c].inst, out) /\ run'[c].via = run[c].via
        /\ run'[c].def = run[c].def
    <3>1. /\ pc'[c] = "saveTransition" /\ req' = req
          /\ run'[c] = [run[c] EXCEPT !.inst = Successor(@, out),
                                      !.acc = AddEvidence(@, Emitted(run[c].via))]
      BY <2>1, <2>2, GotoAlone
    <3> QED BY <1>1, <3>1 DEF Runs
  <2>4. run'[c].inst.version = run[c].inst.version + 1
    BY <2>3 DEF Successor
  <2>5. run[c].inst.version = req[c].expected /\ Permits(c, run[c].inst)
    BY <2>1 DEF HistoryInv, CallInv, Cleared
  <2>6. log'[Wf(c)'][run'[c].inst.version].inst = run[c].inst /\ Wf(c)' = Wf(c)
    BY <1>1, <2>1, <2>3, <2>4 DEF Wf
  <2>7. Prepared(c)'
    <3>1. run'[c].inst.version \in DOMAIN log'[Wf(c)']
      BY <1>1, <2>1, <2>4, <2>6
    <3>2. LegalStep(run[c].inst, Pending(c)')
      BY <2>2, <2>3, <2>5 DEF LegalStep, Pending, Entry, How, Permits
    <3> QED BY <2>6, <3>1, <3>2 DEF Prepared, LegalStep
  <2>8. Cleared(c)'
    BY <2>1, <2>3, <2>4, <2>5, <2>6 DEF Cleared, Permits
  <2> QED BY <1>0, <2>3, <2>7, <2>8 DEF CallInv, Starting, Snapshot, Settled, Saving
<1> QED BY <1>2, <1>3, <1>4

\* What submit compares the stored version with is the version its instance came from.
LEMMA ExpectedIsBase ==
  ASSUME TypeInv, HistoryInv, NEW c \in Calls, pc[c] = "saveTransition"
  PROVE  req[c].expected = run[c].inst.version - 1
<1>1. req[c].expected \in Nat /\ run[c].inst.version \in Nat
  BY Holding DEF CallRequests, Instances, Saving
<1>2. run[c].inst.version = req[c].expected + 1
  BY DEF HistoryInv, CallInv, Cleared
<1> QED BY <1>1, <1>2

\* Saving a transition and recording its evidence keep them.
LEMMA CommitKeeps ==
  ASSUME TypeInv, HistoryInv, NEW c \in Calls, SaveTransition(c) \/ RecordEvidence(c)
  PROVE  CallInv(c)' /\ LinearHistory'
<1>1. CASE SaveTransition(c)
  <2>1. pc[c] = "saveTransition" /\ How(pc[c]) = "transition"
    BY <1>1 DEF SaveTransition, How
  <2>2. req[c].expected = run[c].inst.version - 1
    BY <2>1, ExpectedIsBase
  <2> QED BY <1>1, <2>1, <2>2, SaveKeeps DEF SaveTransition, Saving, Settled
<1>2. CASE RecordEvidence(c)
  <2>1. pc[c] = "evidence" /\ UNCHANGED <<store, log>> /\ run[c] \in Runs
    BY <1>2, Holding DEF RecordEvidence, Settled
  <2>2. /\ run[c].inst.version + 1 \in DOMAIN log[Wf(c)]
        /\ log[Wf(c)][run[c].inst.version + 1].inst = run[c].inst
    BY <2>1 DEF HistoryInv, CallInv, Snapshot, Settled
  <2>3. PICK locals \in {run[c], [run[c] EXCEPT !.acc = NoEvidence]} : Goto(c, "onEnter", locals)
    BY <1>2 DEF RecordEvidence
  <2>4. locals.inst = run[c].inst
    BY <2>1 DEF Runs
  <2>5. pc'[c] = "onEnter" /\ req' = req /\ run'[c] = locals
    BY <2>1, <2>3, GotoAlone
  <2>6. CallInv(c)'
    BY <2>1, <2>2, <2>4, <2>5, AtSettled DEF Settled
  <2> QED BY <2>1, <2>6, HistoryUnchanged DEF HistoryInv
<1> QED BY <1>1, <1>2

\* run_on_enter keeps them.
LEMMA EnterKeeps ==
  ASSUME TypeInv, HistoryInv, NEW c \in Calls,
         SkipOnEnter(c) \/ OnEnterFails(c) \/ OnEnter(c) \/ SaveOnEnter(c) \/ Entered(c)
  PROVE  CallInv(c)' /\ LinearHistory'
<1>1. CASE SkipOnEnter(c) \/ Entered(c)
  <2>1. pc[c] \in {"onEnter", "entered"} /\ UNCHANGED <<store, log>> /\ run[c] \in Runs
    BY <1>1, Holding DEF SkipOnEnter, Entered, Settled, shared
  <2>2. /\ run[c].inst.version + 1 \in DOMAIN log[Wf(c)]
        /\ log[Wf(c)][run[c].inst.version + 1].inst = run[c].inst
    BY <2>1 DEF HistoryInv, CallInv, Snapshot, Settled
  <2>3. PICK locals \in {run[c], [run[c] EXCEPT !.caller = "chain"]} :
          \E point \in {"entered", "chain", "finish"} : Goto(c, point, locals)
    BY <1>1 DEF SkipOnEnter, Entered
  <2>4. locals.inst = run[c].inst
    BY <2>1 DEF Runs
  <2>5. pc'[c] \in {"entered", "chain", "finish"} /\ req' = req /\ run'[c] = locals
    BY <2>1, <2>3, GotoAlone
  <2>6. CallInv(c)'
    BY <2>1, <2>2, <2>4, <2>5, AtSettled DEF Settled
  <2> QED BY <2>1, <2>6, HistoryUnchanged DEF HistoryInv
<1>2. CASE OnEnterFails(c)
  <2>1. pc[c] = "onEnter" /\ UNCHANGED <<store, log>>
    BY <1>2 DEF OnEnterFails, shared
  <2> QED BY <1>2, <2>1, AnswerAlone, AtDone, HistoryUnchanged DEF OnEnterFails, Bail, HistoryInv
<1>3. CASE OnEnter(c)
  <2>1. pc[c] = "onEnter" /\ UNCHANGED <<store, log>> /\ run[c] \in Runs
    BY <1>3, Holding DEF OnEnter, Settled
  <2>2. /\ run[c].inst.version + 1 \in DOMAIN log[Wf(c)]
        /\ log[Wf(c)][run[c].inst.version + 1].inst = run[c].inst
    BY <2>1 DEF HistoryInv, CallInv, Snapshot, Settled
  <2>3. PICK e \in EntryActions(c) : \E new \in Merge(run[c].inst.context, e.output) :
          Goto(c, "saveEnter",
               [run[c] EXCEPT !.inst = Successor(run[c].inst,
                  [state |-> run[c].inst.state, context |-> new])])
    BY <1>3 DEF OnEnter
  <2>4. PICK new \in Merge(run[c].inst.context, e.output) :
          Goto(c, "saveEnter",
               [run[c] EXCEPT !.inst = Successor(run[c].inst,
                  [state |-> run[c].inst.state, context |-> new])])
    BY <2>3
  <2> DEFINE inst == Successor(run[c].inst, [state |-> run[c].inst.state, context |-> new])
  <2>5. pc'[c] = "saveEnter" /\ req' = req /\ run'[c] = [run[c] EXCEPT !.inst = inst]
    BY <2>1, <2>4, GotoAlone
  <2>6. run'[c].inst = inst /\ run'[c].def = run[c].def
    BY <2>1, <2>5 DEF Runs
  <2>7. inst.version = run[c].inst.version + 1
    BY DEF Successor
  <2>8. e \in Definitions[run[c].def].onEnter /\ e.state = run[c].inst.state
    BY DEF EntryActions, Def
  <2>9. LegalStep(run[c].inst, Pending(c)')
    BY <2>4, <2>5, <2>6, <2>8 DEF LegalStep, Pending, Entry, How
  <2>10. CallInv(c)'
    BY <2>1, <2>2, <2>5, <2>6, <2>7, <2>9, AtSaving DEF Saving
  <2> QED BY <2>1, <2>10, HistoryUnchanged DEF HistoryInv
<1>4. CASE SaveOnEnter(c)
  BY <1>4, SaveKeeps DEF SaveOnEnter, Saving, Settled, How
<1> QED BY <1>1, <1>2, <1>3, <1>4

\* The deterministic chain and the answer after it keep them.
LEMMA ChainKeeps ==
  ASSUME TypeInv, HistoryInv, NEW c \in Calls,
         \/ SelectionFails(c) \/ ChainStepFails(c) \/ ChainStep(c) \/ SaveChainStep(c)
         \/ Finish(c)
  PROVE  CallInv(c)' /\ LinearHistory'
<1>1. CASE SelectionFails(c) \/ ChainStepFails(c) \/ Finish(c)
  <2>1. /\ pc[c] \in {"chain", "finish"} /\ UNCHANGED <<store, log>>
        /\ \E r : Answer(c, r)
    BY <1>1 DEF SelectionFails, ChainStepFails, ChainFailed, Finish, shared
  <2>2. pc'[c] = "done"
    BY <2>1, AnswerAlone
  <2> QED BY <2>1, <2>2, AtDone, HistoryUnchanged DEF HistoryInv
<1>2. CASE ChainStep(c)
  <2>1. pc[c] = "chain" /\ UNCHANGED <<store, log>> /\ run[c] \in Runs
    BY <1>2, Holding DEF ChainStep, Settled, shared
  <2>2. /\ run[c].inst.version + 1 \in DOMAIN log[Wf(c)]
        /\ log[Wf(c)][run[c].inst.version + 1].inst = run[c].inst
    BY <2>1 DEF HistoryInv, CallInv, Snapshot, Settled
  <2>3. PICK t \in Selected(c) : \E out \in Outcomes(t, run[c].inst.context) :
          Goto(c, "saveChain", [run[c] EXCEPT !.inst = Successor(@, out), !.via = t,
                                              !.acc = AddEvidence(@, Emitted(t))])
    BY <1>2 DEF ChainStep
  <2>4. PICK out \in Outcomes(t, run[c].inst.context) :
          Goto(c, "saveChain", [run[c] EXCEPT !.inst = Successor(@, out), !.via = t,
                                              !.acc = AddEvidence(@, Emitted(t))])
    BY <2>3
  <2>5. /\ pc'[c] = "saveChain" /\ req' = req
        /\ run'[c] = [run[c] EXCEPT !.inst = Successor(@, out), !.via = t,
                                    !.acc = AddEvidence(@, Emitted(t))]
    BY <2>1, <2>4, GotoAlone
  <2>6. run'[c].inst = Successor(run[c].inst, out) /\ run'[c].via = t /\ run'[c].def = run[c].def
    BY <2>1, <2>5 DEF Runs
  <2>7. run'[c].inst.version = run[c].inst.version + 1
    BY <2>6 DEF Successor
  <2>8. t \in Outgoing(run[c].def, run[c].inst.state)
    BY DEF Selected, select_deterministic_transition, Viable
  <2>9. LegalStep(run[c].inst, Pending(c)')
    BY <2>4, <2>5, <2>6, <2>8 DEF LegalStep, Pending, Entry, How
  <2>10. CallInv(c)'
    BY <2>1, <2>2, <2>5, <2>6, <2>7, <2>9, AtSaving DEF Saving
  <2> QED BY <2>1, <2>10, HistoryUnchanged DEF HistoryInv
<1>3. CASE SaveChainStep(c)
  <2>1. pc[c] = "saveChain" /\ run[c] \in Runs
    BY <1>3, Holding DEF SaveChainStep, Saving
  <2> DEFINE locals == [run[c] EXCEPT !.steps = @ + 1]
  <2>2. locals.inst = run[c].inst
    BY <2>1 DEF Runs
  <2>3. \/ save_if_version(c, run[c].inst.version - 1, "chain") /\ Goto(c, "evidence", locals)
        \/ SaveConflict(c, run[c].inst.version - 1)
    BY <1>3 DEF SaveChainStep
  <2>4. How(pc[c]) = "chain"
    BY <2>1 DEF How
  <2> HIDE DEF locals
  <2> QED BY <2>1, <2>2, <2>3, <2>4, SaveKeeps DEF Saving, Settled
<1> QED BY <1>1, <1>2, <1>3

\* Every step of a call keeps the history linear and its own invariant.
LEMMA CallKeeps ==
  ASSUME TypeInv, HistoryInv, NEW c \in Calls, Step(c) \/ Fault(c)
  PROVE  CallInv(c)' /\ LinearHistory'
<1>1. CASE Fault(c)
  <2>1. pc[c] # "idle" /\ UNCHANGED <<store, log>>
    BY <1>1 DEF Fault, shared
  <2> QED BY <1>1, <2>1, AnswerAlone, AtDone, HistoryUnchanged DEF Fault, Bail, HistoryInv
<1>2. CASE Step(c)
  BY <1>2, StartKeeps, LoadKeeps, GateKeeps, CommitKeeps, EnterKeeps, ChainKeeps DEF Step
<1> QED BY <1>1, <1>2

\* Issuing a call keeps the invariant: a start claims an id nobody named.
LEMMA IssueKeeps ==
  ASSUME TypeInv, TypeInv', HistoryInv, NEW c \in Calls, Issue(c), NEW b \in Calls
  PROVE  CallInv(b)'
<1>1. PICK q \in Requests, w \in Workflows, v \in Quoted :
        /\ IF q.op = "start" THEN Unclaimed(w) ELSE store[w] # NoInstance
        /\ req' = [req EXCEPT ![c] =
                     [op |-> q.op, name |-> q.name, who |-> q.who, args |-> q.args,
                      wf |-> w, expected |-> IF q.op = "submit" THEN v ELSE 0]]
        /\ pc' = [pc EXCEPT ![c] = IF q.op = "start" THEN "admit" ELSE "load"]
  BY DEF Issue
<1>2. /\ pc[c] = "idle" /\ UNCHANGED <<store, log, evidence, run>>
      /\ pc \in [Calls -> Points] /\ req \in [Calls -> CallRequests \cup {NoRequest}]
  BY DEF Issue, shared, TypeInv, TypeOK
<1>3. /\ req'[c].wf = w /\ pc'[c] = IF q.op = "start" THEN "admit" ELSE "load"
      /\ \A d \in Calls : d # c => req'[d] = req[d] /\ pc'[d] = pc[d]
  BY <1>1, <1>2
<1>4. CASE b = c
  BY <1>1, <1>2, <1>3, <1>4
     DEF CallInv, Starting, Snapshot, Prepared, Cleared, Settled, Saving, Wf, Unclaimed
<1>5. CASE b # c
  <2>1. CallInv(b) /\ Extends /\ Gathers
    BY <1>2, StoreUntouched, EvidenceUntouched DEF HistoryInv
  <2>2. Starting(b)'
    BY <1>1, <1>2, <1>3, <1>5, <2>1 DEF CallInv, Starting, Wf, Unclaimed
  <2> QED BY <1>2, <1>3, <1>5, <2>1, <2>2, Bystander
<1> QED BY <1>4, <1>5

\* HistoryInv is inductive on top of TypeInv.
LEMMA HistoryStep == TypeInv /\ HistoryInv /\ [Next]_vars => HistoryInv'
<1> SUFFICES ASSUME TypeInv, HistoryInv, [Next]_vars PROVE HistoryInv'
  OBVIOUS
<1>0. TypeInv'
  BY TypeStep
<1>1. ASSUME NEW c \in Calls, Step(c) \/ Fault(c) PROVE HistoryInv'
  <2>1. Frame(c) /\ CallInv(c)' /\ LinearHistory'
    BY <1>1, StepFrame, CallKeeps
  <2>2. \A b \in Calls : b # c => CallInv(b)'
    BY <1>0, <2>1, OthersKeep
  <2> QED BY <2>1, <2>2 DEF HistoryInv
<1>2. ASSUME NEW c \in Calls, Issue(c) PROVE HistoryInv'
  <2>1. UNCHANGED <<store, log>>
    BY <1>2 DEF Issue, shared
  <2> QED BY <1>0, <1>2, <2>1, IssueKeeps, HistoryUnchanged DEF HistoryInv
<1>3. CASE Crash
  <2>1. UNCHANGED <<store, log>> /\ \A b \in Calls : pc'[b] \in {"idle", "done"}
    BY <1>3 DEF Crash, TypeInv, TypeOK
  <2>2. \A b \in Calls : CallInv(b)'
    BY <2>1 DEF CallInv, Starting, Snapshot, Prepared, Cleared, Settled, Saving
  <2> QED BY <2>1, <2>2, HistoryUnchanged DEF HistoryInv
<1>4. CASE \/ begin_drain \/ Reload \/ (\E w \in Workflows : Expire(w)) \/ Quiescent
           \/ UNCHANGED vars
  <2>1. UNCHANGED <<store, log, evidence, pc, req, run>>
    BY <1>4 DEF begin_drain, Reload, Expire, Quiescent, vars, shared
  <2>2. Extends /\ Gathers /\ LinearHistory'
    BY <2>1, StoreUntouched, EvidenceUntouched, HistoryUnchanged DEF HistoryInv
  <2>3. \A b \in Calls : CallInv(b) /\ Starting(b)'
    BY <2>1 DEF HistoryInv, CallInv, Starting, Wf
  <2>4. \A b \in Calls : CallInv(b)'
    BY <1>0, <2>1, <2>2, <2>3, Bystander
  <2> QED BY <2>2, <2>4 DEF HistoryInv
<1> QED BY <1>1, <1>2, <1>3, <1>4 DEF Next, World

\* HistoryInv holds initially.
LEMMA HistoryInit == Init => HistoryInv
<1> SUFFICES ASSUME Init PROVE HistoryInv
  OBVIOUS
<1>1. LinearHistory
  BY DEF Init, LinearHistory
<1>2. \A c \in Calls : CallInv(c)
  BY DEF Init, CallInv, Starting, Snapshot, Prepared, Cleared, Settled, Saving
<1> QED BY <1>1, <1>2 DEF HistoryInv

\* Both invariants hold in every reachable state.
LEMMA Inductive == Spec => [](TypeInv /\ HistoryInv)
BY TypeInit, TypeStep, HistoryInit, HistoryStep, PTL DEF Spec

\* No lost update, for any number of calls and workflows: the store always holds the
\* last committed version, versions run 0, 1, 2, ... and each commit is one legal
\* step from the one before.  save_if_version is the only guard.
THEOREM HistoryIsLinear == Spec => []LinearHistory
<1>1. HistoryInv => LinearHistory
  BY DEF HistoryInv
<1> QED BY <1>1, Inductive, PTL

-----------------------------------------------------------------------------
\* A step of a call that changes the store or a log is a creation or a save that
\* passed its version check.
LEMMA CallWrites ==
  ASSUME TypeInv, HistoryInv, NEW c \in Calls, Step(c), ~UNCHANGED <<store, log>>
  PROVE  \/ pc[c] = "create" /\ Committed(c, "create")
         \/ /\ pc[c] \in Saving /\ UNCHANGED evidence
            /\ save_if_version(c, run[c].inst.version - 1, How(pc[c]))
<1>1. CASE Create(c)
  BY <1>1 DEF Create
<1>2. CASE SaveTransition(c)
  BY <1>2, ExpectedIsBase DEF SaveTransition, SaveConflict, How, Saving, shared
<1>3. CASE SaveTimeout(c) \/ SaveOnEnter(c) \/ SaveChainStep(c)
  BY <1>3 DEF SaveTimeout, SaveOnEnter, SaveChainStep, SaveConflict, How, Saving, shared
<1>4. CASE \/ Admit(c) \/ LoadInstance(c) \/ LoadDefinition(c) \/ Get(c) \/ Gate(c)
           \/ ExecuteFails(c) \/ Execute(c) \/ RecordEvidence(c) \/ SkipOnEnter(c)
           \/ OnEnterFails(c) \/ OnEnter(c) \/ Entered(c) \/ SelectionFails(c)
           \/ ChainStepFails(c) \/ ChainStep(c) \/ Finish(c)
  BY <1>4 DEF Admit, LoadInstance, LoadDefinition, Get, Gate, Refuse, ExecuteFails,
              Execute, RecordEvidence, SkipOnEnter, OnEnterFails, OnEnter, Entered,
              SelectionFails, ChainStepFails, ChainStep, Finish, shared
<1> QED BY <1>1, <1>2, <1>3, <1>4 DEF Step

\* Nothing but such a step changes them.
LEMMA WritesAreSaves ==
  ASSUME TypeInv, HistoryInv, [Next]_vars, ~UNCHANGED <<store, log>>
  PROVE  \E c \in Calls :
           \/ pc[c] = "create" /\ Committed(c, "create")
           \/ /\ pc[c] \in Saving /\ UNCHANGED evidence
              /\ save_if_version(c, run[c].inst.version - 1, How(pc[c]))
<1>1. PICK c \in Calls : Step(c)
  BY DEF Next, World, Issue, Fault, Crash, begin_drain, Reload, Expire, Quiescent, vars, shared
<1> QED BY <1>1, CallWrites

\* The ledger reads a definition as the runtime does.
LEMMA SameOutcomes ==
  ASSUME NEW t, NEW ctx
  PROVE  Ledger!Outcomes(t, ctx) = Outcomes(t, ctx)
<1>1. Ledger!Contexts = Contexts
  BY DEF Contexts, Ledger!Contexts
<1>2. ASSUME NEW o PROVE Ledger!Merge(ctx, o) = Merge(ctx, o)
  BY <1>1 DEF Merge, Ledger!Merge
<1>3. ASSUME NEW new PROVE Ledger!resolve_target(t, new) = resolve_target(t, new)
  BY Zenon DEF resolve_target, Ledger!resolve_target
<1> DEFINE Results == IF t.runs THEN Merge(ctx, t.output) ELSE {ctx}
           Old(new) == {[state |-> s, context |-> new] : s \in resolve_target(t, new)}
           New(new) == {[state |-> s, context |-> new] : s \in Ledger!resolve_target(t, new)}
<1>4. Ledger!Outcomes(t, ctx) = UNION {New(new) : new \in Results}
  BY <1>2, Zenon DEF Ledger!Outcomes
<1>5. Outcomes(t, ctx) = UNION {Old(new) : new \in Results}
  BY Zenon DEF Outcomes
<1>6. \A new : New(new) = Old(new)
  BY <1>3
<1> HIDE DEF Old, New, Results
<1> QED BY <1>4, <1>5, <1>6

\* A legal step of the history is a step of the ledger.
LEMMA LegalIsLedger ==
  ASSUME NEW old \in Instances, NEW f \in Commits, LegalStep(old, f)
  PROVE  f.inst \in Ledger!ByTransition(f.def, old) \cup Ledger!ByOnEnter(f.def, old)
                       \cup Ledger!ByTimeout(f.def, old)
<1>1. CASE f.how \in {"transition", "chain"}
  <2>1. PICK out \in Outcomes(f.via, old.context) : f.inst = Successor(old, out)
    BY <1>1 DEF LegalStep
  <2>2. f.via \in Ledger!Outgoing(f.def, old.state)
    BY <1>1 DEF LegalStep, Outgoing, Ledger!Outgoing
  <2>3. out \in Ledger!Outcomes(f.via, old.context)
    BY <2>1, SameOutcomes
  <2>4. f.inst = [state |-> out.state, version |-> old.version + 1,
                  context |-> out.context]
    BY <2>1 DEF Successor
  <2>5. out \in UNION {Ledger!Outcomes(t, old.context) :
                         t \in Ledger!Outgoing(f.def, old.state)}
    BY <2>2, <2>3
  <2>6. f.inst \in Ledger!ByTransition(f.def, old)
    BY <2>4, <2>5, Zenon DEF Ledger!ByTransition
  <2> QED BY <2>6
<1>2. CASE f.how = "onEnter"
  <2>1. PICK e \in Definitions[f.def].onEnter :
          e.state = old.state /\
            \E new \in Merge(old.context, e.output) :
              f.inst = Successor(old, [state |-> old.state, context |-> new])
    BY <1>2 DEF LegalStep
  <2>2. PICK new \in Merge(old.context, e.output) :
          f.inst = Successor(old, [state |-> old.state, context |-> new])
    BY <2>1
  <2>3. f.inst = [state |-> old.state, version |-> old.version + 1, context |-> new]
    BY <2>2 DEF Successor
  <2>4. new \in Ledger!Merge(old.context, e.output)
    BY <2>2 DEF Merge, Contexts, Ledger!Merge, Ledger!Contexts
  <2>5. new \in UNION {Ledger!Merge(old.context, g.output) :
                         g \in {h \in Definitions[f.def].onEnter : h.state = old.state}}
    BY <2>1, <2>4
  <2>6. f.inst \in Ledger!ByOnEnter(f.def, old)
    BY <2>3, <2>5, Zenon DEF Ledger!ByOnEnter
  <2> QED BY <2>6
<1>3. CASE f.how = "timeout"
  BY <1>3 DEF LegalStep, Successor, Ledger!ByTimeout, Ledger!is_terminal, is_terminal
<1> QED BY <1>1, <1>2, <1>3 DEF LegalStep

\* A step of the runtime is a step of the ledger or leaves the store alone.
LEMMA LedgerStep ==
  TypeInv /\ HistoryInv /\ [Next]_vars => [Ledger!LedgerNext]_store
<1> SUFFICES ASSUME TypeInv, HistoryInv, [Next]_vars, ~UNCHANGED store
             PROVE  Ledger!LedgerNext
  OBVIOUS
<1>1. PICK c \in Calls :
        \/ pc[c] = "create" /\ Committed(c, "create")
        \/ /\ pc[c] \in Saving /\ UNCHANGED evidence
           /\ save_if_version(c, run[c].inst.version - 1, How(pc[c]))
  BY WritesAreSaves
<1>2. pc[c] \in {"create"} \cup Saving /\ Wf(c) \in Workflows
      /\ run[c].inst \in Instances /\ run[c].def \in Defs
  BY <1>1, Holding
<1>3. store' = [store EXCEPT ![Wf(c)] = run[c].inst]
  BY <1>1 DEF Committed, save_if_version
<1>4. CASE pc[c] = "create"
  <2>1. store[Wf(c)] = NoInstance /\ run[c].inst = Fresh(run[c].def)
    BY <1>4 DEF HistoryInv, CallInv, Starting
  <2>2. Ledger!Begin(Wf(c))
    BY <1>2, <1>3, <2>1 DEF Ledger!Begin, Fresh
  <2> QED BY <1>2, <2>2 DEF Ledger!LedgerNext
<1>5. CASE pc[c] \in Saving
  <2>1. save_if_version(c, run[c].inst.version - 1, How(pc[c]))
    BY <1>1, <1>5 DEF Saving
  <2>2. LegalStep(store[Wf(c)], Pending(c))
    BY <1>5, <2>1, SaveHistory
  <2>3. store[Wf(c)] # NoInstance /\ store[Wf(c)] \in Instances
    BY <1>2, <1>5, Holding DEF TypeInv, TypeOK, Saving
  <2>4. /\ Pending(c) \in Commits /\ Pending(c).inst = run[c].inst
        /\ Pending(c).def = run[c].def
    <3>1. How(pc[c]) \in {"transition", "chain", "onEnter", "timeout"}
      BY <1>5 DEF How, Saving
    <3> QED BY <1>2, <3>1, Holding DEF Pending, Entry, Commits, Runs
  <2>5. run[c].inst \in Ledger!ByTransition(run[c].def, store[Wf(c)])
                          \cup Ledger!ByOnEnter(run[c].def, store[Wf(c)])
                          \cup Ledger!ByTimeout(run[c].def, store[Wf(c)])
    BY <2>2, <2>3, <2>4, LegalIsLedger
  <2>6. Ledger!Advance(Wf(c))
    BY <1>2, <1>3, <2>3, <2>5 DEF Ledger!Advance
  <2> QED BY <1>2, <2>6 DEF Ledger!LedgerNext
<1> QED BY <1>2, <1>4, <1>5

\* The runtime implements the ledger: to a reader of the store a workflow is created
\* once and then moves one legal step and one version at a time.
THEOREM RuntimeImplementsLedger == Spec => ImplementsLedger
<1>1. Init => Ledger!LedgerInit
  BY DEF Init, Ledger!LedgerInit
<1> QED BY <1>1, Inductive, LedgerStep, PTL DEF Spec, ImplementsLedger, Ledger!LedgerSpec

\* The body of CommitsAreGuarded.
GuardedWrites ==
  \A w \in Workflows :
    LET f == log'[w][Len(log'[w])]
    IN  log'[w] # log[w] /\ f.how = "transition" =>
          /\ f.via.from = store[w].state
          /\ ActorAdmits(f.via, req[f.by].who)
          /\ req[f.by].args \in f.via.accepts \cap f.via.given
          /\ LastingGuards(f.via, store[w].context, req[f.by].who, evidence[w])

\* A step that commits a submitted transition passes the version check, so that what
\* the gates checked on the snapshot holds of the instance it replaces.
LEMMA GuardedStep ==
  TypeInv /\ HistoryInv /\ [Next]_vars => [GuardedWrites]_vars
<1> SUFFICES ASSUME TypeInv, HistoryInv, [Next]_vars, NEW w \in Workflows,
                    log'[w] # log[w], log'[w][Len(log'[w])].how = "transition"
             PROVE  LET f == log'[w][Len(log'[w])]
                    IN  /\ f.via.from = store[w].state
                        /\ ActorAdmits(f.via, req[f.by].who)
                        /\ req[f.by].args \in f.via.accepts \cap f.via.given
                        /\ LastingGuards(f.via, store[w].context, req[f.by].who, evidence[w])
  BY DEF GuardedWrites
<1>1. PICK c \in Calls :
        \/ pc[c] = "create" /\ Committed(c, "create")
        \/ /\ pc[c] \in Saving /\ UNCHANGED evidence
           /\ save_if_version(c, run[c].inst.version - 1, How(pc[c]))
  BY WritesAreSaves
<1>2. PICK how \in {"create", "transition", "chain", "onEnter", "timeout"} :
        /\ Committed(c, how) /\ pc[c] \in {"create"} \cup Saving
        /\ pc[c] = "create" => how = "create"
        /\ pc[c] \in Saving => how = How(pc[c])
  BY <1>1 DEF save_if_version, How, Saving
<1>3. /\ log'[Wf(c)][Len(log'[Wf(c)])] = Entry(c, how)
      /\ \A x \in Workflows : x # Wf(c) => log'[x] = log[x]
  BY <1>2, CommitAppends
<1>4. w = Wf(c) /\ how = "transition"
  BY <1>3 DEF Entry
<1>5. pc[c] = "saveTransition"
  BY <1>2, <1>4 DEF How, Saving
<1>6. log[Wf(c)][run[c].inst.version].inst = store[Wf(c)]
  <2>1. save_if_version(c, run[c].inst.version - 1, How(pc[c])) /\ pc[c] \in Saving
    BY <1>1, <1>5 DEF Saving
  <2> QED BY <2>1, SaveHistory
<1>7. Permits(c, store[w])
  BY <1>4, <1>5, <1>6 DEF HistoryInv, CallInv, Cleared
<1>8. LET f == log'[w][Len(log'[w])] IN f.via = run[c].via /\ f.by = c
  BY <1>3, <1>4 DEF Entry
<1> QED BY <1>4, <1>7, <1>8 DEF Permits, Outgoing

\* Time of check is time of use, although submit awaits its executor between its
\* gates and its save: the actor gate, the input schema and the guards of a
\* submitted transition hold of the very instance its commit replaces.
THEOREM CommitsStayGuarded == Spec => CommitsAreGuarded
BY Inductive, GuardedStep, PTL DEF Spec, CommitsAreGuarded, GuardedWrites
=============================================================================
