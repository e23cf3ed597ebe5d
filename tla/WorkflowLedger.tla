--------------------------- MODULE WorkflowLedger ---------------------------
(***************************************************************************)
(* What the gateway promises of a workflow, with the calls, their          *)
(* interleavings and the store's versions out of sight: a register that is *)
(* created in the initial state of a definition and then moves by whole    *)
(* legal steps, each one version on, under some definition of the          *)
(* configuration.  The runtime implements it.                              *)
(***************************************************************************)
EXTENDS WorkflowDefinition

CONSTANTS Workflows, NoInstance

VARIABLE register   \* [Workflows -> the workflow's instance]

\* The instances one step can make of old under definition d: a transition that
\* leaves its state, its onEnter action, the timeout of a state not terminal.
ByTransition(d, old) ==
  {[state |-> out.state, version |-> old.version + 1, context |-> out.context] :
     out \in UNION {Outcomes(t, old.context) : t \in Outgoing(d, old.state)}}

ByOnEnter(d, old) ==
  {[state |-> old.state, version |-> old.version + 1, context |-> new] :
     new \in UNION {Merge(old.context, e.output) :
                      e \in {f \in Definitions[d].onEnter : f.state = old.state}}}

ByTimeout(d, old) ==
  IF is_terminal(d, old.state) THEN {}
  ELSE {[state |-> s, version |-> old.version + 1, context |-> old.context] :
          s \in Definitions[d].onTimeout}

Begin(w) ==
  /\ register[w] = NoInstance
  /\ \E d \in Defs :
       register' = [register EXCEPT ![w] =
                      [state |-> Definitions[d].initialState, version |-> 0,
                       context |-> Definitions[d].initialContext]]

Advance(w) ==
  /\ register[w] # NoInstance
  /\ \E d \in Defs :
       \E new \in ByTransition(d, register[w]) \cup ByOnEnter(d, register[w])
                    \cup ByTimeout(d, register[w]) :
         register' = [register EXCEPT ![w] = new]

LedgerInit == register = [w \in Workflows |-> NoInstance]

LedgerNext == \E w \in Workflows : Begin(w) \/ Advance(w)

LedgerSpec == LedgerInit /\ [][LedgerNext]_register
=============================================================================
