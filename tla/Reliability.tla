---------------------------- MODULE Reliability ----------------------------
(***************************************************************************)
(* execute_with_reliability: timeouts, retries and fallback executors      *)
(* around the side effects of a call.  A call (a start or submit, with its *)
(* own correlation id) dispatches its actions one after the other (the     *)
(* transition's executor, onEnter actions, the steps of a chain), the next *)
(* one only when the one before returned Ok.                               *)
(*                                                                         *)
(* The services behind the executors are outside the gateway.  A request   *)
(* whose attempt timed out or lost its connection is not recalled: the     *)
(* service may still carry it out, at any later time.                      *)
(***************************************************************************)
EXTENDS Naturals, Sequences, FiniteSets

CONSTANTS
  Calls,       \* start and submit calls: their correlation ids
  Workflow,    \* the workflow of each call
  Plan,        \* the actions each call dispatches, in order
  Names,       \* transition names, "on_enter" among them
  Kinds,       \* the executor kinds there are, some of those of ReturnedBy
  Services,    \* what executors reach
  Dedupes,     \* the services that honour an idempotency key
  NoKey, NoClass

ErrorClasses ==
  {"timeout", "rate_limited", "connection_error", "transient_error", "permanent_error"}

\* The error classes an executor of each kind returns of itself: a status or a send
\* error of HTTP, a command that does not start or exits with an error, a tool call.
ReturnedBy ==
  [rest |-> ErrorClasses, mcp |-> ErrorClasses,
   cli |-> {"connection_error", "permanent_error"},
   workflow |-> {"timeout", "permanent_error"},
   human |-> {}, noop |-> {}]

Candidates == [kind : Kinds, service : Services]

\* An action and its policy: the tokens its key is built from when it has one,
\* the primary executor and then the fallbacks, timeoutMs and retry.
Actions ==
  [transition : Names, keyed : BOOLEAN,
   tokens : SUBSET {"workflowId", "transition", "correlationId"},
   candidates : Seq(Candidates), timeoutMs : BOOLEAN, maxAttempts : Nat,
   retryOn : SUBSET ErrorClasses]

ASSUME ReliabilityAssumption ==
  /\ Plan \in [Calls -> Seq(Actions)]
  /\ \A c \in Calls : \A i \in DOMAIN Plan[c] : Plan[c][i].candidates # <<>>
  /\ Dedupes \subseteq Services
  /\ Kinds \subseteq DOMAIN ReturnedBy
  /\ NoClass \notin ErrorClasses

VARIABLES
  registry,    \* the executor kinds the swappable registry holds
  point,       \* where each call is
  action,      \* the index of the action it dispatches
  cand,        \* the index of the candidate it tries
  attempt,     \* the attempt it makes
  last,        \* the class of its last error
  trail,       \* its executor.* and fallback.* audit events
  sent,        \* requests that left the gateway
  handled,     \* those their service has processed
  effects      \* those that took effect

service == <<handled, effects>>
vars == <<registry, point, action, cand, attempt, last, trail, sent, handled, effects>>

Requests == [call : Calls, action : Nat, cand : Nat, attempt : Nat]

Events ==
  [type : {"started", "succeeded", "retrying", "failed", "selected"},
   action : Nat, cand : Nat, attempt : Nat, class : ErrorClasses \cup {NoClass}]

Points == {"select", "attempt", "wait", "done", "failed"}

-----------------------------------------------------------------------------
Current(c) == Plan[c][action[c]]

Candidate(c) == Current(c).candidates[cand[c]]

Request(c) == [call |-> c, action |-> action[c], cand |-> cand[c], attempt |-> attempt[c]]

ServiceOf(r) == Plan[r.call][r.action].candidates[r.cand].service

Token(r, t) ==
  CASE t = "workflowId" -> Workflow[r.call]
    [] t = "transition" -> Plan[r.call][r.action].transition
    [] t = "correlationId" -> r.call

\* Mutant: computed anew for every attempt.
compute_idempotency_key_per_attempt(r) ==
  IF Plan[r.call][r.action].keyed
  THEN [t \in Plan[r.call][r.action].tokens |-> <<Token(r, t), r.attempt>>]
  ELSE NoKey

\* Mutant: one key for all the actions of a call.
compute_idempotency_key_per_call(r) ==
  IF Plan[r.call][r.action].keyed
  THEN [t \in Plan[r.call][r.action].tokens \ {"transition"} |-> Token(r, t)]
  ELSE NoKey

\* The key of the primary executor, shared by retries and fallbacks: the values
\* of the tokens in its template (all three for an automatic key).
compute_idempotency_key(r) ==
  IF Plan[r.call][r.action].keyed
  THEN [t \in Plan[r.call][r.action].tokens |-> Token(r, t)]
  ELSE NoKey

Audit(c, type, n, class) ==
  trail' = [trail EXCEPT ![c] =
              Append(@, [type |-> type, action |-> action[c], cand |-> cand[c],
                         attempt |-> n, class |-> class])]

GoTo(c, p) == point' = [point EXCEPT ![c] = p]

-----------------------------------------------------------------------------
(***************************************************************************)
(* One candidate after another: a fallback is audited as selected, and one *)
(* whose kind is not registered is skipped as a permanent error.           *)
(***************************************************************************)
Select(c) ==
  /\ point[c] = "select" /\ cand[c] <= Len(Current(c).candidates)
  /\ IF cand[c] > 1 THEN Audit(c, "selected", 0, last[c]) ELSE UNCHANGED trail
  /\ IF Candidate(c).kind \in registry
     THEN /\ GoTo(c, "attempt")
          /\ attempt' = [attempt EXCEPT ![c] = 1]
          /\ UNCHANGED <<cand, last>>
     ELSE /\ last' = [last EXCEPT ![c] = "permanent_error"]
          /\ cand' = [cand EXCEPT ![c] = @ + 1]
          /\ UNCHANGED <<point, attempt>>
  /\ UNCHANGED <<registry, action, sent, service>>

\* No candidate is left: the last error ends the call.
GiveUp(c) ==
  /\ point[c] = "select" /\ cand[c] > Len(Current(c).candidates)
  /\ GoTo(c, "failed")
  /\ UNCHANGED <<registry, action, cand, attempt, last, trail, sent, service>>

Send(c) ==
  /\ point[c] = "attempt"
  /\ Audit(c, "started", attempt[c], NoClass)
  /\ sent' = sent \cup {Request(c)}
  /\ GoTo(c, "wait")
  /\ UNCHANGED <<registry, action, cand, attempt, last, service>>

\* Mutant: the caller looks for one action more.
SucceedPastEnd(c) ==
  /\ point[c] = "wait" /\ Request(c) \in handled
  /\ Audit(c, "succeeded", attempt[c], NoClass)
  /\ action' = [action EXCEPT ![c] = @ + 1]
  /\ cand' = [cand EXCEPT ![c] = 1]
  /\ last' = [last EXCEPT ![c] = NoClass]
  /\ GoTo(c, IF action[c] <= Len(Plan[c]) THEN "select" ELSE "done")
  /\ UNCHANGED <<registry, attempt, sent, service>>

\* The service answered the attempt: on to the next action of the call.
Succeed(c) ==
  /\ point[c] = "wait" /\ Request(c) \in handled
  /\ Audit(c, "succeeded", attempt[c], NoClass)
  /\ action' = [action EXCEPT ![c] = @ + 1]
  /\ cand' = [cand EXCEPT ![c] = 1]
  /\ last' = [last EXCEPT ![c] = NoClass]
  /\ GoTo(c, IF action[c] < Len(Plan[c]) THEN "select" ELSE "done")
  /\ UNCHANGED <<registry, attempt, sent, service>>

Retryable(c, class) == class \in Current(c).retryOn

\* Mutant: off by one, maxAttempts retries.
FailedLate(c, class) ==
  /\ last' = [last EXCEPT ![c] = class]
  /\ IF attempt[c] <= Current(c).maxAttempts /\ Retryable(c, class)
     THEN /\ Audit(c, "retrying", attempt[c], class)
          /\ attempt' = [attempt EXCEPT ![c] = @ + 1]
          /\ GoTo(c, "attempt")
          /\ UNCHANGED cand
     ELSE /\ Audit(c, "failed", attempt[c], class)
          /\ cand' = [cand EXCEPT ![c] = @ + 1]
          /\ GoTo(c, "select")
          /\ UNCHANGED attempt

\* An attempt ended in an error of that class: again, or the next candidate.
Failed(c, class) ==
  /\ last' = [last EXCEPT ![c] = class]
  /\ IF attempt[c] < Current(c).maxAttempts /\ Retryable(c, class)
     THEN /\ Audit(c, "retrying", attempt[c], class)
          /\ attempt' = [attempt EXCEPT ![c] = @ + 1]
          /\ GoTo(c, "attempt")
          /\ UNCHANGED cand
     ELSE /\ Audit(c, "failed", attempt[c], class)
          /\ cand' = [cand EXCEPT ![c] = @ + 1]
          /\ GoTo(c, "select")
          /\ UNCHANGED attempt

\* The executor returns an error.  It need not know whether its service acted.
Err(c) ==
  /\ point[c] = "wait"
  /\ \E class \in ReturnedBy[Candidate(c).kind] : Failed(c, class)
  /\ UNCHANGED <<registry, action, sent, service>>

\* Mutant: the timer runs for the primary executor only.
TimeOutPrimary(c) ==
  /\ point[c] = "wait" /\ Current(c).timeoutMs /\ cand[c] = 1
  /\ Failed(c, "timeout")
  /\ UNCHANGED <<registry, action, sent, service>>

\* tokio::time::timeout drops the executor's future.
TimeOut(c) ==
  /\ point[c] = "wait" /\ Current(c).timeoutMs
  /\ Failed(c, "timeout")
  /\ UNCHANGED <<registry, action, sent, service>>

\* Whatever its policy, a request of the rest executor is given up by its client
\* after two minutes.
ClientTimeOut(c) ==
  /\ point[c] = "wait" /\ Candidate(c).kind = "rest"
  /\ Failed(c, "timeout")
  /\ UNCHANGED <<registry, action, sent, service>>

\* Request r carries the key that e carried to the same service.
Repeats(e, r) ==
  /\ ServiceOf(e) = ServiceOf(r)
  /\ Plan[e.call][e.action].keyed /\ Plan[r.call][r.action].keyed
  /\ compute_idempotency_key(e) = compute_idempotency_key(r)

\* A service carries out a request; one that honours keys does so once per key.
Handle(r) ==
  /\ r \in sent \ handled
  /\ handled' = handled \cup {r}
  /\ effects' =
       IF ServiceOf(r) \in Dedupes /\ \E e \in effects : Repeats(e, r)
       THEN effects ELSE effects \cup {r}
  /\ UNCHANGED <<registry, point, action, cand, attempt, last, trail, sent>>

\* SIGHUP: SwappableExecutorRegistry::swap.
Swap ==
  /\ registry' \in SUBSET Kinds
  /\ UNCHANGED <<point, action, cand, attempt, last, trail, sent, service>>

-----------------------------------------------------------------------------
Init ==
  /\ registry = Kinds
  /\ point = [c \in Calls |-> IF Plan[c] = <<>> THEN "done" ELSE "select"]
  /\ action = [c \in Calls |-> 1]
  /\ cand = [c \in Calls |-> 1]
  /\ attempt = [c \in Calls |-> 1]
  /\ last = [c \in Calls |-> NoClass]
  /\ trail = [c \in Calls |-> <<>>]
  /\ sent = {} /\ handled = {} /\ effects = {}

\* What the gateway does of itself.
Step(c) == Select(c) \/ GiveUp(c) \/ Send(c) \/ TimeOut(c) \/ ClientTimeOut(c)

Ended == \A c \in Calls : point[c] \in {"done", "failed"}

Next ==
  \/ \E c \in Calls : Step(c) \/ Succeed(c) \/ Err(c)
  \/ \E r \in sent : Handle(r)
  \/ Swap
  \/ Ended /\ UNCHANGED vars

Spec == Init /\ [][Next]_vars

\* The gateway's tasks are polled and its timers fire; the services owe nothing.
FairSpec == Spec /\ \A c \in Calls : WF_vars(Step(c))

-----------------------------------------------------------------------------
\* Every variable holds values of its kind, and a call that is not over stands at
\* an action of its plan, and on a candidate of it unless it has tried them all.
TypeOK ==
  /\ registry \subseteq Kinds
  /\ point \in [Calls -> Points]
  /\ action \in [Calls -> Nat \ {0}] /\ cand \in [Calls -> Nat \ {0}]
  /\ attempt \in [Calls -> Nat \ {0}]
  /\ last \in [Calls -> ErrorClasses \cup {NoClass}]
  /\ trail \in [Calls -> Seq(Events)]
  /\ sent \subseteq Requests /\ handled \subseteq sent /\ effects \subseteq handled
  /\ \A c \in Calls :
       /\ point[c] # "done" => action[c] \in DOMAIN Plan[c]
       /\ point[c] \in {"attempt", "wait"} => cand[c] \in DOMAIN Current(c).candidates

\* However attempts time out, are retried and fall back, and however late their
\* requests are carried out, an action with an idempotency key takes effect at most
\* once at a service that honours keys (GOVERNANCE.md: a retry of a timed-out call
\* does not do the work twice).
EffectsOnce ==
  \A e, f \in effects :
    /\ e.call = f.call /\ e.action = f.action
    /\ Plan[e.call][e.action].keyed
    /\ ServiceOf(e) = ServiceOf(f) /\ ServiceOf(e) \in Dedupes
    => e = f

\* Two different actions never share a key at a service.  The code grants it to
\* the transitions of a call with automatic keys, not to two onEnter actions.
DistinctKeys ==
  \A c, d \in Calls : \A i \in DOMAIN Plan[c], j \in DOMAIN Plan[d] :
    /\ Plan[c][i].keyed /\ Plan[d][j].keyed
    /\ compute_idempotency_key([call |-> c, action |-> i, cand |-> 1, attempt |-> 1])
         = compute_idempotency_key([call |-> d, action |-> j, cand |-> 1, attempt |-> 1])
    => c = d /\ i = j

\* An action that returned Ok has taken effect somewhere: no service took its
\* request for a repetition of another action's.
SuccessIsReal ==
  \A c \in Calls : \A i \in 1..(action[c] - 1) :
    \E e \in effects : e.call = c /\ e.action = i

\* Event f may come right after event e in the trail of call c.
Follows(c, e, f) ==
  LET policy == Plan[c][e.action]
  IN  CASE e.type = "started" ->
             /\ f.type \in {"succeeded", "retrying", "failed"}
             /\ <<f.action, f.cand, f.attempt>> = <<e.action, e.cand, e.attempt>>
        [] e.type = "retrying" ->
             /\ f.type = "started" /\ f.action = e.action /\ f.cand = e.cand
             /\ f.attempt = e.attempt + 1 /\ f.attempt <= policy.maxAttempts
             /\ e.class \in policy.retryOn
        [] e.type = "failed" ->
             f.type = "selected" /\ f.action = e.action /\ f.cand = e.cand + 1
        [] e.type = "selected" ->
             /\ f.action = e.action
             /\ \/ f.type = "started" /\ f.cand = e.cand /\ f.attempt = 1
                \/ f.type = "selected" /\ f.cand = e.cand + 1
        [] e.type = "succeeded" ->
             /\ f.action = e.action + 1
             /\ \/ f.type = "started" /\ f.cand = 1 /\ f.attempt = 1
                \/ f.type = "selected" /\ f.cand = 2

\* The audit trail of a call tells its attempts (GOVERNANCE.md, "Each attempt emits
\* executor.started, then one of succeeded, retrying, failed"): retries only of a
\* retryable class and up to maxAttempts, a fallback only after its predecessor has
\* failed or is not registered, nothing more of an action that succeeded; and every
\* request sent was announced first.
TrailTellsAttempts ==
  \A c \in Calls :
    /\ \A i \in 1..(Len(trail[c]) - 1) : Follows(c, trail[c][i], trail[c][i + 1])
    /\ point[c] \in {"done", "failed"} /\ trail[c] # <<>> =>
         trail[c][Len(trail[c])].type \in {"succeeded", "failed", "selected"}
    /\ \A r \in sent : r.call = c =>
         \E i \in DOMAIN trail[c] :
           /\ trail[c][i].type = "started"
           /\ <<trail[c][i].action, trail[c][i].cand, trail[c][i].attempt>>
                = <<r.action, r.cand, r.attempt>>

\* With timeoutMs on its actions, or only rest executors without it, a call comes to
\* an end although no service ever answers.
EveryCallEnds == \A c \in Calls : <>(point[c] \in {"done", "failed"})
=============================================================================
