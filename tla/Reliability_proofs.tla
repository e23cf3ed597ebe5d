------------------------- MODULE Reliability_proofs -------------------------
(***************************************************************************)
(* TypeOK, EffectsOnce, SuccessIsReal and TrailTellsAttempts for every     *)
(* plan.  The inductive invariants say that requests in flight stand for   *)
(* an attempt of a plan (SentOK), that a service that honours keys has     *)
(* carried out each key once (OncePerKey), that a request it answered was  *)
(* carried out or repeats one that was (HandledOK), and which event each   *)
(* point of a call comes after (Telling).                                  *)
(***************************************************************************)
EXTENDS Reliability, TLAPS

SentOK ==
  \A r \in sent : r.call \in Calls /\ r.action \in DOMAIN Plan[r.call]

OncePerKey ==
  \A e, f \in effects : ServiceOf(e) \in Dedupes /\ Repeats(e, f) => e = f

HandledOK ==
  \A r \in handled : \E e \in effects : e = r \/ Repeats(e, r)

TypeInv == TypeOK /\ SentOK

\* An idempotency key depends on the call and the action of a request, not on the
\* candidate or the attempt (compute_idempotency_key).
LEMMA KeyOfAction ==
  ASSUME NEW e, NEW f, e.call = f.call, e.action = f.action
  PROVE  compute_idempotency_key(e) = compute_idempotency_key(f)
BY DEF compute_idempotency_key, Token

\* A call on an action of its plan: its current action, as a value.
LEMMA CurrentAction ==
  ASSUME TypeOK, NEW c \in Calls, point[c] # "done"
  PROVE  /\ Current(c) \in Actions
         /\ Current(c).candidates \in Seq(Candidates)
         /\ action[c] \in DOMAIN Plan[c]
<1>1. Plan[c] \in Seq(Actions) /\ action[c] \in DOMAIN Plan[c]
  BY ReliabilityAssumption DEF TypeOK
<1>2. Plan[c][action[c]] \in Actions
  BY <1>1
<1> QED
  BY <1>1, <1>2 DEF Current, Actions

\* Appending an event of the current attempt keeps trails sequences of events.
LEMMA AuditTyped ==
  ASSUME TypeOK, NEW c \in Calls,
         NEW type \in {"started", "succeeded", "retrying", "failed", "selected"},
         NEW n \in Nat, NEW class \in ErrorClasses \cup {NoClass},
         Audit(c, type, n, class)
  PROVE  trail' \in [Calls -> Seq(Events)]
<1>1. [type |-> type, action |-> action[c], cand |-> cand[c], attempt |-> n,
       class |-> class] \in Events
  BY DEF TypeOK, Events
<1>2. trail[c] \in Seq(Events) /\ trail \in [Calls -> Seq(Events)]
  BY DEF TypeOK
<1>3. Append(trail[c], [type |-> type, action |-> action[c], cand |-> cand[c],
                        attempt |-> n, class |-> class]) \in Seq(Events)
  BY <1>1, <1>2
<1> QED
  BY <1>2, <1>3 DEF Audit

\* Where a call stands: the last conjunct of TypeOK.
PlaceOK(c) ==
  /\ point[c] # "done" => action[c] \in DOMAIN Plan[c]
  /\ point[c] \in {"attempt", "wait"} => cand[c] \in DOMAIN Current(c).candidates

\* A step of one call keeps the others where they stand.
LEMMA OthersStay ==
  ASSUME TypeOK, NEW c \in Calls, PlaceOK(c)',
         \A d \in Calls : d # c => /\ point'[d] = point[d] /\ action'[d] = action[d]
                                  /\ cand'[d] = cand[d]
  PROVE  \A d \in Calls : PlaceOK(d)'
<1> SUFFICES ASSUME NEW d \in Calls, d # c PROVE PlaceOK(d)'
  OBVIOUS
<1>1. PlaceOK(d)
  BY DEF TypeOK, PlaceOK
<1> QED
  BY <1>1 DEF PlaceOK, Current

\* The initial state is typed (the state before the first dispatch).
LEMMA InitTyped == Init => TypeInv
<1> SUFFICES ASSUME Init PROVE TypeInv
  OBVIOUS
<1>1. trail \in [Calls -> Seq(Events)]
  BY DEF Init
<1>2. \A c \in Calls : point[c] # "done" => action[c] \in DOMAIN Plan[c]
  <2> SUFFICES ASSUME NEW c \in Calls, point[c] # "done" PROVE 1 \in DOMAIN Plan[c]
    BY DEF Init
  <2>1. Plan[c] \in Seq(Actions) /\ Plan[c] # <<>>
    BY ReliabilityAssumption DEF Init
  <2> QED
    BY <2>1
<1> QED
  BY <1>1, <1>2 DEF Init, TypeInv, TypeOK, SentOK, Points

\* What an error does to a call keeps it typed (the Err arm of the attempt loop).
LEMMA FailedTyped ==
  ASSUME TypeOK, NEW c \in Calls, point[c] = "wait", NEW class \in ErrorClasses,
         Failed(c, class), UNCHANGED <<registry, action, sent, service>>
  PROVE  TypeOK'
<1>1. CASE attempt[c] < Current(c).maxAttempts /\ Retryable(c, class)
  <2>1. trail' \in [Calls -> Seq(Events)]
    <3>1. Audit(c, "retrying", attempt[c], class) /\ attempt[c] \in Nat
      BY <1>1 DEF Failed, TypeOK
    <3> QED
      BY <3>1, AuditTyped
  <2>2. /\ point' \in [Calls -> Points] /\ attempt' \in [Calls -> Nat \ {0}]
        /\ last' \in [Calls -> ErrorClasses \cup {NoClass}]
    <3>1. point' \in [Calls -> Points] /\ last' \in [Calls -> ErrorClasses \cup {NoClass}]
      BY <1>1 DEF TypeOK, Failed, GoTo, Points
    <3>2. attempt[c] \in Nat \ {0}
      BY DEF TypeOK
    <3>3. attempt[c] + 1 \in Nat \ {0}
      BY <3>2
    <3>4. attempt' = [attempt EXCEPT ![c] = attempt[c] + 1]
      BY <1>1 DEF Failed
    <3> QED
      BY <3>1, <3>3, <3>4 DEF TypeOK
  <2>3. \A d \in Calls : PlaceOK(d)'
    <3>1. PlaceOK(c)'
      BY <1>1 DEF TypeOK, PlaceOK, Failed, GoTo, Current
    <3> QED
      BY <1>1, <3>1, OthersStay DEF TypeOK, Failed, GoTo
  <2> QED
    BY <1>1, <2>1, <2>2, <2>3 DEF TypeOK, Failed, PlaceOK, service
<1>2. CASE ~(attempt[c] < Current(c).maxAttempts /\ Retryable(c, class))
  <2>1. trail' \in [Calls -> Seq(Events)]
    <3>1. Audit(c, "failed", attempt[c], class) /\ attempt[c] \in Nat
      BY <1>2 DEF Failed, TypeOK
    <3> QED
      BY <3>1, AuditTyped
  <2>2. /\ point' \in [Calls -> Points] /\ cand' \in [Calls -> Nat \ {0}]
        /\ last' \in [Calls -> ErrorClasses \cup {NoClass}]
    <3>1. point' \in [Calls -> Points] /\ last' \in [Calls -> ErrorClasses \cup {NoClass}]
      BY <1>2 DEF TypeOK, Failed, GoTo, Points
    <3>2. cand[c] \in Nat \ {0}
      BY DEF TypeOK
    <3>3. cand[c] + 1 \in Nat \ {0}
      BY <3>2
    <3>4. cand' = [cand EXCEPT ![c] = cand[c] + 1]
      BY <1>2 DEF Failed
    <3> QED
      BY <3>1, <3>3, <3>4 DEF TypeOK
  <2>3. \A d \in Calls : PlaceOK(d)'
    <3>1. PlaceOK(c)'
      BY <1>2 DEF TypeOK, PlaceOK, Failed, GoTo, Current
    <3> QED
      BY <1>2, <3>1, OthersStay DEF TypeOK, Failed, GoTo
  <2> QED
    BY <1>2, <2>1, <2>2, <2>3 DEF TypeOK, Failed, PlaceOK, service
<1> QED
  BY <1>1, <1>2

\* Every step keeps the types (all of execute_with_reliability).
LEMMA NextTyped == TypeInv /\ [Next]_vars => TypeInv'
<1> SUFFICES ASSUME TypeInv, [Next]_vars PROVE TypeInv'
  OBVIOUS
<1> USE DEF TypeInv
<1>1. ASSUME NEW c \in Calls, Select(c) PROVE TypeInv'
  <2>1. /\ Current(c).candidates \in Seq(Candidates)
        /\ cand[c] \in DOMAIN Current(c).candidates
    <3>1. Current(c).candidates \in Seq(Candidates)
      BY <1>1, CurrentAction DEF Select
    <3>2. cand[c] \in Nat \ {0} /\ cand[c] <= Len(Current(c).candidates)
      BY <1>1 DEF Select, TypeOK
    <3> QED
      BY <3>1, <3>2
  <2>2. trail' \in [Calls -> Seq(Events)]
    <3>1. CASE cand[c] > 1
      BY <1>1, <3>1, AuditTyped DEF Select, TypeOK
    <3>2. CASE ~(cand[c] > 1)
      BY <1>1, <3>2 DEF Select, TypeOK
    <3> QED
      BY <3>1, <3>2
  <2>3. CASE Candidate(c).kind \in registry
    <3>1. point' \in [Calls -> Points] /\ attempt' \in [Calls -> Nat \ {0}]
      <4>1. /\ point' = [point EXCEPT ![c] = "attempt"]
            /\ attempt' = [attempt EXCEPT ![c] = 1]
        BY <1>1, <2>3 DEF Select, GoTo
      <4> QED
        BY <4>1 DEF TypeOK, Points
    <3>2. PlaceOK(c)'
      BY <1>1, <2>1, <2>3 DEF Select, TypeOK, PlaceOK, GoTo, Current
    <3>3. \A d \in Calls : PlaceOK(d)'
      BY <1>1, <2>3, <3>2, OthersStay DEF Select, TypeOK, GoTo
    <3> QED
      BY <1>1, <2>2, <2>3, <3>1, <3>3 DEF Select, TypeOK, SentOK, PlaceOK, service
  <2>4. CASE Candidate(c).kind \notin registry
    <3>1. /\ cand' \in [Calls -> Nat \ {0}]
          /\ last' \in [Calls -> ErrorClasses \cup {NoClass}]
      <4>1. cand[c] \in Nat \ {0}
        BY DEF TypeOK
      <4>2. cand[c] + 1 \in Nat \ {0}
        BY <4>1
      <4>3. /\ cand' = [cand EXCEPT ![c] = cand[c] + 1]
            /\ last' = [last EXCEPT ![c] = "permanent_error"]
        BY <1>1, <2>4 DEF Select
      <4> QED
        BY <4>2, <4>3 DEF TypeOK, ErrorClasses
    <3>2. PlaceOK(c)'
      BY <1>1, <2>4 DEF Select, TypeOK, PlaceOK, Current
    <3>3. \A d \in Calls : PlaceOK(d)'
      BY <1>1, <2>4, <3>2, OthersStay DEF Select, TypeOK
    <3> QED
      BY <1>1, <2>2, <2>4, <3>1, <3>3 DEF Select, TypeOK, SentOK, PlaceOK, service
  <2> QED
    BY <2>3, <2>4
<1>2. ASSUME NEW c \in Calls, GiveUp(c) PROVE TypeInv'
  BY <1>2 DEF GiveUp, TypeOK, SentOK, GoTo, Points, service, Current
<1>3. ASSUME NEW c \in Calls, Send(c) PROVE TypeInv'
  <2>1. trail' \in [Calls -> Seq(Events)]
    BY <1>3, AuditTyped DEF Send, TypeOK
  <2>2. Request(c) \in Requests /\ action[c] \in DOMAIN Plan[c]
    BY <1>3 DEF Send, TypeOK, Request, Requests
  <2>3. point' \in [Calls -> Points]
    BY <1>3 DEF Send, TypeOK, GoTo, Points
  <2>4. \A d \in Calls : PlaceOK(d)'
    <3>1. PlaceOK(c)'
      BY <1>3 DEF Send, TypeOK, PlaceOK, GoTo, Current
    <3> QED
      BY <1>3, <3>1, OthersStay DEF Send, TypeOK, GoTo
  <2>5. SentOK'
    BY <1>3, <2>2 DEF Send, SentOK, Request
  <2> QED
    BY <1>3, <2>1, <2>2, <2>3, <2>4, <2>5 DEF Send, TypeOK, PlaceOK, service
<1>4. ASSUME NEW c \in Calls, Succeed(c) PROVE TypeInv'
  <2>1. trail' \in [Calls -> Seq(Events)]
    BY <1>4, AuditTyped DEF Succeed, TypeOK
  <2>2. /\ action[c] \in 1..Len(Plan[c])
        /\ action[c] < Len(Plan[c]) => action[c] + 1 \in DOMAIN Plan[c]
    <3>1. Plan[c] \in Seq(Actions) /\ action[c] \in DOMAIN Plan[c]
      BY <1>4, CurrentAction, ReliabilityAssumption DEF Succeed
    <3> QED
      BY <3>1
  <2>3. /\ point' \in [Calls -> Points] /\ action' \in [Calls -> Nat \ {0}]
        /\ cand' \in [Calls -> Nat \ {0}]
        /\ last' \in [Calls -> ErrorClasses \cup {NoClass}]
    BY <1>4 DEF Succeed, TypeOK, GoTo, Points
  <2>4. \A d \in Calls : PlaceOK(d)'
    <3>1. PlaceOK(c)'
      BY <1>4, <2>2 DEF Succeed, TypeOK, PlaceOK, GoTo
    <3> QED
      BY <1>4, <3>1, OthersStay DEF Succeed, TypeOK, GoTo
  <2> QED
    BY <1>4, <2>1, <2>3, <2>4 DEF Succeed, TypeOK, SentOK, PlaceOK, service
<1>5. ASSUME NEW c \in Calls, Err(c) PROVE TypeInv'
  <2>1. Candidate(c) \in Candidates
    <3>1. Current(c).candidates \in Seq(Candidates)
      BY <1>5, CurrentAction DEF Err
    <3>2. cand[c] \in DOMAIN Current(c).candidates
      BY <1>5 DEF Err, TypeOK
    <3> QED
      BY <3>1, <3>2 DEF Candidate
  <2>2. ReturnedBy[Candidate(c).kind] \subseteq ErrorClasses
    BY <2>1, ReliabilityAssumption DEF Candidates, ReturnedBy, ErrorClasses
  <2> QED
    BY <1>5, <2>2, FailedTyped DEF Err, SentOK
<1>6. ASSUME NEW c \in Calls, TimeOut(c) PROVE TypeInv'
  BY <1>6, FailedTyped DEF TimeOut, SentOK, ErrorClasses
<1>7. ASSUME NEW r \in sent, Handle(r) PROVE TypeInv'
  BY <1>7 DEF Handle, TypeOK, SentOK, Current
<1>8. CASE Swap
  BY <1>8 DEF Swap, TypeOK, SentOK, Current, service
<1>10. ASSUME NEW c \in Calls, ClientTimeOut(c) PROVE TypeInv'
  BY <1>10, FailedTyped DEF ClientTimeOut, SentOK, ErrorClasses
<1>9. CASE UNCHANGED vars
  BY <1>9 DEF vars, service, TypeOK, SentOK, Current
<1> QED
  BY <1>1, <1>2, <1>3, <1>4, <1>5, <1>6, <1>7, <1>8, <1>9, <1>10 DEF Next, Step

\* Type correctness of the reliability layer, for every plan and policy.
THEOREM ReliabilityTyped == Spec => []TypeOK
<1>1. Spec => []TypeInv
  BY InitTyped, NextTyped, PTL DEF Spec
<1>2. TypeInv => TypeOK
  BY DEF TypeInv
<1> QED
  BY <1>1, <1>2, PTL

-----------------------------------------------------------------------------
\* Only a service changes the effects, and it never carries out a key twice.
LEMMA NextOncePerKey == TypeInv /\ OncePerKey /\ [Next]_vars => OncePerKey'
<1> SUFFICES ASSUME TypeInv, OncePerKey, [Next]_vars PROVE OncePerKey'
  OBVIOUS
<1>1. ASSUME NEW r \in sent, Handle(r) PROVE OncePerKey'
  <2>1. SUFFICES ASSUME NEW e \in effects', NEW f \in effects',
                        ServiceOf(e) \in Dedupes, Repeats(e, f)
                 PROVE  e = f
    BY DEF OncePerKey, Repeats, ServiceOf, compute_idempotency_key, Token
  <2>2. Repeats(f, e) /\ ServiceOf(f) \in Dedupes
    BY <2>1 DEF Repeats
  <2>3. CASE effects' = effects
    BY <2>1, <2>3 DEF OncePerKey
  <2>4. CASE effects' # effects
    <3>1. /\ effects' = effects \cup {r}
          /\ ServiceOf(r) \in Dedupes => \A g \in effects : ~Repeats(g, r)
      BY <1>1, <2>4 DEF Handle
    <3>2. CASE e \in effects /\ f \in effects
      BY <2>1, <3>2 DEF OncePerKey
    <3>3. CASE e = r \/ f = r
      BY <2>1, <2>2, <3>1, <3>3 DEF Repeats
    <3> QED
      BY <2>1, <3>1, <3>2, <3>3
  <2> QED
    BY <2>3, <2>4
<1>2. CASE UNCHANGED effects
  BY <1>2 DEF OncePerKey, Repeats, ServiceOf, compute_idempotency_key, Token
<1> QED
  BY <1>1, <1>2
     DEF Next, Step, Select, GiveUp, Send, Succeed, Err, TimeOut, ClientTimeOut, Swap, vars, service

\* With one effect per key, an action with a key has one effect per service.
LEMMA OnceImpliesOnce == TypeInv /\ OncePerKey => EffectsOnce
<1> SUFFICES ASSUME OncePerKey, NEW e \in effects, NEW f \in effects,
                    e.call = f.call, e.action = f.action,
                    Plan[e.call][e.action].keyed,
                    ServiceOf(e) = ServiceOf(f), ServiceOf(e) \in Dedupes
             PROVE  e = f
  BY DEF EffectsOnce
<1>1. compute_idempotency_key(e) = compute_idempotency_key(f)
  BY KeyOfAction
<1> QED
  BY <1>1 DEF OncePerKey, Repeats

\* An action with an idempotency key takes effect at most once at a service that
\* honours keys, for any number of attempts, fallbacks and late requests.
THEOREM KeyedActionsTakeEffectOnce == Spec => []EffectsOnce
<1>1. Init => OncePerKey
  BY DEF Init, OncePerKey
<1>2. Spec => [](TypeInv /\ OncePerKey)
  BY <1>1, InitTyped, NextTyped, NextOncePerKey, PTL DEF Spec
<1> QED
  BY <1>2, OnceImpliesOnce, PTL

-----------------------------------------------------------------------------
\* A service answers a request it carried out, or one whose key it carried out.
LEMMA NextHandledOK == HandledOK /\ [Next]_vars => HandledOK'
<1> SUFFICES ASSUME HandledOK, [Next]_vars PROVE HandledOK'
  OBVIOUS
<1>1. ASSUME NEW r \in sent, Handle(r) PROVE HandledOK'
  <2>1. SUFFICES ASSUME NEW s \in handled'
                 PROVE  \E e \in effects' : e = s \/ Repeats(e, s)
    BY DEF HandledOK, Repeats, ServiceOf, compute_idempotency_key, Token
  <2>2. effects \subseteq effects' /\ handled' = handled \cup {r}
    BY <1>1 DEF Handle
  <2>3. CASE s \in handled
    BY <2>2, <2>3 DEF HandledOK
  <2>4. CASE s = r
    BY <1>1, <2>4 DEF Handle
  <2> QED
    BY <2>1, <2>2, <2>3, <2>4
<1>2. CASE UNCHANGED service
  BY <1>2 DEF HandledOK, Repeats, ServiceOf, compute_idempotency_key, Token, service
<1> QED
  BY <1>1, <1>2
     DEF Next, Step, Select, GiveUp, Send, Succeed, Err, TimeOut, ClientTimeOut, Swap, vars, service

\* A call moves on only when its request was answered (Ok of execute).
LEMMA NextSuccessIsReal ==
  DistinctKeys /\ TypeInv /\ HandledOK /\ SuccessIsReal /\ [Next]_vars => SuccessIsReal'
<1> SUFFICES ASSUME DistinctKeys, TypeInv, HandledOK, SuccessIsReal, [Next]_vars
             PROVE  SuccessIsReal'
  OBVIOUS
<1>1. effects \subseteq effects'
  BY DEF Next, Step, Select, GiveUp, Send, Succeed, Err, TimeOut, ClientTimeOut, Handle, Swap, vars, service
<1>2. ASSUME NEW c \in Calls, Succeed(c) PROVE SuccessIsReal'
  <2>1. PICK e \in effects : e = Request(c) \/ Repeats(e, Request(c))
    BY <1>2 DEF Succeed, HandledOK
  <2>2. e.call = c /\ e.action = action[c]
    <3>1. CASE e = Request(c)
      BY <3>1 DEF Request
    <3>2. CASE Repeats(e, Request(c))
      <4> DEFINE Of(r) == [call |-> r.call, action |-> r.action, cand |-> 1, attempt |-> 1]
      <4>1. /\ Request(c).call = c /\ Request(c).action = action[c]
            /\ action[c] \in DOMAIN Plan[c]
        BY <1>2, CurrentAction DEF Succeed, Request, TypeInv
      <4>2. e.call \in Calls /\ e.action \in DOMAIN Plan[e.call]
        BY <2>1 DEF TypeInv, TypeOK, SentOK
      <4>3. /\ compute_idempotency_key(Of(e)) = compute_idempotency_key(e)
            /\ compute_idempotency_key(Of(Request(c)))
                 = compute_idempotency_key(Request(c))
        BY KeyOfAction
      <4> QED
        BY <3>2, <4>1, <4>2, <4>3 DEF DistinctKeys, Repeats
    <3> QED
      BY <2>1, <3>1, <3>2
  <2>3. SUFFICES ASSUME NEW d \in Calls, NEW i \in 1..(action'[d] - 1)
                 PROVE  \E f \in effects' : f.call = d /\ f.action = i
    BY DEF SuccessIsReal
  <2>4. CASE d = c /\ i = action[c]
    BY <1>1, <2>1, <2>2, <2>4
  <2>5. CASE ~(d = c /\ i = action[c])
    <3>1. i \in 1..(action[d] - 1)
      BY <1>2, <2>3, <2>5 DEF Succeed, TypeInv, TypeOK
    <3> QED
      BY <1>1, <3>1 DEF SuccessIsReal
  <2> QED
    BY <2>4, <2>5
<1>3. CASE UNCHANGED action
  BY <1>1, <1>3 DEF SuccessIsReal
<1> QED
  BY <1>2, <1>3
     DEF Next, Step, Select, GiveUp, Send, Err, TimeOut, ClientTimeOut, Handle, Swap, vars

\* When no two actions share a key, an action that returned Ok has taken effect: a
\* service never takes its request for a repetition of another action's.
THEOREM SucceededActionsTookEffect ==
  ASSUME DistinctKeys PROVE Spec => []SuccessIsReal
<1>1. Init => HandledOK /\ SuccessIsReal
  BY DEF Init, HandledOK, SuccessIsReal
<1>2. TypeInv /\ HandledOK /\ SuccessIsReal /\ [Next]_vars => SuccessIsReal'
  BY NextSuccessIsReal
<1>3. Spec => [](TypeInv /\ HandledOK /\ SuccessIsReal)
  BY <1>1, <1>2, InitTyped, NextTyped, NextHandledOK, PTL DEF Spec
<1> QED
  BY <1>3, PTL

-----------------------------------------------------------------------------
\* The last event of a call, and whether it is of these types and of its action.
LastEvent(c) == trail[c][Len(trail[c])]

Latest(c, types) ==
  /\ trail[c] # <<>> /\ LastEvent(c).type \in types /\ LastEvent(c).action = action[c]

\* The trail tells nothing of the action yet.
Begins(c) ==
  IF trail[c] = <<>> THEN action[c] = 1
  ELSE LastEvent(c).type = "succeeded" /\ action[c] = LastEvent(c).action + 1

\* What the last event was, by where the call is.
Selecting(c) ==
  \/ Begins(c) /\ cand[c] \in {1, 2}
  \/ Latest(c, {"failed", "selected"}) /\ cand[c] = LastEvent(c).cand + 1 /\ cand[c] > 1

Attempting(c) ==
  \/ Begins(c) /\ cand[c] = 1 /\ attempt[c] = 1
  \/ Latest(c, {"selected"}) /\ cand[c] = LastEvent(c).cand /\ attempt[c] = 1
  \/ /\ Latest(c, {"retrying"}) /\ cand[c] = LastEvent(c).cand
     /\ attempt[c] = LastEvent(c).attempt + 1 /\ attempt[c] <= Current(c).maxAttempts
     /\ LastEvent(c).class \in Current(c).retryOn

Waiting(c) ==
  /\ Latest(c, {"started"}) /\ cand[c] = LastEvent(c).cand
  /\ attempt[c] = LastEvent(c).attempt

Telling(c) ==
  /\ point[c] = "select" => Selecting(c)
  /\ point[c] = "attempt" => Attempting(c)
  /\ point[c] = "wait" => Waiting(c)
  /\ point[c] \in {"done", "failed"} /\ trail[c] # <<>> =>
       LastEvent(c).type \in {"succeeded", "failed", "selected"}

\* The first and the last conjunct of TrailTellsAttempts.
Adjacent(c) == \A i \in 1..(Len(trail[c]) - 1) : Follows(c, trail[c][i], trail[c][i + 1])

Announces(c, r) ==
  \E i \in DOMAIN trail[c] :
    /\ trail[c][i].type = "started"
    /\ <<trail[c][i].action, trail[c][i].cand, trail[c][i].attempt>>
         = <<r.action, r.cand, r.attempt>>

Announced(c) == \A r \in sent : r.call = c => Announces(c, r)

Tells(c) == Telling(c) /\ Adjacent(c) /\ Announced(c)

\* What an audit event does to the trail of its call: it comes last, and what the
\* trail told it tells still.
LEMMA AuditTells ==
  ASSUME TypeOK, NEW c \in Calls, NEW type, NEW n, NEW class, Audit(c, type, n, class),
         NEW e, e = [type |-> type, action |-> action[c], cand |-> cand[c],
                     attempt |-> n, class |-> class],
         Adjacent(c), trail[c] # <<>> => Follows(c, LastEvent(c), e)
  PROVE  /\ LastEvent(c)' = e /\ trail'[c] # <<>> /\ Adjacent(c)'
         /\ \A r : Announces(c, r) => Announces(c, r)'
         /\ \A d \in Calls : d # c => trail'[d] = trail[d]
<1>1. /\ trail[c] \in Seq(Events) /\ trail'[c] = Append(trail[c], e)
      /\ \A d \in Calls : d # c => trail'[d] = trail[d]
  BY DEF TypeOK, Audit
<1> DEFINE q == trail[c]
           k == Len(trail[c])
<1>2. /\ q \in Seq(Events) /\ k \in Nat /\ k = Len(q) /\ q # <<>> => k \in 1..k
      /\ Len(trail'[c]) = k + 1 /\ trail'[c][k + 1] = e
      /\ \A i \in 1..k : i \in DOMAIN trail'[c] /\ trail'[c][i] = q[i]
      /\ DOMAIN q = 1..k
  BY <1>1
<1>3. LastEvent(c)' = e /\ trail'[c] # <<>>
  BY <1>2 DEF LastEvent
<1>4. \A r : Announces(c, r) => Announces(c, r)'
  BY <1>2 DEF Announces
<1>5. Adjacent(c)'
  <2> SUFFICES ASSUME NEW i \in 1..k PROVE Follows(c, trail'[c][i], trail'[c][i + 1])
    BY <1>2 DEF Adjacent
  <2>1. CASE i = k
    <3>1. trail'[c][i] = LastEvent(c) /\ trail'[c][i + 1] = e /\ q # <<>>
      BY <1>2, <2>1 DEF LastEvent
    <3> QED BY <3>1
  <2>2. CASE i # k
    <3>1. i \in 1..(k - 1) /\ i + 1 \in 1..k
      BY <1>2, <2>2
    <3>2. trail'[c][i] = trail[c][i] /\ trail'[c][i + 1] = trail[c][i + 1]
      BY <1>2, <3>1
    <3> QED BY <3>1, <3>2 DEF Adjacent
  <2> QED BY <2>1, <2>2
<1> QED BY <1>1, <1>3, <1>4, <1>5

\* A step that leaves a call where it is and sends nothing for it leaves its tale.
LEMMA OthersTell ==
  ASSUME NEW d \in Calls, Tells(d), point'[d] = point[d], action'[d] = action[d],
         cand'[d] = cand[d], attempt'[d] = attempt[d], trail'[d] = trail[d],
         \A r \in sent' : r.call = d => r \in sent
  PROVE  Tells(d)'
<1>1. Telling(d)'
  BY DEF Tells, Telling, Selecting, Attempting, Waiting, Begins, Latest, LastEvent, Current
<1>2. Adjacent(d)'
  BY DEF Tells, Adjacent
<1>3. Announced(d)'
  BY DEF Tells, Announced, Announces
<1> QED
  BY <1>1, <1>2, <1>3 DEF Tells

\* An error is told as a retry or as the failure of its candidate.
LEMMA FailedTells ==
  ASSUME TypeInv, NEW c \in Calls, Tells(c), point[c] = "wait", NEW class,
         Failed(c, class), UNCHANGED <<action, sent>>
  PROVE  Tells(c)' /\ \A d \in Calls : d # c => trail'[d] = trail[d]
<1>1. /\ Latest(c, {"started"}) /\ cand[c] = LastEvent(c).cand
      /\ attempt[c] = LastEvent(c).attempt /\ Adjacent(c) /\ Announced(c)
  BY DEF Tells, Telling, Waiting
<1>2. /\ Current(c)' = Current(c) /\ attempt[c] \in Nat /\ cand[c] \in Nat
      /\ Current(c).maxAttempts \in Nat
  BY CurrentAction DEF Current, TypeInv, TypeOK, Actions
<1>3. ASSUME NEW type \in {"retrying", "failed"}, Audit(c, type, attempt[c], class)
      PROVE  /\ LastEvent(c)' = [type |-> type, action |-> action[c], cand |-> cand[c],
                                 attempt |-> attempt[c], class |-> class]
             /\ trail'[c] # <<>> /\ Adjacent(c)' /\ Announced(c)'
             /\ \A d \in Calls : d # c => trail'[d] = trail[d]
  <2> DEFINE e == [type |-> type, action |-> action[c], cand |-> cand[c],
                   attempt |-> attempt[c], class |-> class]
  <2>1. Follows(c, LastEvent(c), e)
    BY <1>1 DEF Follows, Latest
  <2>2. /\ LastEvent(c)' = e /\ trail'[c] # <<>> /\ Adjacent(c)'
        /\ \A r : Announces(c, r) => Announces(c, r)'
        /\ \A d \in Calls : d # c => trail'[d] = trail[d]
    BY <1>1, <1>3, <2>1, AuditTells DEF TypeInv
  <2> QED BY <1>1, <2>2 DEF Announced
<1>4. CASE attempt[c] < Current(c).maxAttempts /\ Retryable(c, class)
  <2>1. /\ Audit(c, "retrying", attempt[c], class) /\ point'[c] = "attempt"
        /\ attempt'[c] = attempt[c] + 1 /\ cand'[c] = cand[c]
    BY <1>4 DEF Failed, GoTo, TypeInv, TypeOK
  <2>2. attempt[c] + 1 <= Current(c).maxAttempts /\ class \in Current(c).retryOn
    BY <1>2, <1>4 DEF Retryable
  <2>3. Attempting(c)'
    BY <1>2, <1>3, <2>1, <2>2 DEF Attempting, Latest
  <2> QED BY <1>3, <2>1, <2>3 DEF Tells, Telling
<1>5. CASE ~(attempt[c] < Current(c).maxAttempts /\ Retryable(c, class))
  <2>1. /\ Audit(c, "failed", attempt[c], class) /\ point'[c] = "select"
        /\ cand'[c] = cand[c] + 1
    BY <1>5 DEF Failed, GoTo, TypeInv, TypeOK
  <2>2. Selecting(c)'
    BY <1>2, <1>3, <2>1 DEF Selecting, Latest, TypeInv, TypeOK
  <2> QED BY <1>3, <2>1, <2>2 DEF Tells, Telling
<1> QED BY <1>4, <1>5

\* A candidate is told as selected when another came before it, and taken or skipped.
LEMMA SelectTells ==
  ASSUME TypeInv, NEW c \in Calls, Tells(c), Select(c)
  PROVE  Tells(c)' /\ \A d \in Calls : d # c => trail'[d] = trail[d]
<1>1. Selecting(c) /\ Adjacent(c) /\ Announced(c) /\ cand[c] \in Nat \ {0}
  BY DEF Select, Tells, Telling, TypeInv, TypeOK
<1>2. action' = action /\ sent' = sent
  BY DEF Select
<1>3. \/ point'[c] = "attempt" /\ attempt'[c] = 1 /\ cand'[c] = cand[c]
      \/ point'[c] = "select" /\ cand'[c] = cand[c] + 1
  BY DEF Select, GoTo, TypeInv, TypeOK
<1>4. CASE cand[c] > 1
  <2> DEFINE e == [type |-> "selected", action |-> action[c], cand |-> cand[c],
                   attempt |-> 0, class |-> last[c]]
  <2>1. Audit(c, "selected", 0, last[c])
    BY <1>4 DEF Select
  <2>2. trail[c] # <<>> => Follows(c, LastEvent(c), e)
    <3>1. CASE Begins(c) /\ cand[c] = 2
      BY <3>1 DEF Begins, Follows
    <3>2. CASE Latest(c, {"failed", "selected"}) /\ cand[c] = LastEvent(c).cand + 1
      BY <3>2 DEF Latest, Follows
    <3> QED BY <1>1, <1>4, <3>1, <3>2 DEF Selecting
  <2>3. /\ LastEvent(c)' = e /\ trail'[c] # <<>> /\ Adjacent(c)'
        /\ \A r : Announces(c, r) => Announces(c, r)'
        /\ \A d \in Calls : d # c => trail'[d] = trail[d]
    BY <1>1, <2>1, <2>2, AuditTells DEF TypeInv
  <2>4. Announced(c)'
    BY <1>1, <1>2, <2>3 DEF Announced
  <2>5. point'[c] = "attempt" => Attempting(c)'
    BY <1>2, <1>3, <2>3 DEF Attempting, Latest
  <2>6. point'[c] = "select" => Selecting(c)'
    BY <1>1, <1>2, <1>3, <1>4, <2>3 DEF Selecting, Latest
  <2> QED BY <1>3, <2>3, <2>4, <2>5, <2>6 DEF Tells, Telling
<1>5. CASE cand[c] = 1
  <2>1. Begins(c) /\ trail' = trail
    BY <1>1, <1>5 DEF Select, Selecting
  <2>2. Adjacent(c)' /\ Announced(c)' /\ Begins(c)'
    BY <1>1, <1>2, <2>1 DEF Adjacent, Announced, Announces, Begins, LastEvent
  <2>3. Attempting(c)' \/ point'[c] = "select"
    BY <1>3, <1>5, <2>2 DEF Attempting
  <2>4. point'[c] = "select" => Selecting(c)'
    BY <1>3, <1>5, <2>2 DEF Selecting
  <2> QED BY <1>3, <2>1, <2>2, <2>3, <2>4 DEF Tells, Telling
<1> QED BY <1>1, <1>4, <1>5

\* A call gives up after a candidate that failed or was skipped.
LEMMA GiveUpTells ==
  ASSUME TypeInv, NEW c \in Calls, Tells(c), GiveUp(c)
  PROVE  Tells(c)'
<1>1. Selecting(c) /\ Adjacent(c) /\ Announced(c)
  BY DEF GiveUp, Tells, Telling
<1>2. point'[c] = "failed" /\ trail' = trail /\ sent' = sent
  BY DEF GiveUp, GoTo, TypeInv, TypeOK
<1>3. Adjacent(c)' /\ Announced(c)'
  BY <1>1, <1>2 DEF Adjacent, Announced, Announces
<1>4. trail[c] # <<>> => LastEvent(c).type \in {"succeeded", "failed", "selected"}
  BY <1>1 DEF Selecting, Begins, Latest
<1> QED
  BY <1>2, <1>3, <1>4 DEF Tells, Telling, LastEvent

\* A request leaves after the event that announces it.
LEMMA SendTells ==
  ASSUME TypeInv, NEW c \in Calls, Tells(c), Send(c)
  PROVE  Tells(c)' /\ \A d \in Calls : d # c => trail'[d] = trail[d]
<1> DEFINE e == [type |-> "started", action |-> action[c], cand |-> cand[c],
                 attempt |-> attempt[c], class |-> NoClass]
<1>1. Attempting(c) /\ Adjacent(c) /\ Announced(c)
  BY DEF Send, Tells, Telling
<1>2. /\ Audit(c, "started", attempt[c], NoClass) /\ sent' = sent \cup {Request(c)}
      /\ point'[c] = "wait" /\ UNCHANGED <<action, cand, attempt>>
  BY DEF Send, GoTo, TypeInv, TypeOK
<1>3. trail[c] # <<>> => Follows(c, LastEvent(c), e)
  BY <1>1 DEF Attempting, Begins, Latest, Follows, Current
<1>4. /\ LastEvent(c)' = e /\ trail'[c] # <<>> /\ Adjacent(c)'
      /\ \A r : Announces(c, r) => Announces(c, r)'
      /\ \A d \in Calls : d # c => trail'[d] = trail[d]
  BY <1>1, <1>2, <1>3, AuditTells DEF TypeInv
<1>5. \A r : r = Request(c) => Announces(c, r)'
  <2>1. trail'[c] = Append(trail[c], e) /\ trail[c] \in Seq(Events)
    BY <1>2 DEF Audit, TypeInv, TypeOK
  <2>2. Len(trail'[c]) \in DOMAIN trail'[c] /\ trail'[c][Len(trail'[c])] = e
    BY <2>1
  <2> QED BY <1>2, <2>2 DEF Announces, Request
<1>6. Announced(c)'
  BY <1>1, <1>2, <1>4, <1>5 DEF Announced
<1> QED
  BY <1>2, <1>4, <1>6 DEF Tells, Telling, Waiting, Latest

\* An action that succeeded is told as such, and the call begins its next one.
LEMMA SucceedTells ==
  ASSUME TypeInv, NEW c \in Calls, Tells(c), Succeed(c)
  PROVE  Tells(c)' /\ \A d \in Calls : d # c => trail'[d] = trail[d]
<1> DEFINE e == [type |-> "succeeded", action |-> action[c], cand |-> cand[c],
                 attempt |-> attempt[c], class |-> NoClass]
<1>1. Waiting(c) /\ Adjacent(c) /\ Announced(c)
  BY DEF Succeed, Tells, Telling
<1>2. /\ Audit(c, "succeeded", attempt[c], NoClass) /\ sent' = sent
      /\ point'[c] \in {"select", "done"} /\ action'[c] = action[c] + 1 /\ cand'[c] = 1
  BY DEF Succeed, GoTo, TypeInv, TypeOK
<1>3. trail[c] # <<>> => Follows(c, LastEvent(c), e)
  BY <1>1 DEF Waiting, Latest, Follows
<1>4. /\ LastEvent(c)' = e /\ trail'[c] # <<>> /\ Adjacent(c)'
      /\ \A r : Announces(c, r) => Announces(c, r)'
      /\ \A d \in Calls : d # c => trail'[d] = trail[d]
  BY <1>1, <1>2, <1>3, AuditTells DEF TypeInv
<1>5. Announced(c)' /\ Selecting(c)'
  BY <1>1, <1>2, <1>4 DEF Announced, Selecting, Begins
<1> QED
  BY <1>2, <1>4, <1>5 DEF Tells, Telling

\* Every step leaves every trail a tale of its call: the steps of the call itself,
\* of the others, of the services and of a reload.
LEMMA NextTells ==
  TypeInv /\ (\A c \in Calls : Tells(c)) /\ [Next]_vars => (\A c \in Calls : Tells(c))'
<1> SUFFICES ASSUME TypeInv, \A c \in Calls : Tells(c), [Next]_vars, NEW d \in Calls
             PROVE  Tells(d)'
  OBVIOUS
<1>1. ASSUME NEW c \in Calls, Tells(c)', d # c => trail'[d] = trail[d],
             \/ Select(c) \/ GiveUp(c) \/ Send(c) \/ Succeed(c) \/ Err(c) \/ TimeOut(c)
             \/ ClientTimeOut(c)
      PROVE  Tells(d)'
  <2> SUFFICES ASSUME d # c PROVE Tells(d)'
    BY <1>1
  <2>1. /\ point'[d] = point[d] /\ action'[d] = action[d] /\ cand'[d] = cand[d]
        /\ attempt'[d] = attempt[d]
    BY <1>1 DEF Select, GiveUp, Send, Succeed, Err, TimeOut, ClientTimeOut, Failed, GoTo,
                TypeInv, TypeOK
  <2>2. \A r \in sent' : r.call = d => r \in sent
    BY <1>1 DEF Select, GiveUp, Send, Succeed, Err, TimeOut, ClientTimeOut, Request
  <2> QED BY <1>1, <2>1, <2>2, OthersTell
<1>2. ASSUME NEW c \in Calls, Select(c) PROVE Tells(d)'
  BY <1>1, <1>2, SelectTells
<1>3. ASSUME NEW c \in Calls, GiveUp(c) PROVE Tells(d)'
  BY <1>1, <1>3, GiveUpTells DEF GiveUp
<1>4. ASSUME NEW c \in Calls, Send(c) PROVE Tells(d)'
  BY <1>1, <1>4, SendTells
<1>5. ASSUME NEW c \in Calls, Succeed(c) PROVE Tells(d)'
  BY <1>1, <1>5, SucceedTells
<1>6. ASSUME NEW c \in Calls, Err(c) \/ TimeOut(c) \/ ClientTimeOut(c) PROVE Tells(d)'
  <2>1. PICK class : Failed(c, class)
    BY <1>6 DEF Err, TimeOut, ClientTimeOut
  <2>2. point[c] = "wait" /\ UNCHANGED <<action, sent>>
    BY <1>6 DEF Err, TimeOut, ClientTimeOut
  <2> QED BY <1>1, <1>6, <2>1, <2>2, FailedTells
<1>7. ASSUME \/ \E r \in sent : Handle(r)
             \/ Swap
             \/ UNCHANGED vars
      PROVE  Tells(d)'
  <2>1. UNCHANGED <<point, action, cand, attempt, trail, sent>>
    BY <1>7 DEF Handle, Swap, vars
  <2> QED BY <2>1, OthersTell
<1> QED
  BY <1>2, <1>3, <1>4, <1>5, <1>6, <1>7 DEF Next, Step

\* Before its first action a call has nothing to tell.
LEMMA InitTells == Init => \A c \in Calls : Tells(c)
<1> SUFFICES ASSUME Init, NEW c \in Calls PROVE Tells(c)
  OBVIOUS
<1>1. /\ trail[c] = <<>> /\ sent = {} /\ action[c] = 1 /\ cand[c] = 1
      /\ point[c] \in {"done", "select"}
  BY DEF Init
<1> QED
  BY <1>1 DEF Tells, Telling, Selecting, Begins, Adjacent, Announced

\* The audit trail of a call tells its attempts: whatever is registered or reloaded,
\* fails, times out or is answered late, retries are of a retryable class and bounded
\* by maxAttempts, a fallback follows a failed or unregistered candidate, an action
\* that succeeded is over, and a request leaves only after it was announced
\* (execute_with_reliability).
THEOREM TrailsTellAttempts == Spec => []TrailTellsAttempts
<1>1. (\A c \in Calls : Tells(c)) => TrailTellsAttempts
  BY DEF Tells, Telling, Adjacent, Announced, Announces, LastEvent, TrailTellsAttempts
<1>2. Spec => [](TypeInv /\ \A c \in Calls : Tells(c))
  BY InitTyped, NextTyped, InitTells, NextTells, PTL DEF Spec
<1> QED
  BY <1>1, <1>2, PTL
=============================================================================
