-------------------------- MODULE SubWorkflow_proofs --------------------------
(***************************************************************************)
(* Type correctness of the sub-workflows, the nesting of their executors   *)
(* with the saves that outlive them, and the children parents follow, for  *)
(* any definitions, clients, deadlines, retries and timeouts.              *)
(***************************************************************************)
EXTENDS SubWorkflow, TLAPS

Waiting == {"starting", "poll", "apply"}

\* Runs of a chain are named after their workflow; a run's callers are older than it
\* and hold all their own callers, and those of a run under way await a start that
\* is on the path to it.
Nested ==
  \A r \in Runs :
    /\ r \in Ids /\ pc[r] # "idle" => r \in Used /\ target[r] = r
    /\ \A p \in callers[r] : /\ r \in Used /\ callers[p] \subseteq callers[r]
                             /\ p \in Clients \/ (p \in Ids /\ p < r)
    /\ pc[r] \in Active =>
         \A p \in callers[r] : pc[p] = "starting" /\ child[p] \in callers[r] \cup {r}

\* The child of run r is one it started.
Started(r) ==
  child[r] \in Used /\ parent[child[r]] = target[r] /\ def[child[r]] = Child[DefOf(r)]

\* What a run knows of the two workflows it has loaded.
RunsKnow ==
  \A r \in Runs :
    /\ pc[r] \in Waiting => Started(r)
    /\ pc[r] = "apply" => /\ loaded[r] <= version[child[r]]
                          /\ Deadline[def[child[r]]] # "none"
                          /\ loaded[r] = version[child[r]] => state[child[r]] \notin Terminal
    /\ pc[r] = "save" /\ Child[DefOf(r)] # NoDef =>
         Started(r) /\ state[child[r]] \in Terminal
    /\ pc[r] \in Active => /\ seen[r] <= version[target[r]]
                           /\ seen[r] = version[target[r]] => state[target[r]] = "open"

Fresh ==
  \A w \in Ids : /\ w \in Used => parent[w] < w
                 /\ w \notin Used => version[w] = 0
                 /\ seen[w] = 0

\* A save adrift moves a workflow nobody has moved since, or none, and ends a parent
\* only when a child of its own has ended.
Drifts ==
  \A s \in adrift :
    /\ s.flow \in Used /\ s.seen <= version[s.flow]
    /\ s.seen = version[s.flow] => state[s.flow] \notin Terminal
    /\ s.state = "done" /\ Child[def[s.flow]] # NoDef => OwnChildEnded(s.flow)

Inv == TypeOK /\ Nested /\ RunsKnow /\ Fresh /\ ParentsFollowChildren /\ Drifts

-----------------------------------------------------------------------------
\* Two kinds of effects most actions are made of.  Runs settle: some end, and the
\* executors that awaited their starts go on.
Settles ==
  /\ UNCHANGED <<target, seen, child, loaded, result, callers>>
  /\ pc' \in [Runs -> {"idle"} \cup Active \cup Ended]
  /\ tries' \in [Runs -> Nat] /\ elapsed' \in [Runs -> BOOLEAN]
  /\ \A q \in Runs :
       /\ pc'[q] = "idle" <=> pc[q] = "idle"
       /\ pc'[q] \in Active => pc[q] \in Active /\ \A p \in callers[q] : pc'[p] = "starting"
       /\ pc'[q] \in Waiting => pc[q] \in Waiting
       /\ pc'[q] = "apply" => pc[q] = "apply"
       /\ pc'[q] = "save" => pc[q] = "save"

\* A workflow that is not terminal moves.
Moves(w) ==
  /\ w \in Used /\ state[w] \notin Terminal
  /\ UNCHANGED <<next, def, parent>>
  /\ state' \in [Ids -> {"open", "late"} \cup Terminal]
  /\ version' \in [Ids -> Nat] /\ context' \in [Ids -> Vals \cup {Empty}]
  /\ \A x \in Ids : x # w =>
       state'[x] = state[x] /\ version'[x] = version[x] /\ context'[x] = context[x]
  /\ version'[w] = version[w] + 1

Quiet == UNCHANGED flows \/ \E w \in Ids : Moves(w)

Saves == [flow : Ids, seen : Nat, state : {"late"} \cup Terminal, context : Vals \cup {Empty}]

\* What the environment may change of its own.
Around == overdue' \subseteq Ids /\ draining' \in BOOLEAN /\ adrift' \subseteq Saves

-----------------------------------------------------------------------------
LEMMA Numbers ==
  ASSUME TypeOK
  PROVE  /\ Ids \subseteq Nat /\ 0 \notin Ids /\ Used \subseteq Ids /\ next \in Nat
         /\ Clients \cap Ids = {} /\ next \notin Used
         /\ \A w \in Ids : version[w] \in Nat
         /\ \A r \in Runs : seen[r] \in Nat /\ loaded[r] \in Nat
BY SubWorkflowAssumption DEF TypeOK, Ids, Used

LEMMA Initially == Init => Inv
<1> SUFFICES ASSUME Init PROVE Inv
  OBVIOUS
<1>1. Used = {} /\ 1 \in Nat /\ Ids \subseteq Nat
  BY SubWorkflowAssumption DEF Init, Used, Ids
<1>2. TypeOK
  <2>1. \A w \in Used : def[w] \in Defs
    BY <1>1
  <2>2. next \in 1..(MaxIds + 1)
    BY SubWorkflowAssumption DEF Init
  <2>3. \A r \in Runs : pc[r] = "idle"
    BY DEF Init
  <2> QED  BY <1>1, <2>1, <2>2, <2>3 DEF Init, TypeOK, Terminal, Active, Ended
<1>3. Nested /\ RunsKnow
  BY DEF Init, Nested, RunsKnow, Active, Waiting
<1>4. Fresh
  BY <1>1 DEF Init, Fresh, Runs
<1>5. Drifts
  BY DEF Init, Drifts
<1> QED  BY <1>1, <1>2, <1>3, <1>4, <1>5 DEF Inv, ParentsFollowChildren

\* An executor's start is the one its run's workflow was created by.
LEMMA StarterAwaits ==
  ASSUME TypeOK, Nested
  PROVE  \A r \in Runs : pc[r] \in Active => \A p \in Starter(r) :
           /\ p \in Runs /\ pc[p] = "starting" /\ p \in callers[r] /\ child[p] = r
           /\ r \in Ids /\ target[r] = r
<1> SUFFICES ASSUME NEW r \in Runs, pc[r] \in Active, NEW p \in Starter(r)
             PROVE  /\ p \in Runs /\ pc[p] = "starting" /\ p \in callers[r] /\ child[p] = r
                    /\ r \in Ids /\ target[r] = r
  OBVIOUS
<1>1. p \in callers[r] /\ child[p] = target[r] /\ p \in Runs
  BY DEF Starter, TypeOK
<1>2. r \in Used /\ r \in Ids /\ pc[r] # "idle"
  BY <1>1, Numbers DEF Nested, Active
<1> QED  BY <1>1, <1>2 DEF Nested

\* When r answers or is dropped, no run under way is left below the executors it
\* resumes: a run r is below them on every path to such a run.
LEMMA NoneBelow ==
  ASSUME TypeOK, Nested
  PROVE  \A r, q \in Runs : \A p \in Starter(r) :
           pc[r] \in Active /\ pc[q] \in Active /\ q # r /\ p \in callers[q]
             => r \in callers[q] /\ pc[r] = "starting"
<1> SUFFICES ASSUME NEW r \in Runs, NEW q \in Runs, NEW p \in Starter(r),
                    pc[r] \in Active, pc[q] \in Active, q # r, p \in callers[q]
             PROVE  r \in callers[q] /\ pc[r] = "starting"
  OBVIOUS
<1>1. child[p] = r
  BY StarterAwaits
<1> QED  BY <1>1 DEF Nested

LEMMA FailSettles ==
  ASSUME TypeOK, Nested
  PROVE  \A r \in Runs : \A class : \A gone \in {{}, Under(r)} :
           (/\ Fail(r, class, gone) \/ End(r, "committed", gone)
            /\ pc[r] \in Active
            /\ pc[r] = "starting" => gone = Under(r))
           => Settles
<1> SUFFICES ASSUME NEW r \in Runs, NEW class, NEW gone \in {{}, Under(r)},
                    Fail(r, class, gone) \/ End(r, "committed", gone), pc[r] \in Active,
                    pc[r] = "starting" => gone = Under(r)
             PROVE  Settles
  OBVIOUS
<1>1. PICK point, back : /\ Settle(r, point, gone, back)
                         /\ \/ point = "execute" /\ back = "starting"
                            \/ point \in {"failed", "committed"} /\ back = "poll"
  BY DEF Fail, End
<1>2. /\ UNCHANGED <<target, seen, child, loaded, result, callers>>
      /\ tries' \in [Runs -> Nat] /\ elapsed' \in [Runs -> BOOLEAN]
  <2>1. tries' \in [Runs -> Nat]
    BY DEF Fail, End, TypeOK
  <2>2. CASE elapsed' = elapsed
    BY <2>1, <2>2 DEF Fail, End, TypeOK
  <2>3. CASE elapsed' = [q \in Runs |-> elapsed[q] /\ q \notin Starter(r)]
    <3>1. \A q \in Runs : (elapsed[q] /\ q \notin Starter(r)) \in BOOLEAN
      OBVIOUS
    <3>2. elapsed' \in [Runs -> BOOLEAN]
      BY <2>3, <3>1, Zenon
    <3> QED  BY <2>1, <3>2 DEF Fail, End
  <2> QED  BY <2>2, <2>3 DEF Fail, End
<1>3. /\ pc'[r] = point
      /\ \A q \in Runs : q # r =>
           /\ q \in gone => pc'[q] = "dropped"
           /\ q \notin gone /\ q \in Starter(r) => pc'[q] = back
           /\ q \notin gone /\ q \notin Starter(r) => pc'[q] = pc[q]
  BY <1>1 DEF Settle
<1>4. pc' \in [Runs -> {"idle"} \cup Active \cup Ended]
  <2>1. \A q \in Runs : pc'[q] \in {"idle"} \cup Active \cup Ended
    BY <1>1, <1>3 DEF TypeOK, Active, Ended
  <2> QED  BY <1>1, <2>1 DEF Settle
<1>5. \A q \in gone : pc[q] \in Active /\ r \in callers[q] /\ q \in Runs
  BY DEF Under
<1>6. r \notin callers[r]
  <2>1. ASSUME r \in callers[r] PROVE FALSE
    <3>1. r \in Ids /\ (r \in Clients \/ r < r)
      BY <2>1, Numbers DEF Nested
    <3> QED  BY <3>1, Numbers
  <2> QED  BY <2>1
<1>7. \A q \in Starter(r) : q \in Runs /\ pc[q] = "starting" /\ q \in callers[r]
  BY StarterAwaits
<1>8. ASSUME NEW q \in Runs
      PROVE  /\ pc'[q] = "idle" <=> pc[q] = "idle"
             /\ pc'[q] \in Active => pc[q] \in Active
             /\ pc'[q] \in Waiting => pc[q] \in Waiting
             /\ pc'[q] = "apply" => pc[q] = "apply"
             /\ pc'[q] = "save" => pc[q] = "save"
  BY <1>1, <1>3, <1>5, <1>7 DEF Active, Waiting
<1>9. ASSUME NEW q \in Runs, pc'[q] \in Active, NEW p \in callers[q]
      PROVE  pc'[p] = "starting"
  <2>1. pc[q] \in Active /\ pc[p] = "starting" /\ p \in Runs
    BY <1>8, <1>9 DEF Nested, TypeOK
  <2>2. q \notin gone
    BY <1>3, <1>5, <1>9, <1>6 DEF Active
  <2>3. CASE q = r
    <3>1. p # r /\ r \notin callers[p]
      <4>1. r \in Ids /\ r \in Used /\ (p \in Clients \/ (p \in Ids /\ p < r))
        BY <1>9, <2>3, Numbers DEF Nested
      <4>2. \A x \in callers[p] : x \in Clients \/ (p \in Ids /\ x \in Ids /\ x < p)
        BY <2>1, Numbers DEF Nested
      <4> QED  BY <4>1, <4>2, Numbers
    <3>2. p \notin gone
      BY <1>5, <3>1
    <3>3. point = "execute" /\ back = "starting"
      BY <1>1, <1>3, <1>9, <2>3 DEF Active
    <3> QED  BY <1>3, <2>1, <3>1, <3>2, <3>3
  <2>4. CASE q # r
    <3>1. r \notin callers[q]
      <4>1. CASE gone = Under(r)
        BY <2>1, <2>2, <4>1 DEF Under
      <4>2. CASE gone # Under(r)
        BY <2>1, <4>2 DEF Nested
      <4> QED  BY <4>1, <4>2
    <3>2. p # r
      BY <1>9, <3>1
    <3>3. p \notin gone
      BY <1>5, <1>9, <3>1 DEF Nested
    <3>4. p \notin Starter(r)
      BY <1>9, <2>1, <2>4, <3>1, NoneBelow
    <3> QED  BY <1>3, <2>1, <3>2, <3>3, <3>4
  <2> QED  BY <2>3, <2>4
<1> QED  BY <1>2, <1>4, <1>8, <1>9 DEF Settles

LEMMA LoseSettles ==
  ASSUME TypeOK, Nested
  PROVE  \A r \in Runs : Lose(r) => Settles
<1> SUFFICES ASSUME NEW r \in Runs, Lose(r) PROVE Settles
  OBVIOUS
<1> DEFINE up == UNION {Starter(p) : p \in Starter(r)}
<1>1. /\ pc[r] = "save" /\ UNCHANGED <<target, seen, child, loaded, result, tries, callers>>
      /\ pc' = [q \in Runs |-> IF q = r THEN "lost"
                               ELSE IF q \in Starter(r) THEN "failed"
                               ELSE IF q \in up THEN "poll" ELSE pc[q]]
      /\ elapsed' = [q \in Runs |-> elapsed[q] /\ q \notin up]
  BY DEF Lose
<1> HIDE DEF up
<1>2. elapsed' \in [Runs -> BOOLEAN] /\ tries' \in [Runs -> Nat]
  <2>1. \A q \in Runs : (elapsed[q] /\ q \notin up) \in BOOLEAN
    OBVIOUS
  <2>2. elapsed' \in [Runs -> BOOLEAN]
    BY <1>1, <2>1, Zenon
  <2> QED  BY <1>1, <2>2 DEF TypeOK
<1>3. \A p \in Starter(r) : p \in Runs /\ pc[p] = "starting" /\ p \in callers[r] /\ child[p] = r
  BY <1>1, StarterAwaits DEF Active
<1>4. \A p \in up : /\ p \in Runs /\ pc[p] = "starting"
                    /\ \E s \in Starter(r) : p \in Starter(s)
  BY <1>3, StarterAwaits DEF up, Active
<1>5. pc' \in [Runs -> {"idle"} \cup Active \cup Ended]
  BY <1>1 DEF TypeOK, Active, Ended
<1>6. ASSUME NEW q \in Runs
      PROVE  /\ pc'[q] = "idle" <=> pc[q] = "idle"
             /\ pc'[q] \in Active => pc[q] \in Active
             /\ pc'[q] \in Waiting => pc[q] \in Waiting
             /\ pc'[q] = "apply" => pc[q] = "apply"
             /\ pc'[q] = "save" => pc[q] = "save"
  BY <1>1, <1>3, <1>4 DEF Active, Waiting
<1>7. ASSUME NEW q \in Runs, pc'[q] \in Active, NEW p \in callers[q]
      PROVE  pc'[p] = "starting"
  <2>1. pc[q] \in Active /\ pc[p] = "starting" /\ p \in Runs /\ p # r /\ pc[r] \in Active
    BY <1>1, <1>6, <1>7 DEF Nested, TypeOK, Active
  <2>2. q # r /\ q \notin Starter(r)
    BY <1>1, <1>7 DEF Active
  <2>3. p \notin Starter(r)
    BY <1>1, <1>7, <2>1, <2>2, NoneBelow
  <2>4. ASSUME p \in up PROVE FALSE
    <3>1. PICK s \in Starter(r) : p \in Starter(s)
      BY <1>4, <2>4
    <3>2. s \in Runs /\ pc[s] \in Active /\ q # s
      BY <1>3, <2>2, <3>1 DEF Active
    <3>3. s \in callers[q]
      BY <1>7, <2>1, <3>1, <3>2, NoneBelow
    <3> QED  BY <1>1, <2>1, <2>2, <3>1, <3>3, NoneBelow
  <2> QED  BY <1>1, <2>1, <2>3, <2>4
<1> QED  BY <1>1, <1>2, <1>5, <1>6, <1>7 DEF Settles

-----------------------------------------------------------------------------
\* What runs know stays true while they settle and workflows move.
LEMMA QuietStays ==
  ASSUME Inv, Quiet
  PROVE  /\ Used' = Used /\ UNCHANGED <<next, def, parent>>
         /\ \A x \in Ids :
              /\ version[x] <= version'[x]
              /\ version'[x] = version[x] => state'[x] = state[x]
              /\ x \in Used /\ state[x] \in Terminal => state'[x] = state[x] /\ context'[x] = context[x]
              /\ x \notin Used => version'[x] = version[x]
         /\ /\ state' \in [Ids -> {"open", "late"} \cup Terminal]
            /\ version' \in [Ids -> Nat] /\ context' \in [Ids -> Vals \cup {Empty}]
<1>1. \A x \in Ids : version[x] \in Nat
  BY DEF Inv, TypeOK
<1>2. CASE UNCHANGED flows
  BY <1>1, <1>2 DEF flows, Used, Inv, TypeOK
<1>3. CASE \E w \in Ids : Moves(w)
  BY <1>1, <1>3 DEF Moves, Used
<1> QED  BY <1>2, <1>3 DEF Quiet

\* Every invariant but the origin of what parents carry.
Base == TypeOK /\ Nested /\ RunsKnow /\ Fresh

LEMMA SettlesKeeps ==
  ASSUME Inv, Settles, Quiet, Around
  PROVE  Base'
<1> USE QuietStays, Numbers
<1>1. TypeOK'
  <2>1. \A r \in Runs : /\ pc'[r] # "idle" => target'[r] \in Used'
                        /\ pc'[r] \in {"starting", "poll", "apply"} => child'[r] \in Used'
    BY DEF Settles, Inv, TypeOK, Waiting
  <2>2. /\ def' \in [Ids -> Defs \cup {NoDef}] /\ parent' \in [Ids -> Ids \cup {0}]
        /\ next' \in 1..(MaxIds + 1) /\ \A w \in Used' : def'[w] \in Defs
    BY DEF Inv, TypeOK
  <2>3. /\ target' \in [Runs -> Ids \cup {0}] /\ seen' \in [Runs -> Nat]
        /\ loaded' \in [Runs -> Nat] /\ child' \in [Runs -> Ids \cup {0}]
        /\ result' \in [Runs -> Vals \cup {Empty}] /\ callers' \in [Runs -> SUBSET Runs]
    BY DEF Settles, Inv, TypeOK
  <2> QED  BY <2>1, <2>2, <2>3 DEF Settles, TypeOK, Around, Saves
<1>2. Nested'
  BY DEF Settles, Nested, Inv
<1>3. RunsKnow'
  <2> SUFFICES ASSUME NEW r \in Runs
               PROVE  /\ pc'[r] \in Waiting => Started(r)'
                      /\ pc'[r] = "apply" =>
                           /\ loaded'[r] <= version'[child'[r]]
                           /\ Deadline[def'[child'[r]]] # "none"
                           /\ loaded'[r] = version'[child'[r]] => state'[child'[r]] \notin Terminal
                      /\ pc'[r] = "save" /\ Child[DefOf(r)'] # NoDef =>
                           Started(r)' /\ state'[child'[r]] \in Terminal
                      /\ pc'[r] \in Active =>
                           /\ seen'[r] <= version'[target'[r]]
                           /\ seen'[r] = version'[target'[r]] => state'[target'[r]] = "open"
    BY DEF RunsKnow
  <2>1. /\ DefOf(r)' = DefOf(r) /\ Started(r)' = Started(r)
        /\ UNCHANGED <<target, seen, child, loaded, result>>
    BY DEF Settles, DefOf, Started
  <2>2. pc'[r] \in Waiting => Started(r)'
    BY <2>1 DEF Settles, Inv, RunsKnow
  <2>3. ASSUME pc'[r] = "apply"
        PROVE  /\ loaded'[r] <= version'[child'[r]]
               /\ Deadline[def'[child'[r]]] # "none"
               /\ loaded'[r] = version'[child'[r]] => state'[child'[r]] \notin Terminal
    <3>1. pc[r] = "apply" /\ child[r] \in Ids /\ loaded[r] \in Nat /\ loaded[r] <= version[child[r]]
      BY <2>3 DEF Settles, Inv, RunsKnow, Waiting, Started
    <3>2. version'[child[r]] \in Nat
      BY <3>1
    <3> QED  BY <2>1, <3>1, <3>2 DEF Inv, RunsKnow
  <2>4. ASSUME pc'[r] = "save", Child[DefOf(r)'] # NoDef
        PROVE  Started(r)' /\ state'[child'[r]] \in Terminal
    <3>1. Started(r) /\ state[child[r]] \in Terminal /\ child[r] \in Used
      BY <2>1, <2>4 DEF Settles, Inv, RunsKnow, Started
    <3> QED  BY <2>1, <3>1 DEF Inv
  <2>5. ASSUME pc'[r] \in Active
        PROVE  /\ seen'[r] <= version'[target'[r]]
               /\ seen'[r] = version'[target'[r]] => state'[target'[r]] = "open"
    <3>1. pc[r] \in Active
      BY <2>5 DEF Settles
    <3>2. target[r] \in Ids /\ seen[r] \in Nat /\ seen[r] <= version[target[r]]
      BY <3>1 DEF Inv, TypeOK, RunsKnow, Active
    <3>3. version'[target[r]] \in Nat
      BY <3>2
    <3> QED  BY <2>1, <3>1, <3>2, <3>3 DEF Inv, RunsKnow
  <2> QED  BY <2>2, <2>3, <2>4, <2>5
<1>4. Fresh'
  BY DEF Settles, Fresh, Inv
<1> QED  BY <1>1, <1>2, <1>3, <1>4 DEF Base

\* A child that has ended stays so.
LEMMA EndedStays ==
  ASSUME Inv, Quiet
  PROVE  \A w : OwnChildEnded(w) => OwnChildEnded(w)'
<1>0. TypeOK
  BY DEF Inv
<1> QED  BY <1>0, QuietStays, Numbers DEF OwnChildEnded

LEMMA FollowedStays ==
  ASSUME Inv, Quiet, \A w \in Ids : state'[w] = "done" => state[w] = "done"
  PROVE  ParentsFollowChildren'
<1>0. TypeOK
  BY DEF Inv
<1> SUFFICES ASSUME NEW w \in Used, state'[w] = "done", Child[def[w]] # NoDef
             PROVE  OwnChildEnded(w)'
  BY QuietStays DEF ParentsFollowChildren
<1>1. state[w] = "done"
  BY <1>0, Numbers
<1> QED  BY <1>1, EndedStays DEF Inv, ParentsFollowChildren

\* Saves adrift stay so while workflows move.
LEMMA DriftsStay ==
  ASSUME Inv, Quiet, adrift' \subseteq adrift
  PROVE  Drifts'
<1>0. TypeOK
  BY DEF Inv
<1> SUFFICES ASSUME NEW s \in adrift
             PROVE  /\ s.flow \in Used /\ s.seen <= version'[s.flow]
                    /\ s.seen = version'[s.flow] => state'[s.flow] \notin Terminal
                    /\ s.state = "done" /\ Child[def[s.flow]] # NoDef => OwnChildEnded(s.flow)'
  BY QuietStays DEF Drifts
<1>1. s.flow \in Used /\ s.flow \in Ids /\ s.seen \in Nat /\ s.seen <= version[s.flow]
  BY <1>0, Numbers DEF Inv, Drifts, TypeOK
<1>2. version[s.flow] \in Nat /\ version'[s.flow] \in Nat
  BY <1>0, <1>1, QuietStays DEF TypeOK
<1> QED  BY <1>1, <1>2, QuietStays, EndedStays DEF Inv, Drifts

\* A deadline moves its workflow, and not to "done".
LEMMA DeadlineMoves ==
  ASSUME Inv
  PROVE  \A w \in Used :
           Apply(w) /\ state[w] \notin Terminal /\ Deadline[def[w]] # "none" =>
             /\ Moves(w) /\ state'[w] = Deadline[def[w]] /\ UNCHANGED context
             /\ \A x \in Ids : state'[x] = "done" => state[x] = "done"
<1> SUFFICES ASSUME NEW w \in Used, Apply(w), state[w] \notin Terminal, Deadline[def[w]] # "none"
             PROVE  /\ Moves(w) /\ state'[w] = Deadline[def[w]] /\ UNCHANGED context
                    /\ \A x \in Ids : state'[x] = "done" => state[x] = "done"
  OBVIOUS
<1>1. w \in Ids /\ def[w] \in Defs /\ Deadline[def[w]] \in {"late", "expired"}
  BY Numbers, SubWorkflowAssumption DEF Inv, TypeOK
<1> QED  BY <1>1 DEF Apply, Moves, Inv, TypeOK, Terminal

\* What a dropped future leaves adrift was prepared on a version that is not newer than
\* its workflow's, and had not ended then.
LEMMA AwaitedDrift ==
  ASSUME Inv
  PROVE  \A gone \in SUBSET Runs : \A s \in Awaited(gone) :
           /\ s \in Saves /\ s.flow \in Used /\ s.seen <= version[s.flow]
           /\ s.seen = version[s.flow] => state[s.flow] \notin Terminal
           /\ s.state = "done" /\ Child[def[s.flow]] # NoDef => OwnChildEnded(s.flow)
<1>0. TypeOK
  BY DEF Inv
<1> SUFFICES ASSUME NEW gone \in SUBSET Runs, NEW s \in Awaited(gone)
             PROVE  /\ s \in Saves /\ s.flow \in Used /\ s.seen <= version[s.flow]
                    /\ s.seen = version[s.flow] => state[s.flow] \notin Terminal
                    /\ s.state = "done" /\ Child[def[s.flow]] # NoDef => OwnChildEnded(s.flow)
  OBVIOUS
<1>1. ASSUME NEW q \in Runs, pc[q] = "apply",
             s = [flow |-> child[q], seen |-> loaded[q],
                  state |-> Deadline[def[child[q]]], context |-> context[child[q]]]
      PROVE  /\ s \in Saves /\ s.flow \in Used /\ s.seen <= version[s.flow]
             /\ s.seen = version[s.flow] => state[s.flow] \notin Terminal
             /\ s.state # "done"
  <2>1. child[q] \in Used /\ child[q] \in Ids /\ def[child[q]] \in Defs /\ loaded[q] \in Nat
    BY <1>0, <1>1, Numbers DEF TypeOK
  <2>2. Deadline[def[child[q]]] \in {"late", "expired"} /\ context[child[q]] \in Vals \cup {Empty}
    BY <1>0, <1>1, <2>1, SubWorkflowAssumption DEF Inv, RunsKnow, TypeOK
  <2>3. /\ loaded[q] <= version[child[q]]
        /\ loaded[q] = version[child[q]] => state[child[q]] \notin Terminal
    BY <1>1 DEF Inv, RunsKnow
  <2> QED  BY <1>1, <2>1, <2>2, <2>3 DEF Saves, Terminal
<1>2. ASSUME NEW q \in Runs, pc[q] = "save",
             s = [flow |-> target[q], seen |-> seen[q], state |-> "done", context |-> result[q]]
      PROVE  /\ s \in Saves /\ s.flow \in Used /\ s.seen <= version[s.flow]
             /\ s.seen = version[s.flow] => state[s.flow] \notin Terminal
             /\ Child[def[s.flow]] # NoDef => OwnChildEnded(s.flow)
  <2>1. target[q] \in Used /\ target[q] \in Ids /\ seen[q] \in Nat /\ result[q] \in Vals \cup {Empty}
    BY <1>0, <1>2, Numbers DEF TypeOK
  <2>2. /\ seen[q] <= version[target[q]]
        /\ seen[q] = version[target[q]] => state[target[q]] = "open"
    BY <1>2 DEF Inv, RunsKnow, Active
  <2>3. Child[def[target[q]]] # NoDef => OwnChildEnded(target[q])
    BY <1>2 DEF Inv, RunsKnow, Started, DefOf, OwnChildEnded
  <2> QED  BY <1>2, <2>1, <2>2, <2>3 DEF Saves, Terminal
<1> QED  BY <1>1, <1>2 DEF Awaited

\* An executor has returned.
LEMMA SucceedKeeps ==
  ASSUME Inv, Quiet, Around
  PROVE  \A r \in Runs : \A v \in Vals \cup {Empty} :
           (/\ Succeed(r, v) /\ pc[r] \in {"execute", "poll", "apply"}
            /\ (Child[DefOf(r)] # NoDef =>
                  Started(r) /\ state'[child[r]] \in Terminal))
           => Base'
<1>0. TypeOK
  BY DEF Inv
<1> USE QuietStays, Numbers, <1>0
<1> SUFFICES ASSUME NEW r \in Runs, NEW v \in Vals \cup {Empty},
                    Succeed(r, v), pc[r] \in {"execute", "poll", "apply"},
                    Child[DefOf(r)] # NoDef =>
                      Started(r) /\ state'[child[r]] \in Terminal
             PROVE  Base'
  OBVIOUS
<1>1. /\ UNCHANGED <<target, seen, child, loaded, tries, elapsed, callers>>
      /\ pc' \in [Runs -> {"idle"} \cup Active \cup Ended] /\ result' \in [Runs -> Vals \cup {Empty}]
      /\ pc'[r] = "save" /\ result'[r] = v
      /\ \A q \in Runs : q # r => pc'[q] = pc[q] /\ result'[q] = result[q]
  BY DEF Succeed, Inv, TypeOK, Active
<1>2. TypeOK'
  <2>1. /\ def' \in [Ids -> Defs \cup {NoDef}] /\ parent' \in [Ids -> Ids \cup {0}]
        /\ next' \in 1..(MaxIds + 1) /\ \A w \in Used' : def'[w] \in Defs
        /\ \A q \in Runs : /\ pc'[q] # "idle" => target'[q] \in Used'
                           /\ pc'[q] \in {"starting", "poll", "apply"} => child'[q] \in Used'
    BY <1>1 DEF Inv, TypeOK
  <2> QED  BY <1>1, <2>1 DEF Inv, TypeOK, Around, Saves
<1>3. Nested'
  BY <1>1 DEF Inv, Nested, Active, TypeOK
<1>4. RunsKnow'
  <2> SUFFICES ASSUME NEW q \in Runs
               PROVE  /\ pc'[q] \in Waiting => Started(q)'
                      /\ pc'[q] = "apply" =>
                           /\ loaded'[q] <= version'[child'[q]]
                           /\ Deadline[def'[child'[q]]] # "none"
                           /\ loaded'[q] = version'[child'[q]] => state'[child'[q]] \notin Terminal
                      /\ pc'[q] = "save" /\ Child[DefOf(q)'] # NoDef =>
                           Started(q)' /\ state'[child'[q]] \in Terminal
                      /\ pc'[q] \in Active =>
                           /\ seen'[q] <= version'[target'[q]]
                           /\ seen'[q] = version'[target'[q]] => state'[target'[q]] = "open"
    BY DEF RunsKnow
  <2>1. DefOf(q)' = DefOf(q) /\ Started(q)' = Started(q)
    BY <1>1 DEF DefOf, Started
  <2>2. pc'[q] \in Active => pc[q] \in Active
    BY <1>1 DEF Active
  <2>3. ASSUME pc'[q] \in Active
        PROVE  /\ seen'[q] <= version'[target'[q]]
               /\ seen'[q] = version'[target'[q]] => state'[target'[q]] = "open"
    <3>1. /\ target[q] \in Ids /\ seen[q] \in Nat /\ seen[q] <= version[target[q]]
          /\ seen[q] = version[target[q]] => state[target[q]] = "open"
      BY <2>2, <2>3 DEF Inv, TypeOK, RunsKnow, Active
    <3>2. version'[target[q]] \in Nat
      BY <3>1
    <3> QED  BY <1>1, <3>1, <3>2
  <2>4. CASE q = r
    BY <1>1, <2>1, <2>3, <2>4 DEF Waiting
  <2>5. CASE q # r
    <3>1. ASSUME pc[q] = "apply"
          PROVE  /\ loaded[q] <= version'[child[q]]
                 /\ loaded[q] = version'[child[q]] => state'[child[q]] \notin Terminal
      <4>1. child[q] \in Ids /\ loaded[q] \in Nat /\ loaded[q] <= version[child[q]]
        BY <3>1 DEF Inv, RunsKnow, Waiting, Started
      <4>2. version'[child[q]] \in Nat
        BY <4>1
      <4> QED  BY <3>1, <4>1, <4>2 DEF Inv, RunsKnow
    <3>2. ASSUME pc[q] = "save", Child[DefOf(q)] # NoDef
          PROVE  Started(q) /\ state'[child[q]] \in Terminal
      BY <3>2 DEF Inv, RunsKnow, Started
    <3> QED  BY <1>1, <2>1, <2>3, <2>5, <3>1, <3>2 DEF Inv, RunsKnow
  <2> QED  BY <2>4, <2>5
<1>5. Fresh'
  BY <1>1 DEF Fresh, Inv
<1> QED  BY <1>2, <1>3, <1>4, <1>5 DEF Base

LEMMA PollOverdueKeeps ==
  ASSUME Inv
  PROVE  \A r \in Runs : PollOverdue(r) => Base'
<1> SUFFICES ASSUME NEW r \in Runs, PollOverdue(r) PROVE Base'
  OBVIOUS
<1>0. TypeOK
  BY DEF Inv
<1>1. /\ UNCHANGED <<next, def, state, version, context, parent, outside, target, seen, child,
                      result, tries, elapsed, callers>>
      /\ pc[r] = "poll" /\ pc'[r] = "apply" /\ loaded'[r] = version[child[r]]
      /\ child[r] \in Used /\ child[r] \in Ids /\ version[child[r]] \in Nat
      /\ state[child[r]] \notin Terminal /\ Deadline[def[child[r]]] # "none"
      /\ \A q \in Runs : q # r => pc'[q] = pc[q] /\ loaded'[q] = loaded[q]
      /\ pc' \in [Runs -> {"idle"} \cup Active \cup Ended] /\ loaded' \in [Runs -> Nat]
  <2>1. pc[r] = "poll" /\ child[r] \in Used /\ child[r] \in Ids /\ version[child[r]] \in Nat
    BY <1>0, Numbers DEF PollOverdue, TypeOK
  <2> QED  BY <1>0, <2>1 DEF PollOverdue, Fires, TypeOK, Active, flows
<1>2. Used' = Used
  BY <1>1 DEF Used
<1>3. TypeOK'
  <2>1. \A q \in Runs : /\ pc'[q] # "idle" => target'[q] \in Used'
                        /\ pc'[q] \in {"starting", "poll", "apply"} => child'[q] \in Used'
    BY <1>0, <1>1, <1>2 DEF TypeOK
  <2> QED  BY <1>0, <1>1, <1>2, <2>1 DEF TypeOK, outside
<1>4. Nested'
  BY <1>0, <1>1, <1>2 DEF Inv, Nested, TypeOK, Active
<1>5. RunsKnow'
  BY <1>0, <1>1, <1>2 DEF Inv, RunsKnow, Started, DefOf, Active, Waiting
<1>6. Fresh'
  BY <1>1, <1>2 DEF Inv, Fresh
<1> QED  BY <1>3, <1>4, <1>5, <1>6 DEF Base

LEMMA SubmitKeeps ==
  ASSUME Inv
  PROVE  \A c \in Clients : \A w \in Ids : Submit(c, w) => Base'
<1> SUFFICES ASSUME NEW c \in Clients, NEW w \in Ids, Submit(c, w) PROVE Base'
  OBVIOUS
<1>0. TypeOK
  BY DEF Inv
<1>1. /\ UNCHANGED <<next, def, state, version, context, parent, outside, child, loaded,
                      result, tries, elapsed, callers>>
      /\ c \in Runs /\ c \notin Ids
      /\ pc[c] = "idle" /\ pc'[c] = "execute" /\ target'[c] = w /\ seen'[c] = version[w]
      /\ w \in Used /\ state[w] = "open" /\ version[w] \in Nat
      /\ \A q \in Runs : q # c => pc'[q] = pc[q] /\ target'[q] = target[q] /\ seen'[q] = seen[q]
      /\ pc' \in [Runs -> {"idle"} \cup Active \cup Ended]
      /\ target' \in [Runs -> Ids \cup {0}] /\ seen' \in [Runs -> Nat]
  <2>1. c \in Runs /\ c \notin Ids /\ version[w] \in Nat
    BY <1>0, Numbers DEF Runs
  <2> QED  BY <1>0, <2>1 DEF Submit, TypeOK, Active, flows
<1>2. Used' = Used /\ \A q \in Ids : q \in Runs /\ q # c
  BY <1>1 DEF Used, Runs
<1>3. TypeOK'
  <2>1. \A q \in Runs : /\ pc'[q] # "idle" => target'[q] \in Used'
                        /\ pc'[q] \in {"starting", "poll", "apply"} => child'[q] \in Used'
    BY <1>0, <1>1, <1>2 DEF TypeOK
  <2> QED  BY <1>0, <1>1, <1>2, <2>1 DEF TypeOK, outside
<1>4. callers[c] = {}
  BY <1>0, <1>1, Numbers DEF Inv, Nested
<1>5. Nested'
  <2>1. ASSUME NEW q \in Runs, pc'[q] \in Active, NEW p \in callers[q]
        PROVE  pc'[p] = "starting" /\ child[p] \in callers[q] \cup {q}
    <3>1. q # c /\ pc[q] \in Active
      BY <1>1, <1>4, <2>1
    <3>2. pc[p] = "starting" /\ child[p] \in callers[q] \cup {q} /\ p \in Runs
      BY <1>0, <2>1, <3>1 DEF Inv, Nested, TypeOK
    <3> QED  BY <1>1, <3>2
  <2> QED  BY <1>1, <1>2, <2>1 DEF Inv, Nested
<1>6. RunsKnow'
  BY <1>0, <1>1, <1>2 DEF Inv, RunsKnow, Started, DefOf, Active, Waiting
<1>7. Fresh'
  BY <1>1, <1>2 DEF Inv, Fresh
<1> QED  BY <1>3, <1>5, <1>6, <1>7 DEF Base

\* A workflow is created by a client (r is 0) or by the executor of run r, and its
\* chain, if it has one, is a new run.
LEMMA CreateKeeps ==
  ASSUME Inv
  PROVE  /\ \A d \in Roots : Launch(d) => Base' /\ ParentsFollowChildren' /\ Drifts'
         /\ \A r \in Runs : StartChild(r) => Base' /\ ParentsFollowChildren' /\ Drifts'
<1>0. TypeOK
  BY DEF Inv
<1>1. ASSUME NEW d \in Defs, NEW from \in Used \cup {0}, CreateFlow(d, from)
      PROVE  /\ next \in Ids /\ next \notin Used /\ Used' = Used \cup {next} /\ next \in Runs
             /\ pc[next] = "idle" /\ callers[next] = {} /\ next' \in 1..(MaxIds + 1)
             /\ def' \in [Ids -> Defs \cup {NoDef}] /\ parent' \in [Ids -> Ids \cup {0}]
             /\ state' \in [Ids -> {"open", "late"} \cup Terminal]
             /\ \A w \in Used' : def'[w] \in Defs
             /\ def'[next] = d /\ parent'[next] = from /\ state'[next] = "open"
             /\ \A w \in Ids : w # next =>
                  def'[w] = def[w] /\ parent'[w] = parent[w] /\ state'[w] = state[w]
             /\ UNCHANGED <<version, context>> /\ version[next] = 0 /\ seen[next] = 0
             /\ \A w \in Ids : w \in Used' => parent'[w] < w
  <2>1. /\ next \in Ids /\ next \notin Used /\ Used' = Used \cup {next} /\ next \in Runs
        /\ next' \in 1..(MaxIds + 1) /\ \A w \in Used : w \in Ids /\ w < next
        /\ from < next /\ from \in Ids \cup {0}
    BY <1>0, <1>1, SubWorkflowAssumption DEF CreateFlow, Used, Ids, Runs, TypeOK
  <2>2. pc[next] = "idle" /\ callers[next] = {} /\ version[next] = 0 /\ seen[next] = 0
    BY <2>1 DEF Inv, Nested, Fresh
  <2>3. /\ def'[next] = d /\ parent'[next] = from /\ state'[next] = "open"
        /\ \A w \in Ids : w # next =>
             def'[w] = def[w] /\ parent'[w] = parent[w] /\ state'[w] = state[w]
        /\ UNCHANGED <<version, context>>
        /\ def' \in [Ids -> Defs \cup {NoDef}] /\ parent' \in [Ids -> Ids \cup {0}]
        /\ state' \in [Ids -> {"open", "late"} \cup Terminal]
    BY <1>0, <1>1, <2>1 DEF CreateFlow, TypeOK
  <2>4. \A w \in Used' : def'[w] \in Defs
    BY <1>0, <2>1, <2>3 DEF TypeOK
  <2>5. \A w \in Ids : w \in Used' => parent'[w] < w
    BY <2>1, <2>3 DEF Inv, Fresh
  <2> QED  BY <2>1, <2>2, <2>3, <2>4, <2>5
<1>2. ASSUME NEW d \in Defs, NEW from \in Used \cup {0}, CreateFlow(d, from), UNCHANGED adrift
      PROVE  ParentsFollowChildren' /\ Drifts'
  <2>1. \A w \in Used : w \in Ids /\ w # next /\ w \in Used'
    BY <1>0, <1>1, <1>2, Numbers
  <2>2. ASSUME NEW w \in Used, OwnChildEnded(w) PROVE OwnChildEnded(w)'
    <3>1. PICK v \in Used : parent[v] = w /\ def[v] = Child[def[w]] /\ state[v] \in Terminal
      BY <2>2 DEF OwnChildEnded
    <3> QED  BY <1>1, <1>2, <2>1, <3>1 DEF OwnChildEnded
  <2>3. ParentsFollowChildren'
    <3> SUFFICES ASSUME NEW w \in Used', state'[w] = "done", Child[def'[w]] # NoDef
                 PROVE  OwnChildEnded(w)'
      BY DEF ParentsFollowChildren
    <3>1. w \in Used /\ state[w] = "done" /\ def'[w] = def[w]
      BY <1>1, <1>2, <2>1
    <3> QED  BY <2>2, <3>1 DEF Inv, ParentsFollowChildren
  <2>4. Drifts'
    <3> SUFFICES ASSUME NEW s \in adrift
                 PROVE  /\ s.flow \in Used' /\ s.seen <= version'[s.flow]
                        /\ s.seen = version'[s.flow] => state'[s.flow] \notin Terminal
                        /\ s.state = "done" /\ Child[def'[s.flow]] # NoDef => OwnChildEnded(s.flow)'
      BY <1>2 DEF Drifts
    <3>1. s.flow \in Used /\ s.flow \in Used' /\ s.flow \in Ids /\ s.flow # next
      BY <2>1 DEF Inv, Drifts
    <3> QED  BY <1>1, <1>2, <2>2, <3>1 DEF Inv, Drifts
  <2> QED  BY <2>3, <2>4
<1>3. ASSUME NEW d \in Roots, Launch(d) PROVE Base' /\ ParentsFollowChildren' /\ Drifts'
  <2>1. d \in Defs /\ CreateFlow(d, 0) /\ 0 \in Used \cup {0}
    BY <1>3, SubWorkflowAssumption DEF Launch
  <2>2. /\ UNCHANGED <<outside, seen, child, loaded, result, tries, elapsed, callers>>
        /\ \A q \in Runs : q # next => pc'[q] = pc[q] /\ target'[q] = target[q]
        /\ \/ pc'[next] = "execute" /\ target'[next] = next
           \/ pc'[next] = "idle" /\ target'[next] = target[next]
        /\ pc' \in [Runs -> {"idle"} \cup Active \cup Ended] /\ target' \in [Runs -> Ids \cup {0}]
    BY <1>0, <1>1, <1>3, <2>1 DEF Launch, TypeOK, Active
  <2>3. \A x \in Used : x \in Ids /\ x # next /\ x \in Used'
    BY <1>0, <1>1, <2>1, Numbers
  <2>4. TypeOK'
    <3>1. \A q \in Runs : /\ pc'[q] # "idle" => target'[q] \in Used'
                          /\ pc'[q] \in {"starting", "poll", "apply"} => child'[q] \in Used'
      BY <1>0, <1>1, <2>1, <2>2, <2>3 DEF TypeOK
    <3> QED  BY <1>0, <1>1, <2>1, <2>2, <3>1 DEF TypeOK, outside
  <2>5. Nested'
    <3>1. ASSUME NEW q \in Runs, pc'[q] \in Active, NEW p \in callers[q]
          PROVE  pc'[p] = "starting" /\ child[p] \in callers[q] \cup {q}
      <4>1. q # next /\ pc[q] \in Active
        BY <1>1, <2>1, <2>2, <3>1
      <4>2. pc[p] = "starting" /\ child[p] \in callers[q] \cup {q} /\ p \in Runs
        BY <1>0, <3>1, <4>1 DEF Inv, Nested, TypeOK
      <4> QED  BY <1>1, <2>1, <2>2, <4>2
    <3>2. ASSUME NEW q \in Ids, pc'[q] # "idle" PROVE q \in Used' /\ target'[q] = q
      BY <1>1, <2>1, <2>2, <2>3, <3>2 DEF Inv, Nested, Runs
    <3> QED  BY <1>1, <2>1, <2>2, <2>3, <3>1, <3>2 DEF Inv, Nested
  <2>6. RunsKnow'
    <3>1. ASSUME NEW q \in Runs, q # next, pc[q] # "idle"
          PROVE  /\ target'[q] = target[q] /\ target[q] \in Used /\ target[q] # next
                 /\ DefOf(q)' = DefOf(q) /\ pc'[q] = pc[q]
                 /\ state'[target[q]] = state[target[q]]
      BY <1>0, <1>1, <2>1, <2>2, <2>3, <3>1 DEF DefOf, TypeOK
    <3>2. ASSUME NEW q \in Runs, q # next, pc[q] # "idle", child[q] \in Used
          PROVE  /\ Started(q)' <=> Started(q)
                 /\ state'[child[q]] = state[child[q]] /\ def'[child[q]] = def[child[q]]
      BY <1>1, <2>1, <2>2, <2>3, <3>1, <3>2 DEF Started
    <3>3. \A q \in Runs : pc[q] \in Waiting => pc[q] # "idle" /\ child[q] \in Used
      BY DEF Inv, RunsKnow, Started, Waiting
    <3>4. \A q \in Runs : pc[q] = "save" /\ Child[DefOf(q)] # NoDef => child[q] \in Used
      BY DEF Inv, RunsKnow, Started
    <3>5. ASSUME NEW q \in Runs, q # next, pc[q] # "idle"
          PROVE  /\ pc'[q] \in Waiting => Started(q)'
                 /\ pc'[q] = "apply" =>
                      /\ loaded'[q] <= version'[child'[q]]
                      /\ Deadline[def'[child'[q]]] # "none"
                      /\ loaded'[q] = version'[child'[q]] => state'[child'[q]] \notin Terminal
                 /\ pc'[q] = "save" /\ Child[DefOf(q)'] # NoDef =>
                      Started(q)' /\ state'[child'[q]] \in Terminal
                 /\ pc'[q] \in Active =>
                      /\ seen'[q] <= version'[target'[q]]
                      /\ seen'[q] = version'[target'[q]] => state'[target'[q]] = "open"
      BY <1>1, <2>1, <2>2, <3>1, <3>2, <3>3, <3>4, <3>5 DEF Inv, RunsKnow, Waiting
    <3>6. pc'[next] = "execute" => /\ seen'[next] <= version'[target'[next]]
                                   /\ state'[target'[next]] = "open"
      BY <1>1, <2>1, <2>2
    <3>7. \A q \in Runs : pc[q] = "idle" /\ q # next => pc'[q] = "idle"
      BY <2>2
    <3> QED  BY <2>2, <3>5, <3>6, <3>7 DEF RunsKnow, Active, Waiting
  <2>7. Fresh'
    BY <1>1, <2>1, <2>2 DEF Inv, Fresh
  <2> QED  BY <1>2, <2>1, <2>2, <2>4, <2>5, <2>6, <2>7 DEF Base, outside
<1>4. ASSUME NEW r \in Runs, StartChild(r) PROVE Base' /\ ParentsFollowChildren' /\ Drifts'
  <2>1. /\ pc[r] = "execute" /\ target[r] \in Used /\ target[r] \in Ids
        /\ Child[DefOf(r)] \in Defs /\ CreateFlow(Child[DefOf(r)], target[r])
    <3>1. pc[r] = "execute" /\ target[r] \in Used /\ target[r] \in Ids /\ def[target[r]] \in Defs
      BY <1>0, <1>4, Numbers DEF StartChild, TypeOK
    <3> QED  BY <1>4, <3>1, SubWorkflowAssumption DEF StartChild, DefOf
  <2>2. Await(r, Child[DefOf(r)])
    BY <1>4 DEF StartChild
  <2>3. /\ next # r /\ \A x \in Used : x \in Ids /\ x # next /\ x \in Used'
        /\ next \in Used' /\ next \in Ids /\ next \in Runs
    BY <1>0, <1>1, <2>1, Numbers
  <2>4. /\ UNCHANGED <<outside, seen, loaded, result, tries>>
        /\ child'[r] = next /\ \A q \in Runs : q # r => child'[q] = child[q]
        /\ child' \in [Runs -> Ids \cup {0}] /\ elapsed' \in [Runs -> BOOLEAN]
    BY <1>0, <1>4, <2>3 DEF StartChild, TypeOK
  <2>5. /\ \A q \in Runs : q # next /\ q # r => pc'[q] = pc[q]
        /\ \A q \in Runs : q # next => target'[q] = target[q] /\ callers'[q] = callers[q]
        /\ \/ /\ pc'[r] = "starting" /\ pc'[next] = "execute"
              /\ target'[next] = next /\ callers'[next] = callers[r] \cup {r}
           \/ /\ pc'[r] = "poll" /\ pc'[next] = "idle"
              /\ target'[next] = target[next] /\ callers'[next] = {}
        /\ pc' \in [Runs -> {"idle"} \cup Active \cup Ended]
        /\ target' \in [Runs -> Ids \cup {0}] /\ callers' \in [Runs -> SUBSET Runs]
    <3>1. callers[r] \cup {r} \in SUBSET Runs
      BY <1>0 DEF TypeOK
    <3>2. pc[next] = "idle" /\ callers[next] = {}
      BY <1>1, <2>1
    <3>3. CASE Child[DefOf(r)] \in Chained
      <4>1. /\ pc' \in [Runs -> {"idle"} \cup Active \cup Ended] /\ pc'[r] = "starting"
            /\ pc'[next] = "execute" /\ \A q \in Runs : q # next /\ q # r => pc'[q] = pc[q]
        BY <1>0, <2>2, <2>3, <3>3 DEF Await, TypeOK, Active
      <4>2. /\ target' \in [Runs -> Ids \cup {0}] /\ target'[next] = next
            /\ \A q \in Runs : q # next => target'[q] = target[q]
        BY <1>0, <2>2, <2>3, <3>3 DEF Await, TypeOK
      <4>3. /\ callers' \in [Runs -> SUBSET Runs] /\ callers'[next] = callers[r] \cup {r}
            /\ \A q \in Runs : q # next => callers'[q] = callers[q]
        BY <1>0, <2>2, <2>3, <3>1, <3>3 DEF Await, TypeOK
      <4> QED  BY <4>1, <4>2, <4>3
    <3>4. CASE Child[DefOf(r)] \notin Chained
      BY <1>0, <2>1, <2>3, <2>2, <3>2, <3>4 DEF Await, TypeOK, Active
    <3> QED  BY <3>3, <3>4
  <2>6. TypeOK'
    <3>1. \A q \in Runs : /\ pc'[q] # "idle" => target'[q] \in Used'
                          /\ pc'[q] \in {"starting", "poll", "apply"} => child'[q] \in Used'
      BY <1>0, <2>1, <2>3, <2>4, <2>5 DEF TypeOK
    <3> QED  BY <1>0, <1>1, <2>1, <2>4, <2>5, <3>1 DEF TypeOK, outside
  <2>7. \A q \in Runs : \A p \in callers[q] : p \in Runs /\ p # next /\ (p \in Clients \/ p < next)
    BY <1>0, <1>1, <2>1, <2>3, Numbers DEF Inv, Nested, TypeOK, Runs, Used
  <2>8. Nested'
    <3>1. ASSUME NEW q \in Ids, pc'[q] # "idle" PROVE q \in Used' /\ target'[q] = q
      BY <2>1, <2>3, <2>5, <3>1 DEF Inv, Nested, Runs
    <3>2. ASSUME NEW q \in Runs, NEW p \in callers'[q]
          PROVE  /\ q \in Used' /\ callers'[p] \subseteq callers'[q]
                 /\ p \in Clients \/ (p \in Ids /\ p < q)
      <4>1. CASE q # next
        BY <2>3, <2>5, <2>7, <3>2, <4>1 DEF Inv, Nested
      <4>2. CASE q = next
        <5>1. p \in callers[r] \cup {r} /\ callers'[q] = callers[r] \cup {r} /\ p # next
          BY <2>3, <2>5, <2>7, <3>2, <4>2
        <5>2. p \in Clients \/ (p \in Ids /\ p < next)
          <6>1. CASE p = r
            <7>1. r \in Ids => r \in Used
              BY <2>1 DEF Inv, Nested
            <7> QED  BY <1>0, <6>1, <7>1, Numbers DEF Used, Runs
          <6>2. CASE p # r
            BY <2>7, <5>1, <6>2 DEF Inv, Nested
          <6> QED  BY <6>1, <6>2
        <5>3. callers'[p] = callers[p] /\ callers[p] \subseteq callers[r]
          BY <2>5, <2>7, <5>1 DEF Inv, Nested
        <5> QED  BY <2>3, <4>2, <5>1, <5>2, <5>3
      <4> QED  BY <4>1, <4>2
    <3>3. ASSUME NEW q \in Runs, pc'[q] \in Active, NEW p \in callers'[q]
          PROVE  pc'[p] = "starting" /\ child'[p] \in callers'[q] \cup {q}
      <4>1. CASE q # next
        <5>1. pc[q] \in Active /\ p \in callers[q] /\ callers'[q] = callers[q]
          BY <2>1, <2>5, <3>3, <4>1 DEF Active
        <5>2. pc[p] = "starting" /\ child[p] \in callers[q] \cup {q} /\ p # r /\ p \in Runs /\ p # next
          BY <2>1, <2>7, <5>1 DEF Inv, Nested
        <5> QED  BY <2>4, <2>5, <5>1, <5>2
      <4>2. CASE q = next
        <5>1. /\ pc'[r] = "starting" /\ callers'[q] = callers[r] \cup {r} /\ p # next
              /\ p \in callers[r] \cup {r} /\ pc[r] \in Active
          BY <2>1, <2>3, <2>5, <2>7, <3>3, <4>2 DEF Active
        <5>2. CASE p = r
          BY <2>4, <4>2, <5>1, <5>2
        <5>3. CASE p # r
          <6>1. pc[p] = "starting" /\ child[p] \in callers[r] \cup {r} /\ p \in Runs
            BY <2>7, <5>1, <5>3 DEF Inv, Nested
          <6> QED  BY <2>4, <2>5, <5>1, <5>3, <6>1
        <5> QED  BY <5>2, <5>3
      <4> QED  BY <4>1, <4>2
    <3> QED  BY <3>1, <3>2, <3>3 DEF Nested
  <2>9. RunsKnow'
    <3>1. ASSUME NEW q \in Runs, q # next, pc[q] # "idle"
          PROVE  /\ target'[q] = target[q] /\ target[q] \in Used /\ target[q] # next
                 /\ DefOf(q)' = DefOf(q)
                 /\ state'[target[q]] = state[target[q]]
      <4>1. target'[q] = target[q] /\ target[q] \in Used
        BY <1>0, <2>5, <3>1 DEF TypeOK
      <4>2. \A x \in Used : def'[x] = def[x] /\ state'[x] = state[x]
        BY <1>1, <2>1, <2>3
      <4> QED  BY <2>3, <4>1, <4>2 DEF DefOf
    <3>2. ASSUME NEW q \in Runs, q # next, q # r, pc[q] # "idle", child[q] \in Used
          PROVE  /\ Started(q)' <=> Started(q)
                 /\ state'[child[q]] = state[child[q]] /\ def'[child[q]] = def[child[q]]
      BY <1>1, <2>1, <2>3, <2>4, <3>1, <3>2 DEF Started
    <3>3. \A q \in Runs : pc[q] \in Waiting => pc[q] # "idle" /\ child[q] \in Used
      BY DEF Inv, RunsKnow, Started, Waiting
    <3>4. \A q \in Runs : pc[q] = "save" /\ Child[DefOf(q)] # NoDef => child[q] \in Used
      BY DEF Inv, RunsKnow, Started
    <3>5. ASSUME NEW q \in Runs, q # next, q # r, pc[q] # "idle"
          PROVE  /\ pc'[q] \in Waiting => Started(q)'
                 /\ pc'[q] = "apply" =>
                      /\ loaded'[q] <= version'[child'[q]]
                      /\ Deadline[def'[child'[q]]] # "none"
                      /\ loaded'[q] = version'[child'[q]] => state'[child'[q]] \notin Terminal
                 /\ pc'[q] = "save" /\ Child[DefOf(q)'] # NoDef =>
                      Started(q)' /\ state'[child'[q]] \in Terminal
                 /\ pc'[q] \in Active =>
                      /\ seen'[q] <= version'[target'[q]]
                      /\ seen'[q] = version'[target'[q]] => state'[target'[q]] = "open"
      BY <1>1, <2>1, <2>4, <2>5, <3>1, <3>2, <3>3, <3>4, <3>5 DEF Inv, RunsKnow, Waiting
    <3>6. /\ pc'[r] \in {"starting", "poll"} /\ Started(r)'
          /\ seen'[r] <= version'[target'[r]]
          /\ seen'[r] = version'[target'[r]] => state'[target'[r]] = "open"
      <4>1. pc'[r] \in {"starting", "poll"} /\ Started(r)'
        BY <1>1, <2>1, <2>3, <2>4, <2>5, <3>1 DEF Started, DefOf
      <4>2. /\ seen[r] <= version[target[r]]
            /\ seen[r] = version[target[r]] => state[target[r]] = "open"
        BY <2>1 DEF Inv, RunsKnow, Active
      <4> QED  BY <1>1, <2>1, <2>3, <2>4, <2>5, <3>1, <4>1, <4>2
    <3>7. pc'[next] \in {"execute", "idle"} /\ (pc'[next] = "execute" =>
            seen'[next] <= version'[target'[next]] /\ state'[target'[next]] = "open")
      BY <1>1, <2>1, <2>4, <2>5
    <3>8. \A q \in Runs : pc[q] = "idle" /\ q # next => pc'[q] = "idle"
      BY <2>1, <2>5
    <3> QED  BY <3>5, <3>6, <3>7, <3>8 DEF RunsKnow, Active, Waiting
  <2>10. Fresh'
    BY <1>1, <2>1, <2>4 DEF Inv, Fresh
  <2> QED  BY <1>2, <2>1, <2>4, <2>6, <2>8, <2>9, <2>10 DEF Base, outside
<1> QED  BY <1>3, <1>4

-----------------------------------------------------------------------------
\* The actions, one by one.
LEMMA InvStep == Inv /\ [Next]_vars => Inv'
<1> SUFFICES ASSUME Inv, [Next]_vars PROVE Inv'
  OBVIOUS
<1>0. TypeOK /\ Nested
  BY DEF Inv
<1>1. Base' /\ ParentsFollowChildren' /\ Drifts' => Inv'
  BY DEF Base, Inv
<1>2. ASSUME UNCHANGED flows, UNCHANGED outside, Settles PROVE Inv'
  <2>1. Quiet /\ Around /\ adrift' = adrift
    BY <1>0, <1>2 DEF Quiet, TypeOK, Around, Saves, outside
  <2>2. \A w \in Ids : state'[w] = "done" => state[w] = "done"
    BY <1>2 DEF flows
  <2> QED  BY <1>1, <1>2, <2>1, <2>2, SettlesKeeps, FollowedStays, DriftsStay
<1>3. ASSUME UNCHANGED runs, Quiet, Around, adrift' \subseteq adrift,
             \A w \in Ids : state'[w] = "done" => state[w] = "done"
      PROVE  Inv'
  <2>1. Settles
    BY <1>0, <1>3 DEF runs, Settles, TypeOK, Nested
  <2> QED  BY <1>1, <1>3, <2>1, SettlesKeeps, FollowedStays, DriftsStay
<1>4. ASSUME NEW r \in Runs, NEW v \in Vals \cup {Empty}, Succeed(r, v), UNCHANGED flows,
             UNCHANGED outside, pc[r] \in {"execute", "poll"},
             Child[DefOf(r)] # NoDef =>
               Started(r) /\ state[child[r]] \in Terminal
      PROVE  Inv'
  <2>1. Quiet /\ Around /\ adrift' = adrift /\ state' = state
    BY <1>0, <1>4 DEF Quiet, TypeOK, flows, Around, Saves, outside
  <2>2. ParentsFollowChildren' /\ Drifts'
    BY <2>1, FollowedStays, DriftsStay
  <2> QED  BY <1>1, <1>4, <2>1, <2>2, SucceedKeeps
<1>5. ASSUME NEW d \in Roots, Launch(d) PROVE Inv'
  BY <1>1, <1>5, CreateKeeps
<1>6. ASSUME NEW c \in Clients, NEW w \in Ids, Submit(c, w) PROVE Inv'
  <2>1. Quiet /\ adrift' = adrift /\ state' = state
    BY <1>6 DEF Submit, flows, outside, Quiet
  <2>2. ParentsFollowChildren' /\ Drifts'
    BY <2>1, FollowedStays, DriftsStay
  <2> QED  BY <1>1, <1>6, <2>2, SubmitKeeps
<1>7. ASSUME NEW w \in Ids, ClientGet(w) PROVE Inv'
  <2>1. /\ w \in Used /\ Apply(w) /\ state[w] \notin Terminal /\ Deadline[def[w]] # "none"
        /\ UNCHANGED runs /\ UNCHANGED outside
    BY <1>7 DEF ClientGet, Fires
  <2>2. Moves(w) /\ \A x \in Ids : state'[x] = "done" => state[x] = "done"
    BY <2>1, DeadlineMoves
  <2> QED  BY <1>0, <1>3, <2>1, <2>2 DEF Quiet, TypeOK, Around, Saves, outside
<1>8. ASSUME NEW w \in Ids, Expire(w) PROVE Inv'
  BY <1>0, <1>3, <1>8 DEF Expire, Quiet, flows, TypeOK, Around, Saves
<1>9. CASE begin_drain
  BY <1>0, <1>3, <1>9 DEF begin_drain, Quiet, flows, TypeOK, Around, Saves
<1>10. ASSUME NEW r \in Runs, ExecuteOther(r) PROVE Inv'
  <2>1. pc[r] = "execute" /\ Child[DefOf(r)] = NoDef /\ UNCHANGED flows /\ UNCHANGED outside
    BY <1>10 DEF ExecuteOther
  <2>2. CASE \E v \in Vals : Succeed(r, v)
    BY <1>4, <2>1, <2>2
  <2>3. CASE Fail(r, "permanent", {})
    <3>1. Settles
      BY <1>0, <2>1, <2>3, FailSettles DEF Active
    <3> QED  BY <1>2, <2>1, <3>1
  <2> QED  BY <1>10, <2>2, <2>3 DEF ExecuteOther
<1>11. ASSUME NEW r \in Runs, StartChild(r) PROVE Inv'
  BY <1>1, <1>11, CreateKeeps
<1>12. ASSUME NEW r \in Runs, StartRefused(r) PROVE Inv'
  <2>1. pc[r] = "execute" /\ Fail(r, "permanent", {}) /\ UNCHANGED flows /\ UNCHANGED outside
    BY <1>12 DEF StartRefused
  <2>2. Settles
    BY <1>0, <2>1, FailSettles DEF Active
  <2> QED  BY <1>2, <2>1, <2>2
<1>13. ASSUME NEW r \in Runs, TimesOut(r) PROVE Inv'
  <2>1. pc[r] = "poll" /\ Fail(r, "timeout", {}) /\ UNCHANGED flows /\ UNCHANGED outside
    BY <1>13 DEF TimesOut
  <2>2. Settles
    BY <1>0, <2>1, FailSettles DEF Active
  <2> QED  BY <1>2, <2>1, <2>2
<1>14. ASSUME NEW r \in Runs, PollCompleted(r) PROVE Inv'
  <2>1. /\ pc[r] = "poll" /\ Succeed(r, Empty) /\ UNCHANGED flows
        /\ UNCHANGED outside /\ state[child[r]] \in Terminal
    BY <1>14 DEF PollCompleted
  <2>2. Started(r) /\ child[r] \in Ids
    BY <1>0, <2>1, Numbers DEF Inv, RunsKnow, Waiting, Started
  <2> QED  BY <1>4, <2>1, <2>2
<1>15. ASSUME NEW r \in Runs, PollOverdue(r) PROVE Inv'
  <2>1. Quiet /\ adrift' = adrift /\ state' = state
    BY <1>15 DEF PollOverdue, flows, outside, Quiet
  <2>2. ParentsFollowChildren' /\ Drifts'
    BY <2>1, FollowedStays, DriftsStay
  <2> QED  BY <1>1, <1>15, <2>2, PollOverdueKeeps
<1>16. ASSUME NEW r \in Runs, ApplyDeadline(r) PROVE Inv'
  <2>1. pc[r] = "apply" /\ UNCHANGED outside
    BY <1>16 DEF ApplyDeadline
  <2>2. Started(r) /\ child[r] \in Used /\ child[r] \in Ids /\ Deadline[def[child[r]]] # "none"
    BY <1>0, <2>1, Numbers DEF Inv, RunsKnow, Waiting, Started
  <2>3. CASE Fail(r, "permanent", {}) /\ UNCHANGED flows
    <3>1. Settles
      BY <1>0, <2>1, <2>3, FailSettles DEF Active
    <3> QED  BY <1>2, <2>1, <2>3, <3>1
  <2>4. CASE /\ version[child[r]] = loaded[r] /\ Apply(child[r])
             /\ IF Deadline[def[child[r]]] \in Terminal THEN Succeed(r, Empty)
                                                        ELSE Fail(r, "permanent", {})
    <3>1. state[child[r]] \notin Terminal
      BY <2>1, <2>4 DEF Inv, RunsKnow
    <3>2. /\ Moves(child[r]) /\ state'[child[r]] = Deadline[def[child[r]]]
          /\ \A x \in Ids : state'[x] = "done" => state[x] = "done"
      BY <2>2, <2>4, <3>1, DeadlineMoves
    <3>3. Quiet /\ Around /\ adrift' = adrift
      BY <1>0, <2>1, <2>2, <3>2 DEF Quiet, TypeOK, Around, Saves, outside
    <3>4. ParentsFollowChildren' /\ Drifts'
      BY <3>2, <3>3, FollowedStays, DriftsStay
    <3>5. CASE Deadline[def[child[r]]] \in Terminal
      BY <1>1, <2>1, <2>2, <2>4, <3>2, <3>3, <3>4, <3>5, SucceedKeeps
    <3>6. CASE Deadline[def[child[r]]] \notin Terminal
      <4>1. Settles
        BY <1>0, <2>1, <2>4, <3>6, FailSettles DEF Active
      <4> QED  BY <1>1, <3>3, <3>4, <4>1, SettlesKeeps
    <3> QED  BY <3>5, <3>6
  <2> QED  BY <1>16, <2>3, <2>4 DEF ApplyDeadline
<1>17. ASSUME NEW r \in Runs, Save(r) PROVE Inv'
  <2>1. /\ pc[r] = "save" /\ version[target[r]] = seen[r] /\ End(r, "committed", {})
        /\ UNCHANGED <<next, def, parent, outside>>
    BY <1>17 DEF Save
  <2>2. target[r] \in Used /\ target[r] \in Ids /\ state[target[r]] = "open"
    BY <1>0, <2>1, Numbers DEF Inv, TypeOK, RunsKnow, Active
  <2>3. /\ state' = [state EXCEPT ![target[r]] = "done"]
        /\ version' = [version EXCEPT ![target[r]] = @ + 1]
        /\ context' = [context EXCEPT ![target[r]] = result[r]]
    BY <1>17 DEF Save
  <2>4. /\ Moves(target[r]) /\ state'[target[r]] = "done" /\ context'[target[r]] = result[r]
        /\ \A x \in Ids : x # target[r] => state'[x] = state[x] /\ context'[x] = context[x]
    BY <1>0, <2>1, <2>2, <2>3 DEF Moves, TypeOK, Terminal
  <2>5. Quiet /\ Around /\ adrift' = adrift /\ Used' = Used
    BY <1>0, <2>1, <2>2, <2>4 DEF Quiet, TypeOK, Used, Around, Saves, outside
  <2>6. Settles
    BY <1>0, <2>1, FailSettles DEF Active
  <2>7. ASSUME NEW w \in Used, state'[w] = "done", Child[def[w]] # NoDef
        PROVE  OwnChildEnded(w)
    <3>1. CASE w = target[r]
      BY <2>1, <2>7, <3>1 DEF Inv, RunsKnow, Started, DefOf, OwnChildEnded
    <3>2. CASE w # target[r]
      BY <1>0, <2>4, <2>7, <3>2, Numbers DEF Inv, ParentsFollowChildren
    <3> QED  BY <3>1, <3>2
  <2>8. ParentsFollowChildren' /\ Drifts'
    BY <2>1, <2>5, <2>7, EndedStays, DriftsStay DEF ParentsFollowChildren
  <2> QED  BY <1>1, <2>5, <2>6, <2>8, SettlesKeeps
<1>18. ASSUME NEW r \in Runs, Lose(r) PROVE Inv'
  <2>1. UNCHANGED flows /\ UNCHANGED outside
    BY <1>18 DEF Lose
  <2>2. Settles
    BY <1>0, <1>18, LoseSettles
  <2> QED  BY <1>2, <2>1, <2>2
<1>19. ASSUME NEW r \in Runs, Elapse(r) PROVE Inv'
  <2>1. Settles
    BY <1>0, <1>19 DEF Elapse, Settles, TypeOK, Nested
  <2>2. UNCHANGED flows /\ UNCHANGED outside
    BY <1>19 DEF Elapse
  <2> QED  BY <1>2, <2>1, <2>2
<1>20. ASSUME NEW r \in Runs, Drop(r) PROVE Inv'
  <2>1. /\ pc[r] \in Active /\ Fail(r, "timeout", Under(r))
        /\ UNCHANGED flows /\ UNCHANGED <<overdue, draining>>
        /\ adrift' = adrift \cup Awaited({r} \cup Under(r))
    BY <1>20 DEF Drop, Executing
  <2>2. Settles
    BY <1>0, <2>1, FailSettles DEF Active
  <2>3. {r} \cup Under(r) \subseteq Runs
    BY DEF Under
  <2>4. Around
    BY <1>0, <2>1, <2>3, AwaitedDrift DEF Around, TypeOK, Saves
  <2>5. Quiet /\ Used' = Used
    BY <2>1 DEF Quiet, flows, Used
  <2>6. Drifts'
    BY <2>1, <2>3, AwaitedDrift DEF Inv, Drifts, flows, Used, OwnChildEnded
  <2>7. ParentsFollowChildren'
    BY <2>1, <2>5, FollowedStays DEF flows
  <2> QED  BY <1>1, <2>2, <2>4, <2>5, <2>6, <2>7, SettlesKeeps
<1>22. ASSUME NEW r \in Runs, PollFails(r) PROVE Inv'
  <2>1. pc[r] = "poll" /\ Fail(r, "permanent", {}) /\ UNCHANGED flows /\ UNCHANGED outside
    BY <1>22 DEF PollFails
  <2>2. Settles
    BY <1>0, <2>1, FailSettles DEF Active
  <2> QED  BY <1>2, <2>1, <2>2
<1>23. ASSUME NEW s \in adrift, Land(s) PROVE Inv'
  <2>1. /\ version[s.flow] = s.seen /\ adrift' \subseteq adrift
        /\ state' = [state EXCEPT ![s.flow] = s.state]
        /\ version' = [version EXCEPT ![s.flow] = @ + 1]
        /\ context' = [context EXCEPT ![s.flow] = s.context]
        /\ UNCHANGED <<next, def, parent, overdue, draining, runs>>
    BY <1>23 DEF Land
  <2>2. /\ s \in Saves /\ s.flow \in Used /\ state[s.flow] \notin Terminal
        /\ s.state = "done" /\ Child[def[s.flow]] # NoDef => OwnChildEnded(s.flow)
    BY <1>0, <2>1 DEF Inv, Drifts, TypeOK, Saves
  <2>3. /\ Moves(s.flow) /\ state'[s.flow] = s.state
        /\ \A x \in Ids : x # s.flow => state'[x] = state[x]
    BY <1>0, <2>1, <2>2 DEF Moves, TypeOK, Saves
  <2>4. Quiet /\ Around /\ Used' = Used
    BY <1>0, <2>1, <2>2, <2>3 DEF Quiet, Around, TypeOK, Saves, Used
  <2>5. ASSUME NEW w \in Used, state'[w] = "done", Child[def[w]] # NoDef
        PROVE  OwnChildEnded(w)
    BY <1>0, <2>2, <2>3, <2>5, Numbers DEF Inv, ParentsFollowChildren
  <2>6. ParentsFollowChildren' /\ Drifts'
    BY <2>1, <2>4, <2>5, EndedStays, DriftsStay DEF ParentsFollowChildren
  <2>7. Settles
    BY <1>0, <2>1 DEF runs, Settles, TypeOK, Nested
  <2> QED  BY <1>1, <2>4, <2>6, <2>7, SettlesKeeps
<1>24. ASSUME NEW s \in adrift, Vanish(s) PROVE Inv'
  BY <1>0, <1>3, <1>24 DEF Vanish, flows, Quiet, Around, TypeOK, Saves
<1>21. CASE UNCHANGED vars
  BY <1>0, <1>3, <1>21 DEF vars, runs, flows, Quiet, TypeOK, Around, Saves
<1> QED  BY <1>5, <1>6, <1>7, <1>8, <1>9, <1>10, <1>11, <1>12, <1>13, <1>14, <1>15, <1>16, <1>17,
       <1>18, <1>19, <1>20, <1>21, <1>22, <1>23, <1>24 DEF Next, Step

LEMMA Inductive == Spec => []Inv
BY Initially, InvStep, PTL DEF Spec

-----------------------------------------------------------------------------
\* Runs move workflows that exist, and poll children that do.
THEOREM SubWorkflowsTyped == Spec => []TypeOK
<1>1. Inv => TypeOK
  BY DEF Inv
<1> QED  BY <1>1, Inductive, PTL

\* A parent moves on WorkflowExecutor::execute only after a child of its own has ended,
\* be it by a save that outlived the executor it was made for.
THEOREM ParentsFollow == Spec => []ParentsFollowChildren
<1>1. Inv => ParentsFollowChildren
  BY DEF Inv
<1> QED  BY <1>1, Inductive, PTL

\* No run goes on below an executor that was dropped, timed out or answered, and the
\* saves that do are of no effect on a workflow that has ended.
THEOREM CallersStayAwake == Spec => []CallersAwait
<1>1. Inv => CallersAwait
  BY DEF Inv, Nested, Drifts, CallersAwait
<1> QED  BY <1>1, Inductive, PTL
=============================================================================
