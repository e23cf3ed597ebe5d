------------------------- MODULE Configuration_proofs -------------------------
(***************************************************************************)
(* For all configurations, however many files, capabilities, states and    *)
(* transitions: what `check' says of a definition is true of every walk    *)
(* over it; what loads is the merge of the files included, in order; and   *)
(* what names a capability gets the guards and the policy of its chain.    *)
(*                                                                         *)
(* Of the documents TreesAssumption says what the parser and the schema    *)
(* leave: fields of the right kind, finitely many capabilities.  The       *)
(* theorems about `check' need none of it.                                 *)
(***************************************************************************)
EXTENDS Configuration, FiniteSetTheorems, TLAPS

\* A definition is checked after it is built and then stays.
Built ==
  /\ def # None => phase = "ready"
  /\ stage # "" => def # None

\* What it means for a definition to have no errors.
Sound ==
  /\ def.initialState \in Declared
  /\ def.onTimeout \in Declared \cup {None}
  /\ \A s \in Declared : \A t \in Transitions(s) :
       t.target \in Declared /\ t.branches \subseteq Declared

\* What has been checked and has no errors is sound.
Errorless == stage # "" /\ errors = {} => Sound

\* Every state found has its successors found, or still in the queue to be visited.
Closed(open) == \A s \in reachable \ open : Successors(s) \cap Declared \subseteq reachable

\* While the search goes on, what is found begins with the initial state.
Searching ==
  stage = "diagnosed" =>
    /\ unreachable = {} /\ queue \subseteq reachable
    /\ def.initialState \in reachable
    /\ Closed(queue)

\* After it, nothing that was found leads to what is called unreachable.
Searched ==
  stage \in {"searched", "walking"} =>
    \/ unreachable = {}
    \/ /\ unreachable \cap reachable = {}
       /\ def.initialState \in reachable
       /\ Closed({})

\* An instance whose deadline has not been applied is in a state that was found, or
\* in one the definition does not declare.
Followed ==
  stage = "walking" /\ ~expired /\ unreachable # {} =>
    at \in reachable \/ at \notin Declared

\* No state is called unreachable before the check.
Unwarned == stage = "" => unreachable = {}

\* Only declared states are.
Undeclared == unreachable \subseteq Declared \/ unreachable = {}

\* The invariant of the check and the walk.
Inv ==
  /\ Built /\ Errorless /\ CheckedStayDeclared
  /\ Unwarned /\ Searching /\ Searched /\ Followed /\ Undeclared

-----------------------------------------------------------------------------
\* A step that changes neither the definition nor the checker.
LEMMA Untouched ==
  ASSUME Inv, Built', def' = def, UNCHANGED validation
  PROVE  Inv'
<1>1. Declared' = Declared /\ \A x : Successors(x)' = Successors(x)
  BY DEF Declared, Successors, Targets, Transitions
<1>2. Sound' <=> Sound
  BY DEF Sound, Declared, Transitions
<1>3. Closed(queue)' <=> Closed(queue)
  BY <1>1 DEF Closed, validation
<1>4. Closed({})' <=> Closed({})
  BY <1>1 DEF Closed, validation
<1>5. Errorless' /\ CheckedStayDeclared'
  BY <1>1, <1>2 DEF Inv, Errorless, CheckedStayDeclared, validation
<1>6. Searching' /\ Searched'
  BY <1>3, <1>4 DEF Inv, Searching, Searched, validation
<1>7. Unwarned' /\ Followed' /\ Undeclared'
  BY <1>1 DEF Inv, Unwarned, Followed, Undeclared, validation
<1> QED  BY <1>5, <1>6, <1>7 DEF Inv

\* The steps of the loader and the resolver leave the checker alone, and build the
\* definition before anything is said of it.
LEMMA PipelineKeeps ==
  ASSUME Inv, Load \/ Flatten \/ Resolve \/ Compile
  PROVE  Inv'
<1>1. CASE Load
  <2>1. def' = def /\ UNCHANGED validation /\ (phase' = phase \/ phase = "load")
    BY <1>1 DEF Load, Opens, OpenFile, Refuse, CloseFile, Close, resolver
  <2> QED  BY <2>1, Untouched DEF Inv, Built, validation
<1>2. CASE Flatten
  <2>1. def' = def /\ UNCHANGED validation /\ (phase' = phase \/ phase = "flatten")
    BY <1>2 DEF Flatten, Flattens, BeginFlatten, RefuseFlatten, EndFlatten, EndFlattening,
         loader
  <2> QED  BY <2>1, Untouched DEF Inv, Built, validation
<1>3. CASE Resolve
  <2>1. def' = def /\ UNCHANGED validation /\ phase = "resolve"
    BY <1>3 DEF Resolve
  <2> QED  BY <2>1, Untouched DEF Inv, Built, validation
<1>4. CASE Compile
  <2>1. phase' = "ready" /\ UNCHANGED validation /\ phase = "compile"
    BY <1>4 DEF Compile
  <2>2. stage = "" /\ stage' = "" /\ unreachable' = unreachable
    BY <2>1 DEF Inv, Built, validation
  <2>3. unreachable' = {}
    BY <2>2 DEF Inv, Unwarned
  <2> QED  BY <2>1, <2>2, <2>3 DEF Inv, Built, Errorless, CheckedStayDeclared, Searching, Searched,
         Followed, Unwarned, Undeclared
<1> QED  BY <1>1, <1>2, <1>3, <1>4

\* No error is reported only where every target is declared.
LEMMA NoErrorsMeansSound ==
  ASSUME Errors = {}
  PROVE  Sound
<1>1. def.initialState \in Declared
  BY DEF Errors
<1>2. def.onTimeout \in Declared \cup {None}
  BY DEF Errors
<1>3. ASSUME NEW s \in Declared, NEW t \in Transitions(s)
      PROVE  t.target \in Declared /\ t.branches \subseteq Declared
  <2>1. t.target \notin Declared => <<"target", s>> \in Errors
    BY <1>3 DEF Errors
  <2>2. ~(t.branches \subseteq Declared) => <<"branch", s>> \in Errors
    BY <1>3 DEF Errors
  <2> QED  BY <2>1, <2>2
<1> QED  BY <1>1, <1>2, <1>3 DEF Sound

\* The checks of the declarations.
LEMMA DiagnoseKeeps ==
  ASSUME Inv, Diagnose, phase' = phase
  PROVE  Inv'
<1>1. /\ stage = "" /\ def # None /\ def' = def
      /\ reachable' = {def.initialState} \cap Declared /\ queue' = reachable'
      /\ unreachable' = {}
      /\ stage' = IF def.initialState \in Declared THEN "diagnosed" ELSE "searched"
  BY DEF Diagnose, Inv, Unwarned
<1>2. Declared' = Declared
  BY <1>1 DEF Declared
<1>3. Sound' <=> Sound
  BY <1>1 DEF Sound, Declared, Transitions
<1>4. errors' = {} => Sound
  BY NoErrorsMeansSound DEF Diagnose
<1>5. Errorless'
  BY <1>3, <1>4 DEF Errorless
<1>6. Built'
  BY <1>1 DEF Built, Inv
<1>7. Searching'
  <2> SUFFICES ASSUME stage' = "diagnosed"
               PROVE  Searching'
    BY DEF Searching
  <2>1. def.initialState \in Declared
    BY <1>1
  <2>2. reachable' \ queue' = {}
    BY <1>1
  <2> QED  BY <1>1, <2>1, <2>2 DEF Searching, Closed
<1> QED  BY <1>1, <1>5, <1>6, <1>7 DEF Inv, CheckedStayDeclared, Unwarned, Searched, Followed, Undeclared

\* One turn of the search.
LEMMA VisitKeeps ==
  ASSUME Inv, NEW s \in Places, Visit(s), phase' = phase
  PROVE  Inv'
<1> DEFINE new == (Successors(s) \cap Declared) \ reachable
<1>1. /\ stage = "diagnosed" /\ s \in queue
      /\ reachable' = reachable \cup new /\ queue' = (queue \ {s}) \cup new
      /\ UNCHANGED <<def, stage, errors, deadEnds, unreachable, at, expired>>
  BY DEF Visit
<1>2. Declared' = Declared /\ \A x : Successors(x)' = Successors(x)
  BY <1>1 DEF Declared, Successors, Targets, Transitions
<1>3. Closed(queue)'
  <2> SUFFICES ASSUME NEW x \in reachable' \ queue'
               PROVE  Successors(x) \cap Declared \subseteq reachable'
    BY <1>2 DEF Closed
  <2>1. CASE x = s
    BY <1>1, <2>1
  <2>2. CASE x # s
    <3>1. x \in reachable \ queue
      BY <1>1, <2>2
    <3> QED  BY <3>1, <1>1 DEF Inv, Searching, Closed
  <2> QED  BY <2>1, <2>2
<1>4. Searching'
  BY <1>1, <1>3 DEF Searching, Inv
<1>5. Sound' <=> Sound
  BY <1>1 DEF Sound, Declared, Transitions
<1>6. Errorless'
  BY <1>1, <1>5 DEF Errorless, Inv
<1>7. Built' /\ Undeclared'
  BY <1>1, <1>2 DEF Inv, Built, Undeclared
<1> QED  BY <1>1, <1>4, <1>6, <1>7 DEF Inv, CheckedStayDeclared, Unwarned, Searched, Followed

\* The end of the search.
LEMMA ReportKeeps ==
  ASSUME Inv, Report, phase' = phase
  PROVE  Inv'
<1>1. /\ stage = "diagnosed" /\ queue = {} /\ stage' = "searched"
      /\ unreachable' = Declared \ (reachable \cup {def.onTimeout})
      /\ UNCHANGED <<def, errors, deadEnds, reachable, queue, at, expired>>
  BY DEF Report
<1>2. Declared' = Declared /\ \A x : Successors(x)' = Successors(x)
  BY <1>1 DEF Declared, Successors, Targets, Transitions
<1>3. Closed({})'
  BY <1>1, <1>2 DEF Inv, Searching, Closed
<1>4. Searched'
  BY <1>1, <1>3 DEF Searched, Inv, Searching
<1>5. Sound' <=> Sound
  BY <1>1 DEF Sound, Declared, Transitions
<1>6. Built' /\ Undeclared' /\ Errorless'
  BY <1>1, <1>2, <1>5 DEF Inv, Built, Undeclared, Errorless
<1> QED  BY <1>1, <1>4, <1>6 DEF Inv, CheckedStayDeclared, Unwarned, Searching, Followed

\* The walk.
LEMMA WalkKeeps ==
  ASSUME Inv, Walk, phase' = phase
  PROVE  Inv'
<1>1. /\ stage \in {"searched", "walking"} /\ stage' = "walking"
      /\ UNCHANGED <<def, errors, reachable, unreachable>>
  BY DEF Walk, Enter, Move, Overdue
<1>2. Declared' = Declared /\ \A x : Successors(x)' = Successors(x)
  BY <1>1 DEF Declared, Successors, Targets, Transitions
<1>3. Sound' <=> Sound
  BY <1>1 DEF Sound, Declared, Transitions
<1>4. Searched'
  BY <1>1, <1>2 DEF Searched, Inv, Closed
<1>5. CheckedStayDeclared'
  <2> SUFFICES ASSUME errors = {}
               PROVE  at' \in Declared
    BY <1>1, <1>2 DEF CheckedStayDeclared
  <2>1. Sound
    BY <1>1 DEF Inv, Errorless
  <2>2. CASE Enter
    BY <2>1, <2>2 DEF Enter, Sound
  <2>3. CASE Move
    BY <2>1, <2>3 DEF Move, Sound, Targets
  <2>4. CASE Overdue
    BY <2>1, <2>4 DEF Overdue, Sound
  <2> QED  BY <2>2, <2>3, <2>4 DEF Walk
<1>6. Followed'
  <2> SUFFICES ASSUME ~expired', unreachable # {}
               PROVE  at' \in reachable \/ at' \notin Declared
    BY <1>1, <1>2 DEF Followed
  <2>1. def.initialState \in reachable /\ Closed({})
    BY <1>1 DEF Inv, Searched
  <2>2. CASE Enter
    BY <2>1, <2>2 DEF Enter
  <2>3. CASE Move
    <3>1. at \in reachable /\ at \in Declared
      BY <2>3, <1>1 DEF Move, Inv, Followed
    <3>2. at' \in Successors(at)
      BY <2>3 DEF Move, Successors
    <3> QED  BY <3>1, <3>2, <2>1 DEF Closed
  <2>4. CASE Overdue
    BY <2>4 DEF Overdue
  <2> QED  BY <2>2, <2>3, <2>4 DEF Walk
<1> QED  BY <1>1, <1>2, <1>3, <1>4, <1>5, <1>6 DEF Inv, Built, Errorless, Unwarned, Searching, Undeclared

\* The invariant of the check and the walk holds.
LEMMA InvHolds == Spec => []Inv
<1>1. Init => Inv
  BY DEF Init, InitValidation, Inv, Built, Errorless, CheckedStayDeclared, Unwarned, Searching,
         Searched, Followed, Undeclared
<1>2. Inv /\ [Next]_vars => Inv'
  <2> SUFFICES ASSUME Inv, [Next]_vars
               PROVE  Inv'
    OBVIOUS
  <2>1. CASE UNCHANGED vars
    BY <2>1, Untouched DEF vars, validation, Inv, Built
  <2>2. CASE Load \/ Flatten \/ Resolve \/ Compile
    BY <2>2, PipelineKeeps
  <2>3. CASE CheckAndWalk
    <3>1. phase' = phase /\ (Check \/ Walk)
      BY <2>3 DEF CheckAndWalk
    <3>2. CASE Diagnose
      BY <3>1, <3>2, DiagnoseKeeps
    <3>3. ASSUME NEW s \in Places, Visit(s) PROVE Inv'
      BY <3>1, <3>3, VisitKeeps
    <3>4. CASE Report
      BY <3>1, <3>4, ReportKeeps
    <3>5. CASE Walk
      BY <3>1, <3>5, WalkKeeps
    <3> QED  BY <3>1, <3>2, <3>3, <3>4, <3>5 DEF Check
  <2> QED  BY <2>1, <2>2, <2>3 DEF Next
<1> QED  BY <1>1, <1>2, PTL DEF Spec

-----------------------------------------------------------------------------
\* `check' without errors: no instance ever leaves the declared states, for any
\* definition.
THEOREM CheckedDefinitionsHold == Spec => []CheckedStayDeclared
<1>1. Inv => CheckedStayDeclared
  BY DEF Inv
<1> QED  BY <1>1, InvHolds, PTL

\* A state `check' calls unreachable is entered by no instance before its deadline,
\* for any definition: the search misses nothing a walk can take.
THEOREM UnreachableStatesStay == Spec => []WarningsAreTrue
<1>1. Inv => WarningsAreTrue
  BY DEF Inv, WarningsAreTrue, Followed, Searched, Undeclared
<1> QED  BY <1>1, InvHolds, PTL

-----------------------------------------------------------------------------
\* Of scalars and executors, what is written last stands: in whatever order the
\* merges are done.
LEMMA LaterLaws ==
  \A a, b, c :
    /\ Later(Later(a, b), c) = Later(a, Later(b, c))
    /\ Later(a, None) = a /\ Later(None, a) = a
    /\ LaterExecutor(LaterExecutor(a, b), c) = LaterExecutor(a, LaterExecutor(b, c))
    /\ LaterExecutor(a, None) = a /\ LaterExecutor(None, a) = a
BY DEF Later, LaterExecutor, IsRef

\* Arrays concatenate.
LEMMA ConcatLaws ==
  ASSUME NEW a, NEW b, IsSequence(a), IsSequence(b)
  PROVE  /\ IsSequence(a \o b) /\ ToSet(a \o b) = ToSet(a) \cup ToSet(b)
         /\ a \o <<>> = a /\ <<>> \o a = a
<1> DEFINE S == ToSet(a) \cup ToSet(b)
<1>1. a \in Seq(S) /\ b \in Seq(S)
  BY DEF IsSequence
<1> HIDE DEF S
<1>2. a \o <<>> = a /\ <<>> \o a = a
  BY <1>1
<1>3. ToSet(a \o b) = ToSet(a) \cup ToSet(b)
  <2>1. /\ DOMAIN a = 1..Len(a) /\ DOMAIN b = 1..Len(b) /\ DOMAIN (a \o b) = 1..(Len(a) + Len(b))
        /\ Len(a) \in Nat /\ Len(b) \in Nat
        /\ \A i \in 1..(Len(a) + Len(b)) :
             (a \o b)[i] = IF i <= Len(a) THEN a[i] ELSE b[i - Len(a)]
    BY <1>1
  <2>2. ToSet(a \o b) \subseteq ToSet(a) \cup ToSet(b)
    <3> SUFFICES ASSUME NEW i \in 1..(Len(a) + Len(b))
                 PROVE  (a \o b)[i] \in ToSet(a) \cup ToSet(b)
      BY <2>1 DEF ToSet
    <3>1. CASE i <= Len(a)
      BY <2>1, <3>1 DEF ToSet
    <3>2. CASE ~(i <= Len(a))
      <4>1. i - Len(a) \in 1..Len(b)
        BY <2>1, <3>2
      <4> QED BY <2>1, <3>2, <4>1 DEF ToSet
    <3> QED BY <3>1, <3>2
  <2>3. ASSUME NEW i \in 1..Len(a) PROVE a[i] \in ToSet(a \o b)
    <3>1. i \in 1..(Len(a) + Len(b)) /\ i <= Len(a)
      BY <2>1
    <3> QED BY <2>1, <3>1 DEF ToSet
  <2>4. ASSUME NEW i \in 1..Len(b) PROVE b[i] \in ToSet(a \o b)
    <3>1. /\ i + Len(a) \in 1..(Len(a) + Len(b)) /\ ~(i + Len(a) <= Len(a))
          /\ i + Len(a) - Len(a) = i
      BY <2>1
    <3> QED BY <2>1, <3>1 DEF ToSet
  <2> QED BY <2>1, <2>2, <2>3, <2>4 DEF ToSet
<1>4. IsSequence(a \o b)
  <2>1. a \in Seq(ToSet(a \o b)) /\ b \in Seq(ToSet(a \o b))
    BY <1>3 DEF IsSequence
  <2> QED BY <2>1 DEF IsSequence
<1> QED BY <1>2, <1>3, <1>4

\* Guards concatenate, policies unite.
LEMMA SiteLaws ==
  ASSUME NEW a \in Sites, NEW b \in Sites, NEW c \in Sites
  PROVE  /\ MergeSites(a, b) \in Sites
         /\ MergeSites(MergeSites(a, b), c) = MergeSites(a, MergeSites(b, c))
<1>1. MergeSites(a, b) \in Sites
  BY DEF MergeSites, Sites, LaterExecutor, Later
<1>2. (a.guards \o b.guards) \o c.guards = a.guards \o (b.guards \o c.guards)
  BY DEF Sites
<1>3. (a.reliability \cup b.reliability) \cup c.reliability
        = a.reliability \cup (b.reliability \cup c.reliability)
  OBVIOUS
<1>4. LaterExecutor(LaterExecutor(a.executor, b.executor), c.executor)
        = LaterExecutor(a.executor, LaterExecutor(b.executor, c.executor))
  BY LaterLaws
<1>5. MergeSites(MergeSites(a, b), c) = MergeSites(a, MergeSites(b, c))
  <2> HIDE DEF Sites
  <2> QED BY <1>2, <1>3, <1>4 DEF MergeSites
<1> QED BY <1>1, <1>5

\* An onEnter action, written or not, merges as a site.
LEMMA EntryLaws ==
  ASSUME NEW a \in Sites \cup {None}, NEW b \in Sites \cup {None}, NEW c \in Sites \cup {None}
  PROVE  /\ MergeEntries(a, b) \in Sites \cup {None}
         /\ MergeEntries(MergeEntries(a, b), c) = MergeEntries(a, MergeEntries(b, c))
<1>1. None \notin Sites
  BY TreesAssumption
<1>2. \A x, y, z \in Sites : MergeSites(x, y) \in Sites
        /\ MergeSites(MergeSites(x, y), z) = MergeSites(x, MergeSites(y, z))
  BY SiteLaws
<1>3. MergeEntries(a, b) \in Sites \cup {None}
  BY <1>2 DEF MergeEntries
<1>4. CASE a = None \/ b = None \/ c = None
  BY <1>3, <1>4 DEF MergeEntries
<1>5. CASE a # None /\ b # None /\ c # None
  <2>1. a \in Sites /\ b \in Sites /\ c \in Sites
    BY <1>5
  <2>2. MergeSites(a, b) # None /\ MergeSites(b, c) # None
    BY <1>1, <1>2, <2>1
  <2> QED BY <1>2, <1>3, <1>5, <2>1, <2>2 DEF MergeEntries
<1> QED BY <1>3, <1>4, <1>5

\* A transition of a definition and a state of it, as their documents write them.
StepOK(t) ==
  /\ t = [target |-> t.target, branches |-> t.branches, site |-> t.site]
  /\ IsTransition(t) /\ t.site \in Sites

\* The transitions of a state.
StepsOK(f) == IsFunction(f) /\ \A k \in DOMAIN f : StepOK(f[k])

\* A state.
StateOK(d) ==
  /\ d = [terminal |-> d.terminal, onEnter |-> d.onEnter, transitions |-> d.transitions]
  /\ d.terminal \in BOOLEAN /\ d.onEnter \in Sites \cup {None}
  /\ StepsOK(d.transitions)

\* A target is overridden, branches unite.
LEMMA StepLaws ==
  /\ \A a, b : StepOK(a) /\ StepOK(b) => StepOK(MergeTransitions(a, b))
  /\ \A a, b, c : StepOK(a) /\ StepOK(b) /\ StepOK(c) =>
       MergeTransitions(MergeTransitions(a, b), c) = MergeTransitions(a, MergeTransitions(b, c))
<1>1. ASSUME NEW a, NEW b, StepOK(a), StepOK(b) PROVE StepOK(MergeTransitions(a, b))
  <2>1. MergeSites(a.site, b.site) \in Sites
    BY <1>1, SiteLaws DEF StepOK
  <2> QED BY <1>1, <2>1 DEF StepOK, MergeTransitions, IsTransition, Later
<1>2. ASSUME NEW a, NEW b, NEW c, StepOK(a), StepOK(b), StepOK(c)
      PROVE  MergeTransitions(MergeTransitions(a, b), c)
               = MergeTransitions(a, MergeTransitions(b, c))
  <2>1. MergeSites(MergeSites(a.site, b.site), c.site)
          = MergeSites(a.site, MergeSites(b.site, c.site))
    BY <1>2, SiteLaws DEF StepOK
  <2>2. Later(Later(a.target, b.target), c.target) = Later(a.target, Later(b.target, c.target))
    BY LaterLaws
  <2>3. (a.branches \cup b.branches) \cup c.branches = a.branches \cup (b.branches \cup c.branches)
    OBVIOUS
  <2> QED BY <2>1, <2>2, <2>3 DEF MergeTransitions
<1> QED BY <1>1, <1>2

\* The merge of two states' transitions.
MergedSteps(a, b) == MergeMaps(a, b, MergeTransitions)

\* The transitions of a state, merged by name.
LEMMA StepMapLaws ==
  \A a, b, c : StepsOK(a) /\ StepsOK(b) /\ StepsOK(c) =>
    /\ StepsOK(MergedSteps(a, b))
    /\ MergedSteps(MergedSteps(a, b), c) = MergedSteps(a, MergedSteps(b, c))
<1> SUFFICES ASSUME NEW a, NEW b, NEW c, StepsOK(a), StepsOK(b), StepsOK(c)
             PROVE  /\ StepsOK(MergedSteps(a, b))
                    /\ MergedSteps(MergedSteps(a, b), c) = MergedSteps(a, MergedSteps(b, c))
  OBVIOUS
<1>0. /\ \A k \in DOMAIN a : StepOK(a[k])
      /\ \A k \in DOMAIN b : StepOK(b[k])
      /\ \A k \in DOMAIN c : StepOK(c[k])
  BY DEF StepsOK
<1> DEFINE D == DOMAIN a \cup DOMAIN b
           E == DOMAIN b \cup DOMAIN c
           M == [k \in D |-> IF k \notin DOMAIN a THEN b[k]
                             ELSE IF k \notin DOMAIN b THEN a[k] ELSE MergeTransitions(a[k], b[k])]
           N == [k \in E |-> IF k \notin DOMAIN b THEN c[k]
                             ELSE IF k \notin DOMAIN c THEN b[k] ELSE MergeTransitions(b[k], c[k])]
<1>1. MergedSteps(a, b) = M /\ MergedSteps(b, c) = N
  BY DEF MergedSteps, MergeMaps
<1>2. /\ \A x, y : StepOK(x) /\ StepOK(y) => StepOK(MergeTransitions(x, y))
      /\ \A x, y, z : StepOK(x) /\ StepOK(y) /\ StepOK(z) =>
           MergeTransitions(MergeTransitions(x, y), z) = MergeTransitions(x, MergeTransitions(y, z))
  BY StepLaws
<1>3. DOMAIN M = D /\ DOMAIN N = E /\ IsFunction(M)
  BY DEF IsFunction
<1>4. \A k \in D : StepOK(M[k])
  BY <1>0, <1>2
<1>5. MergedSteps(M, c) = MergedSteps(a, N)
  <2> DEFINE F == DOMAIN a \cup DOMAIN b \cup DOMAIN c
             P(k) == IF k \notin DOMAIN M THEN c[k]
                     ELSE IF k \notin DOMAIN c THEN M[k] ELSE MergeTransitions(M[k], c[k])
             Q(k) == IF k \notin DOMAIN a THEN N[k]
                     ELSE IF k \notin DOMAIN N THEN a[k] ELSE MergeTransitions(a[k], N[k])
  <2>1. MergedSteps(M, c) = [k \in F |-> P(k)]
    BY <1>3 DEF MergedSteps, MergeMaps
  <2>2. MergedSteps(a, N) = [k \in F |-> Q(k)]
    BY <1>3 DEF MergedSteps, MergeMaps
  <2>3. ASSUME NEW k \in F PROVE P(k) = Q(k)
    <3>1. /\ k \in D => M[k] = IF k \notin DOMAIN a THEN b[k]
                                ELSE IF k \notin DOMAIN b THEN a[k] ELSE MergeTransitions(a[k], b[k])
          /\ k \in E => N[k] = IF k \notin DOMAIN b THEN c[k]
                                ELSE IF k \notin DOMAIN c THEN b[k] ELSE MergeTransitions(b[k], c[k])
      OBVIOUS
    <3> HIDE DEF M, N
    <3>2. CASE k \in DOMAIN a /\ k \in DOMAIN b /\ k \in DOMAIN c
      <4>1. MergeTransitions(MergeTransitions(a[k], b[k]), c[k]) = MergeTransitions(a[k], MergeTransitions(b[k], c[k]))
        BY <1>0, <1>2, <3>2
      <4> QED BY <1>3, <3>1, <3>2, <4>1
    <3>3. CASE ~(k \in DOMAIN a /\ k \in DOMAIN b /\ k \in DOMAIN c)
      BY <1>3, <3>1, <3>3
    <3> QED BY <3>2, <3>3
  <2> HIDE DEF P, Q, F
  <2> QED BY <2>1, <2>2, <2>3
<1> HIDE DEF M, N
<1> QED BY <1>1, <1>3, <1>4, <1>5 DEF StepsOK

\* States merge field by field.
LEMMA StateLaws ==
  /\ \A a, b : StateOK(a) /\ StateOK(b) => StateOK(MergeStates(a, b))
  /\ \A a, b, c : StateOK(a) /\ StateOK(b) /\ StateOK(c) =>
       MergeStates(MergeStates(a, b), c) = MergeStates(a, MergeStates(b, c))
<1>1. ASSUME NEW a, NEW b, StateOK(a), StateOK(b) PROVE StateOK(MergeStates(a, b))
  <2> DEFINE m == MergedSteps(a.transitions, b.transitions)
  <2>1. StepsOK(m)
    BY <1>1, StepMapLaws DEF StateOK
  <2>2. MergeEntries(a.onEnter, b.onEnter) \in Sites \cup {None}
    BY <1>1, EntryLaws DEF StateOK
  <2> HIDE DEF m
  <2>3. MergeStates(a, b) = [terminal |-> a.terminal \/ b.terminal,
                             onEnter |-> MergeEntries(a.onEnter, b.onEnter), transitions |-> m]
    BY DEF MergeStates, MergedSteps, m
  <2>4. (a.terminal \/ b.terminal) \in BOOLEAN
    OBVIOUS
  <2> QED BY <2>1, <2>2, <2>3, <2>4 DEF StateOK
<1>2. ASSUME NEW a, NEW b, NEW c, StateOK(a), StateOK(b), StateOK(c)
      PROVE  MergeStates(MergeStates(a, b), c) = MergeStates(a, MergeStates(b, c))
  <2>1. MergedSteps(MergedSteps(a.transitions, b.transitions), c.transitions)
          = MergedSteps(a.transitions, MergedSteps(b.transitions, c.transitions))
    BY <1>2, StepMapLaws DEF StateOK
  <2>2. MergeEntries(MergeEntries(a.onEnter, b.onEnter), c.onEnter)
          = MergeEntries(a.onEnter, MergeEntries(b.onEnter, c.onEnter))
    <3>1. \A d \in {a, b, c} : d.onEnter \in Sites \cup {None}
      BY <1>2 DEF StateOK
    <3>2. \A x, y, z \in Sites \cup {None} :
            MergeEntries(MergeEntries(x, y), z) = MergeEntries(x, MergeEntries(y, z))
      BY EntryLaws
    <3> QED BY <3>1, <3>2
  <2>3. ((a.terminal \/ b.terminal) \/ c.terminal) = (a.terminal \/ (b.terminal \/ c.terminal))
    OBVIOUS
  <2> QED BY <2>1, <2>2, <2>3 DEF MergeStates, MergedSteps
<1> QED BY <1>1, <1>2

\* The states of a workflow.
StatesOK(f) == IsFunction(f) /\ \A k \in DOMAIN f : StateOK(f[k])

\* The merge of two workflows' states.
MergedStates(a, b) == MergeMaps(a, b, MergeStates)

\* The states of a workflow, merged by name.
LEMMA StateMapLaws ==
  \A a, b, c : StatesOK(a) /\ StatesOK(b) /\ StatesOK(c) =>
    /\ StatesOK(MergedStates(a, b))
    /\ MergedStates(MergedStates(a, b), c) = MergedStates(a, MergedStates(b, c))
<1> SUFFICES ASSUME NEW a, NEW b, NEW c, StatesOK(a), StatesOK(b), StatesOK(c)
             PROVE  /\ StatesOK(MergedStates(a, b))
                    /\ MergedStates(MergedStates(a, b), c) = MergedStates(a, MergedStates(b, c))
  OBVIOUS
<1>0. /\ \A k \in DOMAIN a : StateOK(a[k])
      /\ \A k \in DOMAIN b : StateOK(b[k])
      /\ \A k \in DOMAIN c : StateOK(c[k])
  BY DEF StatesOK
<1> DEFINE D == DOMAIN a \cup DOMAIN b
           E == DOMAIN b \cup DOMAIN c
           M == [k \in D |-> IF k \notin DOMAIN a THEN b[k]
                             ELSE IF k \notin DOMAIN b THEN a[k] ELSE MergeStates(a[k], b[k])]
           N == [k \in E |-> IF k \notin DOMAIN b THEN c[k]
                             ELSE IF k \notin DOMAIN c THEN b[k] ELSE MergeStates(b[k], c[k])]
<1>1. MergedStates(a, b) = M /\ MergedStates(b, c) = N
  BY DEF MergedStates, MergeMaps
<1>2. /\ \A x, y : StateOK(x) /\ StateOK(y) => StateOK(MergeStates(x, y))
      /\ \A x, y, z : StateOK(x) /\ StateOK(y) /\ StateOK(z) =>
           MergeStates(MergeStates(x, y), z) = MergeStates(x, MergeStates(y, z))
  BY StateLaws
<1>3. DOMAIN M = D /\ DOMAIN N = E /\ IsFunction(M)
  BY DEF IsFunction
<1>4. \A k \in D : StateOK(M[k])
  BY <1>0, <1>2
<1>5. MergedStates(M, c) = MergedStates(a, N)
  <2> DEFINE F == DOMAIN a \cup DOMAIN b \cup DOMAIN c
             P(k) == IF k \notin DOMAIN M THEN c[k]
                     ELSE IF k \notin DOMAIN c THEN M[k] ELSE MergeStates(M[k], c[k])
             Q(k) == IF k \notin DOMAIN a THEN N[k]
                     ELSE IF k \notin DOMAIN N THEN a[k] ELSE MergeStates(a[k], N[k])
  <2>1. MergedStates(M, c) = [k \in F |-> P(k)]
    BY <1>3 DEF MergedStates, MergeMaps
  <2>2. MergedStates(a, N) = [k \in F |-> Q(k)]
    BY <1>3 DEF MergedStates, MergeMaps
  <2>3. ASSUME NEW k \in F PROVE P(k) = Q(k)
    <3>1. /\ k \in D => M[k] = IF k \notin DOMAIN a THEN b[k]
                                ELSE IF k \notin DOMAIN b THEN a[k] ELSE MergeStates(a[k], b[k])
          /\ k \in E => N[k] = IF k \notin DOMAIN b THEN c[k]
                                ELSE IF k \notin DOMAIN c THEN b[k] ELSE MergeStates(b[k], c[k])
      OBVIOUS
    <3> HIDE DEF M, N
    <3>2. CASE k \in DOMAIN a /\ k \in DOMAIN b /\ k \in DOMAIN c
      <4>1. MergeStates(MergeStates(a[k], b[k]), c[k]) = MergeStates(a[k], MergeStates(b[k], c[k]))
        BY <1>0, <1>2, <3>2
      <4> QED BY <1>3, <3>1, <3>2, <4>1
    <3>3. CASE ~(k \in DOMAIN a /\ k \in DOMAIN b /\ k \in DOMAIN c)
      BY <1>3, <3>1, <3>3
    <3> QED BY <3>2, <3>3
  <2> HIDE DEF P, Q, F
  <2> QED BY <2>1, <2>2, <2>3
<1> HIDE DEF M, N
<1> QED BY <1>1, <1>3, <1>4, <1>5 DEF StatesOK

\* What a capability wraps is overridden, its site merges.
LEMMA CapLaws ==
  /\ \A a, b : IsCapability(a) /\ IsCapability(b) => IsCapability(MergeCaps(a, b))
  /\ \A a, b, c : IsCapability(a) /\ IsCapability(b) /\ IsCapability(c) =>
       MergeCaps(MergeCaps(a, b), c) = MergeCaps(a, MergeCaps(b, c))
<1>1. ASSUME NEW a, NEW b, IsCapability(a), IsCapability(b) PROVE IsCapability(MergeCaps(a, b))
  <2>1. MergeSites(a.site, b.site) \in Sites
    BY <1>1, SiteLaws DEF IsCapability
  <2> QED BY <1>1, <2>1 DEF IsCapability, MergeCaps, Later
<1>2. ASSUME NEW a, NEW b, NEW c, IsCapability(a), IsCapability(b), IsCapability(c)
      PROVE  MergeCaps(MergeCaps(a, b), c) = MergeCaps(a, MergeCaps(b, c))
  <2>1. MergeSites(MergeSites(a.site, b.site), c.site)
          = MergeSites(a.site, MergeSites(b.site, c.site))
    BY <1>2, SiteLaws DEF IsCapability
  <2>2. Later(Later(a.wraps, b.wraps), c.wraps) = Later(a.wraps, Later(b.wraps, c.wraps))
    BY LaterLaws
  <2> QED BY <2>1, <2>2 DEF MergeCaps
<1> QED BY <1>1, <1>2

\* The capabilities of a configuration.
CapsOK(f) == IsFunction(f) /\ \A k \in DOMAIN f : IsCapability(f[k])

\* The merge of two configurations' capabilities.
MergedCaps(a, b) == MergeMaps(a, b, MergeCaps)

\* The capabilities of a configuration, merged by name.
LEMMA CapMapLaws ==
  \A a, b, c : CapsOK(a) /\ CapsOK(b) /\ CapsOK(c) =>
    /\ CapsOK(MergedCaps(a, b))
    /\ MergedCaps(MergedCaps(a, b), c) = MergedCaps(a, MergedCaps(b, c))
<1> SUFFICES ASSUME NEW a, NEW b, NEW c, CapsOK(a), CapsOK(b), CapsOK(c)
             PROVE  /\ CapsOK(MergedCaps(a, b))
                    /\ MergedCaps(MergedCaps(a, b), c) = MergedCaps(a, MergedCaps(b, c))
  OBVIOUS
<1>0. /\ \A k \in DOMAIN a : IsCapability(a[k])
      /\ \A k \in DOMAIN b : IsCapability(b[k])
      /\ \A k \in DOMAIN c : IsCapability(c[k])
  BY DEF CapsOK
<1> DEFINE D == DOMAIN a \cup DOMAIN b
           E == DOMAIN b \cup DOMAIN c
           M == [k \in D |-> IF k \notin DOMAIN a THEN b[k]
                             ELSE IF k \notin DOMAIN b THEN a[k] ELSE MergeCaps(a[k], b[k])]
           N == [k \in E |-> IF k \notin DOMAIN b THEN c[k]
                             ELSE IF k \notin DOMAIN c THEN b[k] ELSE MergeCaps(b[k], c[k])]
<1>1. MergedCaps(a, b) = M /\ MergedCaps(b, c) = N
  BY DEF MergedCaps, MergeMaps
<1>2. /\ \A x, y : IsCapability(x) /\ IsCapability(y) => IsCapability(MergeCaps(x, y))
      /\ \A x, y, z : IsCapability(x) /\ IsCapability(y) /\ IsCapability(z) =>
           MergeCaps(MergeCaps(x, y), z) = MergeCaps(x, MergeCaps(y, z))
  BY CapLaws
<1>3. DOMAIN M = D /\ DOMAIN N = E /\ IsFunction(M)
  BY DEF IsFunction
<1>4. \A k \in D : IsCapability(M[k])
  BY <1>0, <1>2
<1>5. MergedCaps(M, c) = MergedCaps(a, N)
  <2> DEFINE F == DOMAIN a \cup DOMAIN b \cup DOMAIN c
             P(k) == IF k \notin DOMAIN M THEN c[k]
                     ELSE IF k \notin DOMAIN c THEN M[k] ELSE MergeCaps(M[k], c[k])
             Q(k) == IF k \notin DOMAIN a THEN N[k]
                     ELSE IF k \notin DOMAIN N THEN a[k] ELSE MergeCaps(a[k], N[k])
  <2>1. MergedCaps(M, c) = [k \in F |-> P(k)]
    BY <1>3 DEF MergedCaps, MergeMaps
  <2>2. MergedCaps(a, N) = [k \in F |-> Q(k)]
    BY <1>3 DEF MergedCaps, MergeMaps
  <2>3. ASSUME NEW k \in F PROVE P(k) = Q(k)
    <3>1. /\ k \in D => M[k] = IF k \notin DOMAIN a THEN b[k]
                                ELSE IF k \notin DOMAIN b THEN a[k] ELSE MergeCaps(a[k], b[k])
          /\ k \in E => N[k] = IF k \notin DOMAIN b THEN c[k]
                                ELSE IF k \notin DOMAIN c THEN b[k] ELSE MergeCaps(b[k], c[k])
      OBVIOUS
    <3> HIDE DEF M, N
    <3>2. CASE k \in DOMAIN a /\ k \in DOMAIN b /\ k \in DOMAIN c
      <4>1. MergeCaps(MergeCaps(a[k], b[k]), c[k]) = MergeCaps(a[k], MergeCaps(b[k], c[k]))
        BY <1>0, <1>2, <3>2
      <4> QED BY <1>3, <3>1, <3>2, <4>1
    <3>3. CASE ~(k \in DOMAIN a /\ k \in DOMAIN b /\ k \in DOMAIN c)
      BY <1>3, <3>1, <3>3
    <3> QED BY <3>2, <3>3
  <2> HIDE DEF P, Q, F
  <2> QED BY <2>1, <2>2, <2>3
<1> HIDE DEF M, N
<1> QED BY <1>1, <1>3, <1>4, <1>5 DEF CapsOK

\* A definition and a body, by what their parts merge as.
LEMMA DefinitionForm ==
  \A w : IsDefinition(w) <=>
    /\ w = [initialState |-> w.initialState, onTimeout |-> w.onTimeout,
            timeoutMs |-> w.timeoutMs, states |-> w.states]
    /\ w.initialState \in Places \cup {None} /\ w.onTimeout \in Places \cup {None}
    /\ w.timeoutMs \in BOOLEAN
    /\ DOMAIN w.states \subseteq Places /\ StatesOK(w.states)
<1> SUFFICES ASSUME NEW w
             PROVE  IsDefinition(w) <=>
                      /\ w = [initialState |-> w.initialState, onTimeout |-> w.onTimeout,
                              timeoutMs |-> w.timeoutMs, states |-> w.states]
                      /\ w.initialState \in Places \cup {None}
                      /\ w.onTimeout \in Places \cup {None}
                      /\ w.timeoutMs \in BOOLEAN
                      /\ DOMAIN w.states \subseteq Places /\ StatesOK(w.states)
  OBVIOUS
<1>1. ASSUME NEW s \in DOMAIN w.states
      PROVE  LET d == w.states[s]
             IN  StateOK(d) <=>
                   /\ IsState(d)
                   /\ d = [terminal |-> d.terminal, onEnter |-> d.onEnter,
                           transitions |-> d.transitions]
                   /\ d.onEnter \in Sites \cup {None} /\ IsFunction(d.transitions)
                   /\ \A n \in DOMAIN d.transitions :
                        LET t == d.transitions[n]
                        IN  t = [target |-> t.target, branches |-> t.branches, site |-> t.site]
                            /\ t.site \in Sites
  <2> PICK d : d = w.states[s]
    OBVIOUS
  <2>1. StepsOK(d.transitions) <=>
          /\ IsFunction(d.transitions)
          /\ \A n \in DOMAIN d.transitions : IsTransition(d.transitions[n])
          /\ \A n \in DOMAIN d.transitions :
               LET t == d.transitions[n]
               IN  t = [target |-> t.target, branches |-> t.branches, site |-> t.site]
                   /\ t.site \in Sites
    BY DEF StepsOK, StepOK
  <2> QED BY <2>1 DEF StateOK, IsState
<1>2. IsDefinition(w) <=>
        /\ w = [initialState |-> w.initialState, onTimeout |-> w.onTimeout,
                timeoutMs |-> w.timeoutMs, states |-> w.states]
        /\ w.initialState \in Places \cup {None} /\ w.onTimeout \in Places \cup {None}
        /\ w.timeoutMs \in BOOLEAN
        /\ DOMAIN w.states \subseteq Places /\ IsFunction(w.states)
        /\ \A s \in DOMAIN w.states : StateOK(w.states[s])
  BY <1>1 DEF IsDefinition, IsWorkflow
<1> QED BY <1>2 DEF StatesOK

\* Workflows merge field by field.
LEMMA WorkflowLaws ==
  /\ \A a, b : IsDefinition(a) /\ IsDefinition(b) => IsDefinition(MergeWorkflows(a, b))
  /\ \A a, b, c : IsDefinition(a) /\ IsDefinition(b) /\ IsDefinition(c) =>
       MergeWorkflows(MergeWorkflows(a, b), c) = MergeWorkflows(a, MergeWorkflows(b, c))
<1>1. ASSUME NEW a, NEW b, IsDefinition(a), IsDefinition(b)
      PROVE  IsDefinition(MergeWorkflows(a, b))
  <2> DEFINE m == MergedStates(a.states, b.states)
             w == MergeWorkflows(a, b)
  <2>1. StatesOK(m)
    BY <1>1, DefinitionForm, StateMapLaws
  <2>2. DOMAIN m = DOMAIN a.states \cup DOMAIN b.states
    BY DEF MergedStates, MergeMaps
  <2>3. DOMAIN m \subseteq Places
    BY <1>1, <2>2, DefinitionForm
  <2>4. w = [initialState |-> Later(a.initialState, b.initialState),
             onTimeout |-> Later(a.onTimeout, b.onTimeout),
             timeoutMs |-> a.timeoutMs \/ b.timeoutMs, states |-> m]
    BY DEF MergeWorkflows, MergedStates
  <2> HIDE DEF m, w
  <2>5. /\ Later(a.initialState, b.initialState) \in Places \cup {None}
        /\ Later(a.onTimeout, b.onTimeout) \in Places \cup {None}
        /\ (a.timeoutMs \/ b.timeoutMs) \in BOOLEAN
    BY <1>1, DefinitionForm DEF Later
  <2>6. IsDefinition(w)
    BY <2>1, <2>3, <2>4, <2>5, DefinitionForm
  <2> QED BY <2>6 DEF w
<1>2. ASSUME NEW a, NEW b, NEW c, IsDefinition(a), IsDefinition(b), IsDefinition(c)
      PROVE  MergeWorkflows(MergeWorkflows(a, b), c) = MergeWorkflows(a, MergeWorkflows(b, c))
  <2>1. MergedStates(MergedStates(a.states, b.states), c.states)
          = MergedStates(a.states, MergedStates(b.states, c.states))
    BY <1>2, DefinitionForm, StateMapLaws
  <2>2. /\ Later(Later(a.initialState, b.initialState), c.initialState)
             = Later(a.initialState, Later(b.initialState, c.initialState))
        /\ Later(Later(a.onTimeout, b.onTimeout), c.onTimeout)
             = Later(a.onTimeout, Later(b.onTimeout, c.onTimeout))
    BY LaterLaws
  <2>3. ((a.timeoutMs \/ b.timeoutMs) \/ c.timeoutMs)
          = (a.timeoutMs \/ (b.timeoutMs \/ c.timeoutMs))
    OBVIOUS
  <2> QED BY <2>1, <2>2, <2>3 DEF MergeWorkflows, MergedStates
<1> QED BY <1>1, <1>2

\* A body, in terms of its parts.
LEMMA BodyForm ==
  \A b : IsBody(b) <=>
    /\ b = [caps |-> b.caps, expose |-> b.expose, workflow |-> b.workflow]
    /\ DOMAIN b.caps \subseteq Caps /\ CapsOK(b.caps)
    /\ IsSequence(b.expose) /\ \A e \in ToSet(b.expose) : IsExposure(e)
    /\ IsDefinition(b.workflow)
BY DEF IsBody, CapsOK

\* Merged configurations are configurations; merging is associative, and an empty
\* file adds nothing: what a walk over nested files merges depends on their order
\* alone (deep_merge).
LEMMA MergeTyped == \A a, b : IsBody(a) /\ IsBody(b) => IsBody(deep_merge(a, b))
<1> SUFFICES ASSUME NEW a, NEW b, IsBody(a), IsBody(b) PROVE IsBody(deep_merge(a, b))
  OBVIOUS
<1> DEFINE m == MergedCaps(a.caps, b.caps)
           w == MergeWorkflows(a.workflow, b.workflow)
           e == a.expose \o b.expose
           d == deep_merge(a, b)
<1>1. CapsOK(m)
  BY BodyForm, CapMapLaws
<1>2. DOMAIN m = DOMAIN a.caps \cup DOMAIN b.caps
  BY DEF MergedCaps, MergeMaps
<1>3. DOMAIN m \subseteq Caps
  BY <1>2, BodyForm
<1>4. IsDefinition(w)
  BY BodyForm, WorkflowLaws
<1>5. IsSequence(e) /\ \A x \in ToSet(e) : IsExposure(x)
  BY BodyForm, ConcatLaws
<1>6. d = [caps |-> m, expose |-> e, workflow |-> w]
  BY DEF deep_merge, MergedCaps
<1> HIDE DEF m, w, e, d
<1>7. IsBody(d)
  BY <1>1, <1>3, <1>4, <1>5, <1>6, BodyForm
<1> QED BY <1>7 DEF d

\* deep_merge is associative.
LEMMA MergeAssociates ==
  \A a, b, c : IsBody(a) /\ IsBody(b) /\ IsBody(c) =>
    deep_merge(deep_merge(a, b), c) = deep_merge(a, deep_merge(b, c))
<1> SUFFICES ASSUME NEW a, NEW b, NEW c, IsBody(a), IsBody(b), IsBody(c)
             PROVE  deep_merge(deep_merge(a, b), c) = deep_merge(a, deep_merge(b, c))
  OBVIOUS
<1>1. MergedCaps(MergedCaps(a.caps, b.caps), c.caps) = MergedCaps(a.caps, MergedCaps(b.caps, c.caps))
  BY BodyForm, CapMapLaws
<1>2. (a.expose \o b.expose) \o c.expose = a.expose \o (b.expose \o c.expose)
  <2> DEFINE S == ToSet(a.expose) \cup ToSet(b.expose) \cup ToSet(c.expose)
  <2>1. IsSequence(a.expose) /\ IsSequence(b.expose) /\ IsSequence(c.expose)
    BY BodyForm
  <2>2. a.expose \in Seq(S) /\ b.expose \in Seq(S) /\ c.expose \in Seq(S)
    BY <2>1 DEF IsSequence
  <2> HIDE DEF S
  <2>3. ASSUME NEW x \in Seq(S), NEW y \in Seq(S), NEW z \in Seq(S),
               x = a.expose, y = b.expose, z = c.expose
        PROVE  (a.expose \o b.expose) \o c.expose = a.expose \o (b.expose \o c.expose)
    <3>1. (x \o y) \o z = x \o (y \o z)
      OBVIOUS
    <3> QED BY <2>3, <3>1, Zenon
  <2> QED BY <2>2, <2>3
<1>3. MergeWorkflows(MergeWorkflows(a.workflow, b.workflow), c.workflow)
        = MergeWorkflows(a.workflow, MergeWorkflows(b.workflow, c.workflow))
  BY BodyForm, WorkflowLaws
<1> QED BY <1>1, <1>2, <1>3 DEF deep_merge, MergedCaps

\* An empty map adds nothing to another.
LEMMA EmptyMaps ==
  ASSUME NEW f, IsFunction(f), NEW n, DOMAIN n = {}
  PROVE  /\ MergedCaps(f, n) = f /\ MergedStates(f, n) = f
         /\ IsFunction(n) => MergedCaps(n, f) = f /\ MergedStates(n, f) = f
BY DEF MergedCaps, MergedStates, MergeMaps, IsFunction

\* Nor does an empty document.
LEMMA MergeUnit ==
  \A a : IsBody(a) => deep_merge(a, NoBody) = a /\ deep_merge(NoBody, a) = a
<1> SUFFICES ASSUME NEW a, IsBody(a) PROVE deep_merge(a, NoBody) = a /\ deep_merge(NoBody, a) = a
  OBVIOUS
<1>1. /\ DOMAIN NoBody.caps = {} /\ IsFunction(NoBody.caps)
      /\ DOMAIN NoBody.workflow.states = {} /\ IsFunction(NoBody.workflow.states)
      /\ NoBody.expose = <<>> /\ NoBody.workflow.initialState = None
      /\ NoBody.workflow.onTimeout = None /\ NoBody.workflow.timeoutMs = FALSE
  BY DEF NoBody, NoWorkflow, IsFunction
<1>2. IsFunction(a.caps) /\ IsFunction(a.workflow.states)
  BY DEF IsBody, IsDefinition
<1>3. MergedCaps(a.caps, NoBody.caps) = a.caps /\ MergedCaps(NoBody.caps, a.caps) = a.caps
  BY <1>1, <1>2, EmptyMaps
<1>4. /\ MergedStates(a.workflow.states, NoBody.workflow.states) = a.workflow.states
      /\ MergedStates(NoBody.workflow.states, a.workflow.states) = a.workflow.states
  BY <1>1, <1>2, EmptyMaps
<1>5. a.expose \o NoBody.expose = a.expose /\ NoBody.expose \o a.expose = a.expose
  BY <1>1, ConcatLaws DEF IsBody
<1>6. /\ MergeWorkflows(a.workflow, NoBody.workflow) = a.workflow
      /\ MergeWorkflows(NoBody.workflow, a.workflow) = a.workflow
  <2>1. /\ a.workflow = [initialState |-> a.workflow.initialState,
                         onTimeout |-> a.workflow.onTimeout,
                         timeoutMs |-> a.workflow.timeoutMs, states |-> a.workflow.states]
        /\ a.workflow.timeoutMs \in BOOLEAN
    BY DEF IsBody, IsDefinition, IsWorkflow
  <2>2. (a.workflow.timeoutMs \/ FALSE) = a.workflow.timeoutMs
        /\ (FALSE \/ a.workflow.timeoutMs) = a.workflow.timeoutMs
    BY <2>1
  <2>3. \A x : Later(x, None) = x /\ Later(None, x) = x
    BY LaterLaws
  <2> HIDE DEF NoBody
  <2> QED BY <1>1, <1>4, <2>1, <2>2, <2>3 DEF MergeWorkflows, MergedStates
<1>7. a = [caps |-> a.caps, expose |-> a.expose, workflow |-> a.workflow]
  BY DEF IsBody
<1> QED BY <1>3, <1>5, <1>6, <1>7 DEF deep_merge, MergedCaps

\* The empty document is a document.
LEMMA NoBodyTyped == IsBody(NoBody)
<1>1. IsSequence(<<>>) /\ ToSet(<<>>) = {}
  BY DEF IsSequence, ToSet
<1> QED BY <1>1 DEF NoBody, NoWorkflow, IsBody, IsDefinition, IsWorkflow, IsFunction

-----------------------------------------------------------------------------
\* A set of natural numbers has a least element.
LEMMA LeastElement ==
  ASSUME NEW T \in SUBSET Nat, T # {}
  PROVE  \E m \in T : \A k \in T : m <= k
<1> DEFINE Fam == {0..k : k \in T}
           R == StrictSubsetOrdering(Nat)
           D == FiniteSubsetsOf(Nat)
<1>1. IsWellFoundedOn(R, D)
  BY FS_StrictSubsetOrderingWellFounded
<1>2. Fam \subseteq D
  <2> SUFFICES ASSUME NEW k \in T PROVE 0..k \in D
    OBVIOUS
  <2>1. 0..k \subseteq Nat /\ IsFiniteSet(0..k)
    <3>1. 0 \in Int /\ k \in Int
      OBVIOUS
    <3>2. IsFiniteSet(0..k)
      BY <3>1, FS_Interval
    <3> QED BY <3>2
  <2> QED BY <2>1 DEF FiniteSubsetsOf
<1>3. Fam # {}
  OBVIOUS
<1>4. \E x \in Fam : \A y \in Fam : ~ (<<y, x>> \in R)
  <2> HIDE DEF R, D, Fam
  <2> QED BY <1>1, <1>2, <1>3, WFMin
<1>5. PICK m \in T : \A k \in T : ~(<<0..k, 0..m>> \in R)
  BY <1>4
<1>6. ASSUME NEW k \in T, ~(m <= k) PROVE FALSE
  <2>1. 0..k \subseteq 0..m /\ m \in 0..m /\ m \notin 0..k /\ 0..m \in SUBSET Nat /\ 0..k \in SUBSET Nat
    BY <1>6
  <2>2. 0..k # 0..m
    BY <2>1
  <2>3. <<0..k, 0..m>> \in R
    BY <2>1, <2>2 DEF StrictSubsetOrdering
  <2> QED BY <2>3, <1>5
<1> QED BY <1>6

\* Induction, for the members of a set.
LEMMA Induct ==
  ASSUME NEW S, 0 \in S, \A n \in Nat : n \in S => n + 1 \in S
  PROVE  Nat \subseteq S
<1> SUFFICES ASSUME NEW T, T = Nat \ S, T # {} PROVE FALSE
  OBVIOUS
<1>1. PICK m \in T : \A k \in T : m <= k
  BY LeastElement
<1>2. m \in Nat /\ m # 0
  BY <1>1
<1>3. m - 1 \in Nat /\ ~(m <= m - 1)
  BY <1>2
<1>4. m - 1 \in S
  BY <1>1, <1>3
<1>5. m - 1 + 1 \in S
  BY <1>3, <1>4
<1> QED BY <1>1, <1>5

\* One turn of the fold of q: what the set s of indices comes to, given smaller sets.
Turn(q, b, g, s) == IF s = {} THEN b ELSE deep_merge(g[s \ {Max(s)}], q[Max(s)])

\* FoldLeft, with its function named.
LEMMA FoldShape ==
  ASSUME NEW b, NEW q
  PROVE FoldLeft(deep_merge, b, q) = 
     (CHOOSE g : g = [s \in SUBSET DOMAIN q |-> Turn(q, b, g, s)])[DOMAIN q]
BY DEF FoldLeft, MapThenFoldSet, Turn

\* g folds the first n elements of q, from b.
IsFold(q, b, n, g) == g = [s \in SUBSET (1..n) |-> Turn(q, b, g, s)]

\* The last index is the greatest.
LEMMA MaxOfPrefix ==
  ASSUME NEW n \in Nat, NEW s \in SUBSET (1..n + 1), n + 1 \in s
  PROVE  Max(s) = n + 1
<1>1. \A y \in s : n + 1 >= y
  OBVIOUS
<1>2. \A x \in s : (\A y \in s : x >= y) => x = n + 1
  <2> SUFFICES ASSUME NEW x \in s, x >= n + 1 PROVE x = n + 1
    OBVIOUS
  <2>1. x \in 1..n+1
    OBVIOUS
  <2> QED BY <2>1
<1> QED BY <1>1, <1>2 DEF Max

\* A sequence has a fold.
LEMMA FoldExists ==
  ASSUME NEW b, NEW q
  PROVE  \A n \in Nat : \E g : IsFold(q, b, n, g)
<1> DEFINE S == {n \in Nat : \E g : IsFold(q, b, n, g)}
<1>1. 0 \in S
  <2>1. IsFold(q, b, 0, [s \in SUBSET (1..0) |-> b])
    <3>1. 1..0 = {}
      OBVIOUS
    <3> QED BY <3>1 DEF IsFold, Turn
  <2> QED BY <2>1
<1>2. ASSUME NEW n \in Nat, n \in S PROVE n + 1 \in S
  <2>1. PICK g : IsFold(q, b, n, g)
    BY <1>2
  <2> DEFINE h == [s \in SUBSET (1..n + 1) |->
                     IF n + 1 \in s THEN deep_merge(g[s \ {n + 1}], q[n + 1]) ELSE g[s]]
  <2>2. ASSUME NEW s \in SUBSET (1..n + 1) PROVE h[s] = Turn(q, b, h, s)
    <3>1. CASE n + 1 \in s
      <4>1. Max(s) = n + 1
        BY <3>1, MaxOfPrefix
      <4>2. s \ {n + 1} \in SUBSET (1..n + 1) /\ n + 1 \notin s \ {n + 1}
        OBVIOUS
      <4>3. h[s \ {n + 1}] = g[s \ {n + 1}]
        BY <4>2
      <4> QED BY <3>1, <4>1, <4>3 DEF Turn
    <3>2. CASE n + 1 \notin s
      <4>1. s \in SUBSET (1..n)
        BY <3>2
      <4>2. h[s] = g[s]
        BY <3>2
      <4>3. g[s] = Turn(q, b, g, s)
        BY <2>1, <4>1 DEF IsFold
      <4>4. s \ {Max(s)} \in SUBSET (1..n + 1) /\ n + 1 \notin s \ {Max(s)}
        BY <3>2
      <4>5. h[s \ {Max(s)}] = g[s \ {Max(s)}]
        BY <4>4
      <4> QED BY <4>2, <4>3, <4>5 DEF Turn
    <3> QED BY <3>1, <3>2
  <2>3. IsFold(q, b, n + 1, h)
    <3> HIDE DEF h
    <3>1. h = [s \in SUBSET (1..n + 1) |-> h[s]]
      BY DEF h
    <3> QED BY <3>1, <2>2 DEF IsFold
  <2> QED BY <2>3
<1> QED
  <2> HIDE DEF S
  <2>1. Nat \subseteq S
    BY <1>1, <1>2, Induct
  <2> QED BY <2>1 DEF S

\* The folds of two sequences agree as long as the sequences do.
LEMMA FoldsAgree ==
  ASSUME NEW b, NEW q, NEW r, NEW m \in Nat, NEW n \in Nat, NEW g, NEW h,
         IsFold(q, b, m, g), IsFold(r, b, n, h)
  PROVE  \A k \in Nat : k <= m /\ k <= n /\ (\A i \in 1..k : q[i] = r[i]) =>
                           g[1..k] = h[1..k]
<1> DEFINE Same(k) == k <= m /\ k <= n /\ (\A i \in 1..k : q[i] = r[i]) => g[1..k] = h[1..k]
           S == {k \in Nat : Same(k)}
<1>1. 0 \in S
  <2>1. 1..0 = {}
    OBVIOUS
  <2>2. {} \in SUBSET (1..m) /\ {} \in SUBSET (1..n)
    OBVIOUS
  <2>3. g[{}] = b /\ h[{}] = b
    BY <2>2 DEF IsFold, Turn
  <2> QED BY <2>1, <2>3
<1>2. ASSUME NEW k \in Nat, k \in S PROVE k + 1 \in S
  <2> SUFFICES ASSUME k + 1 <= m, k + 1 <= n, \A i \in 1..k + 1 : q[i] = r[i]
               PROVE  g[1..k + 1] = h[1..k + 1]
    OBVIOUS
  <2>1. g[1..k] = h[1..k]
    BY <1>2
  <2>2. /\ 1..k + 1 \in SUBSET (1..m) /\ 1..k + 1 \in SUBSET (1..n)
        /\ (1..k + 1) \ {k + 1} = 1..k /\ 1..k + 1 # {} /\ k + 1 \in 1..k + 1
    OBVIOUS
  <2>3. Max(1..k + 1) = k + 1
    BY <2>2, MaxOfPrefix
  <2>4. g[1..k + 1] = deep_merge(g[1..k], q[k + 1])
    <3>1. g[1..k + 1] = Turn(q, b, g, 1..k + 1)
      BY <2>2 DEF IsFold
    <3> QED BY <3>1, <2>2, <2>3 DEF Turn
  <2>5. h[1..k + 1] = deep_merge(h[1..k], r[k + 1])
    <3>1. h[1..k + 1] = Turn(r, b, h, 1..k + 1)
      BY <2>2 DEF IsFold
    <3> QED BY <3>1, <2>2, <2>3 DEF Turn
  <2> QED BY <2>1, <2>2, <2>4, <2>5
<1> QED
  <2> HIDE DEF S
  <2>1. Nat \subseteq S
    BY <1>1, <1>2, Induct
  <2> QED BY <2>1 DEF S

\* FoldLeft is a fold.
LEMMA FoldOf ==
  ASSUME NEW b, NEW q, NEW n \in Nat, DOMAIN q = 1..n
  PROVE  \E g : IsFold(q, b, n, g) /\ FoldLeft(deep_merge, b, q) = g[1..n]
<1>1. \E g : IsFold(q, b, n, g)
  BY FoldExists
<1> DEFINE c == CHOOSE g : g = [s \in SUBSET DOMAIN q |-> Turn(q, b, g, s)]
<1>2. IsFold(q, b, n, c)
  BY <1>1 DEF IsFold
<1> QED BY <1>2, FoldShape


\* The merge of a sequence of documents.
MergeAll(q) == FoldLeft(deep_merge, NoBody, q)

\* No documents come to the empty one.
LEMMA MergeNothing == \A q : DOMAIN q = {} => MergeAll(q) = NoBody
<1> SUFFICES ASSUME NEW q, DOMAIN q = {} PROVE MergeAll(q) = NoBody
  OBVIOUS
<1>1. DOMAIN q = 1..0
  OBVIOUS
<1>2. PICK g : IsFold(q, NoBody, 0, g) /\ MergeAll(q) = g[1..0]
  BY <1>1, FoldOf DEF MergeAll
<1>3. 1..0 = {} /\ {} \in SUBSET (1..0)
  OBVIOUS
<1> QED BY <1>2, <1>3 DEF IsFold, Turn

\* One more document is merged on top.
LEMMA MergeMore ==
  \A n \in Nat : \A q, r :
    DOMAIN q = 1..n /\ DOMAIN r = 1..n + 1 /\ (\A i \in 1..n : q[i] = r[i]) =>
      MergeAll(r) = deep_merge(MergeAll(q), r[n + 1])
<1> SUFFICES ASSUME NEW n \in Nat, NEW q, NEW r, DOMAIN q = 1..n, DOMAIN r = 1..n + 1,
                    \A i \in 1..n : q[i] = r[i]
             PROVE  MergeAll(r) = deep_merge(MergeAll(q), r[n + 1])
  OBVIOUS
<1>0. PICK m \in Nat : m = n + 1
  OBVIOUS
<1>1. PICK g : IsFold(q, NoBody, n, g) /\ MergeAll(q) = g[1..n]
  BY FoldOf DEF MergeAll
<1>2. PICK h : IsFold(r, NoBody, m, h) /\ MergeAll(r) = h[1..m]
  BY <1>0, FoldOf DEF MergeAll
<1>3. g[1..n] = h[1..n]
  <2>1. \A k \in Nat : k <= n /\ k <= m /\ (\A i \in 1..k : q[i] = r[i]) => g[1..k] = h[1..k]
    BY <1>1, <1>2, FoldsAgree
  <2>2. n <= n /\ n <= m
    BY <1>0
  <2> QED BY <2>1, <2>2
<1>4. /\ (1..m) \ {m} = 1..n /\ 1..m # {} /\ m \in 1..m /\ 1..m \in SUBSET (1..m)
  BY <1>0
<1>5. Max(1..m) = m
  BY <1>0, <1>4, MaxOfPrefix
<1>6. h[1..m] = deep_merge(h[1..n], r[m])
  <2>1. h[1..m] = Turn(r, NoBody, h, 1..m)
    BY <1>2, <1>4 DEF IsFold
  <2> QED BY <2>1, <1>4, <1>5 DEF Turn
<1> QED BY <1>0, <1>1, <1>2, <1>3, <1>6

\* Documents come to a document.
LEMMA MergeAllTyped ==
  \A n \in Nat : \A q : DOMAIN q = 1..n /\ (\A i \in 1..n : IsBody(q[i])) =>
    IsBody(MergeAll(q))
<1> DEFINE Good(n) == \A q : DOMAIN q = 1..n /\ (\A i \in 1..n : IsBody(q[i])) =>
                        IsBody(MergeAll(q))
           S == {n \in Nat : Good(n)}
<1>1. 0 \in S
  <2> SUFFICES ASSUME NEW q, DOMAIN q = 1..0 PROVE IsBody(MergeAll(q))
    OBVIOUS
  <2>1. DOMAIN q = {}
    OBVIOUS
  <2> QED BY <2>1, MergeNothing, NoBodyTyped
<1>2. ASSUME NEW n \in Nat, n \in S PROVE n + 1 \in S
  <2> SUFFICES ASSUME NEW r, DOMAIN r = 1..n + 1, \A i \in 1..n + 1 : IsBody(r[i])
               PROVE  IsBody(MergeAll(r))
    OBVIOUS
  <2> DEFINE q == [i \in 1..n |-> r[i]]
  <2>1. DOMAIN q = 1..n /\ \A i \in 1..n : q[i] = r[i]
    OBVIOUS
  <2>2. IsBody(r[n + 1]) /\ \A i \in 1..n : IsBody(q[i])
    OBVIOUS
  <2> HIDE DEF q
  <2>3. IsBody(MergeAll(q))
    BY <1>2, <2>1, <2>2
  <2>4. MergeAll(r) = deep_merge(MergeAll(q), r[n + 1])
    BY <2>1, MergeMore
  <2> QED BY <2>2, <2>3, <2>4, MergeTyped
<1> QED
  <2> HIDE DEF S
  <2>1. Nat \subseteq S
    BY <1>1, <1>2, Induct
  <2> QED BY <2>1 DEF S

-----------------------------------------------------------------------------
\* A call of load_yaml_inner under way.
IsFrame(x) ==
  /\ x = [file |-> x.file, next |-> x.next, merged |-> x.merged]
  /\ x.file \in Files /\ x.next \in Nat \ {0} /\ IsBody(x.merged)

\* The bodies of a sequence of files.
Bodies(q) == [i \in DOMAIN q |-> disk[q[i]].body]

\* What the calls under way have merged.
Partials == [i \in DOMAIN stack |-> stack[i].merged]

\* The types of the loader's variables.
LoadTyped ==
  /\ disk \in Trees /\ order \in Seq(Files) /\ visited \subseteq Files
  /\ IsSequence(stack) /\ \A i \in DOMAIN stack : IsFrame(stack[i])

\* What the walk has visited is closed or open, and what is closed is complete: its
\* includes are closed before it.
Visited ==
  /\ IsInjective(order)
  /\ \A i, j \in DOMAIN stack : stack[i].file = stack[j].file => i = j
  /\ visited = ToSet(order) \cup {stack[i].file : i \in DOMAIN stack}
  /\ \A i \in DOMAIN stack : stack[i].file \notin ToSet(order)
  /\ visited \subseteq Reach(Root)

Completed ==
  /\ \A j \in DOMAIN order : ToSet(Includes(order[j])) \subseteq ToSet(order)
  /\ \A i, j \in DOMAIN order : order[i] \in ToSet(Includes(order[j])) => i < j

\* An open file has its includes closed up to the one that is open now.
Opened ==
  /\ \A i \in DOMAIN stack :
       /\ stack[i].next <= Len(Includes(stack[i].file)) + 1
       /\ \A j \in 1..stack[i].next - 1 : Includes(stack[i].file)[j] \in ToSet(order)
  /\ \A i \in DOMAIN stack : i + 1 \in DOMAIN stack =>
       /\ stack[i].next \in 1..Len(Includes(stack[i].file))
       /\ Includes(stack[i].file)[stack[i].next] = stack[i + 1].file
  /\ stack # <<>> => stack[1].file = Root

\* While the walk goes on, what the open files have merged so far comes, one after
\* the other, to the merge of all that is closed.
Merged ==
  /\ phase = "load" => MergeAll(Partials) = MergeAll(Bodies(order))
  /\ phase = "load" /\ stack = <<>> => order = <<>>
  /\ Loaded => Root \in ToSet(order) /\ merged = MergeAll(Bodies(order))
  /\ IsBody(merged)

\* The invariant of the walk over includes.
LoadInv == LoadTyped /\ Visited /\ Completed /\ Opened /\ Merged

\* What is on the disk are documents.
LEMMA TreeTyped ==
  ASSUME NEW tree \in Trees, NEW f \in Files
  PROVE  /\ IsBody(tree[f].body)
         /\ tree[f].include \in Seq(Files)
<1>1. IsBody(tree[f].body) /\ IsSequence(tree[f].include) /\ ToSet(tree[f].include) \subseteq Files
  BY TreesAssumption
<1>2. tree[f].include \in Seq(ToSet(tree[f].include))
  BY <1>1 DEF IsSequence
<1>3. tree[f].include \in Seq(Files)
  <2> PICK S : S = ToSet(tree[f].include)
    OBVIOUS
  <2>1. S \subseteq Files /\ tree[f].include \in Seq(S)
    BY <1>1, <1>2
  <2> QED BY <2>1
<1> QED BY <1>1, <1>3

\* The top of a stack of calls.
LEMMA TopOfStack ==
  ASSUME LoadTyped, stack # <<>>
  PROVE  /\ Len(stack) \in Nat \ {0} /\ DOMAIN stack = 1..Len(stack)
         /\ Len(stack) \in DOMAIN stack /\ Top = stack[Len(stack)] /\ IsFrame(Top)
         /\ Top.file \in Files /\ Includes(Top.file) \in Seq(Files)
<1>1. Len(stack) \in Nat \ {0} /\ DOMAIN stack = 1..Len(stack)
  BY DEF LoadTyped, IsSequence
<1>2. Len(stack) \in DOMAIN stack /\ Top = stack[Len(stack)]
  BY <1>1 DEF Top, Last
<1>3. IsFrame(Top)
  BY <1>2 DEF LoadTyped
<1>4. Includes(Top.file) \in Seq(Files)
  BY <1>3, TreeTyped DEF IsFrame, LoadTyped, Includes
<1> QED BY <1>1, <1>2, <1>3, <1>4 DEF IsFrame

\* What a file includes is reached when the file is.
LEMMA ReachIncludes ==
  ASSUME NEW f \in Reach(Root), NEW g \in ToSet(Includes(f)), g \in Files
  PROVE  g \in Reach(Root)
BY DEF Reach

\* The file of the command line is reached.
LEMMA RootReached == Root \in Files => Root \in Reach(Root)
BY DEF Reach

\* A file is opened.
LEMMA OpenKeeps ==
  ASSUME LoadInv, NEW f \in Files, OpenFile(f)
  PROVE  LoadInv'
<1> DEFINE n == Len(stack)
           x == [file |-> f, next |-> 1, merged |-> NoBody]
<1>1. /\ phase = "load" /\ f \notin visited /\ visited' = visited \cup {f}
      /\ stack' = Append(stack, x) /\ UNCHANGED <<disk, phase, merged, order>>
  BY DEF OpenFile, Opens
<1>2. n \in Nat /\ DOMAIN stack = 1..n /\ stack \in Seq(ToSet(stack))
  BY DEF LoadInv, LoadTyped, IsSequence
<1> HIDE DEF n
<1>3. /\ DOMAIN stack' = 1..n + 1 /\ stack'[n + 1] = x
      /\ \A i \in 1..n : stack'[i] = stack[i]
      /\ IsSequence(stack')
  <2>1. stack' \in Seq(ToSet(stack) \cup {x})
    BY <1>1, <1>2
  <2>2. /\ DOMAIN stack' = 1..n + 1 /\ stack'[n + 1] = x
        /\ \A i \in 1..n : stack'[i] = stack[i]
    BY <1>1, <1>2 DEF n
  <2>3. stack' \in [1..n + 1 -> ToSet(stack')]
    <3>1. stack' = [i \in 1..n + 1 |-> stack'[i]]
      BY <2>1, <2>2
    <3> QED BY <2>2, <3>1 DEF ToSet
  <2>4. stack' \in Seq(ToSet(stack'))
    BY <1>2, <2>3
  <2> QED BY <2>2, <2>4 DEF IsSequence
<1>4. /\ Reach(Root)' = Reach(Root) /\ \A g : Includes(g)' = Includes(g)
      /\ Bodies(order)' = Bodies(order)
  BY <1>1 DEF Reach, Includes, Bodies
<1>5. IsFrame(x)
  BY NoBodyTyped DEF IsFrame
<1>6. LoadTyped'
  BY <1>1, <1>2, <1>3, <1>5 DEF LoadInv, LoadTyped
<1>7. Visited'
  <2>1. f \in Reach(Root)
    <3>1. CASE stack = <<>>
      BY <1>1, <3>1, RootReached DEF OpenFile, Opens
    <3>2. CASE stack # <<>>
      <4>1. /\ Top = stack[n] /\ n \in DOMAIN stack /\ IsFrame(Top)
            /\ Includes(Top.file) \in Seq(Files)
        BY <3>2, TopOfStack DEF LoadInv, n
      <4>2. Top.next \in 1..Len(Includes(Top.file)) /\ f = Includes(Top.file)[Top.next]
        BY <3>2, <4>1 DEF OpenFile, Opens, IsFrame
      <4>3. f \in ToSet(Includes(Top.file))
        BY <4>1, <4>2 DEF ToSet
      <4>4. Top.file \in Reach(Root)
        BY <4>1 DEF LoadInv, Visited
      <4> QED BY <4>3, <4>4, ReachIncludes
    <3> QED BY <3>1, <3>2
  <2>2. \A i, j \in DOMAIN stack' : stack'[i].file = stack'[j].file => i = j
    BY <1>1, <1>2, <1>3 DEF LoadInv, Visited
  <2>3. visited' = ToSet(order) \cup {stack'[i].file : i \in DOMAIN stack'}
    <3>1. {stack'[i].file : i \in DOMAIN stack'} = {stack[i].file : i \in DOMAIN stack} \cup {f}
      BY <1>2, <1>3
    <3> QED BY <1>1, <3>1 DEF LoadInv, Visited
  <2>4. \A i \in DOMAIN stack' : stack'[i].file \notin ToSet(order)
    BY <1>1, <1>2, <1>3 DEF LoadInv, Visited
  <2> QED BY <1>1, <1>4, <2>1, <2>2, <2>3, <2>4 DEF LoadInv, Visited
<1>8. Completed'
  BY <1>1, <1>4 DEF LoadInv, Completed
<1>9. Opened'
  <2>1. \A i \in DOMAIN stack' :
          /\ stack'[i].next <= Len(Includes(stack'[i].file)) + 1
          /\ \A j \in 1..stack'[i].next - 1 : Includes(stack'[i].file)[j] \in ToSet(order)
    <3>1. Includes(f) \in Seq(Files)
      BY TreeTyped DEF LoadInv, LoadTyped, Includes
    <3> SUFFICES ASSUME NEW i \in 1..n + 1
                 PROVE  /\ stack'[i].next <= Len(Includes(stack'[i].file)) + 1
                        /\ \A j \in 1..stack'[i].next - 1 :
                             Includes(stack'[i].file)[j] \in ToSet(order)
      BY <1>3
    <3>2. CASE i = n + 1
      <4>1. stack'[i].next = 1 /\ stack'[i].file = f
        BY <1>3, <3>2
      <4>2. 1 <= Len(Includes(f)) + 1
        BY <3>1
      <4> QED BY <4>1, <4>2
    <3>3. CASE i # n + 1
      <4>1. i \in DOMAIN stack /\ stack'[i] = stack[i]
        BY <1>2, <1>3, <3>3
      <4> QED BY <4>1 DEF LoadInv, Opened
    <3> QED BY <3>2, <3>3
  <2>2. stack'[1].file = Root
    <3>1. CASE stack = <<>>
      BY <1>2, <1>3, <3>1 DEF OpenFile, Opens
    <3>2. CASE stack # <<>>
      BY <1>2, <1>3, <3>2 DEF LoadInv, Opened
    <3> QED BY <3>1, <3>2
  <2>3. ASSUME NEW i \in 1..n
        PROVE  /\ stack'[i].next \in 1..Len(Includes(stack'[i].file))
               /\ Includes(stack'[i].file)[stack'[i].next] = stack'[i + 1].file
    <3>1. stack'[i] = stack[i] /\ i \in DOMAIN stack
      BY <1>2, <1>3
    <3>2. CASE i = n
      <4>1. stack # <<>> /\ Top = stack[i]
        BY <1>2, <3>1, <3>2, TopOfStack DEF LoadInv, n
      <4>2. IsFrame(Top) /\ Includes(Top.file) \in Seq(Files)
        BY <4>1, TopOfStack DEF LoadInv
      <4>3. Top.next \in 1..Len(Includes(Top.file)) /\ f = Includes(Top.file)[Top.next]
        BY <4>1, <4>2 DEF OpenFile, Opens, IsFrame
      <4> QED BY <1>3, <3>1, <3>2, <4>1, <4>3
    <3>3. CASE i # n
      <4>1. i + 1 \in 1..n /\ stack'[i + 1] = stack[i + 1]
        BY <1>2, <1>3, <3>3
      <4> QED BY <1>2, <3>1, <4>1 DEF LoadInv, Opened
    <3> QED BY <3>2, <3>3
  <2>4. \A i \in DOMAIN stack' : i + 1 \in DOMAIN stack' =>
          /\ stack'[i].next \in 1..Len(Includes(stack'[i].file))
          /\ Includes(stack'[i].file)[stack'[i].next] = stack'[i + 1].file
    <3> SUFFICES ASSUME NEW i \in 1..n + 1, i + 1 \in 1..n + 1
                 PROVE  /\ stack'[i].next \in 1..Len(Includes(stack'[i].file))
                        /\ Includes(stack'[i].file)[stack'[i].next] = stack'[i + 1].file
      BY <1>3
    <3>1. i \in 1..n
      BY <1>2
    <3> QED BY <2>3, <3>1
  <2> QED BY <1>1, <1>4, <2>1, <2>2, <2>4 DEF Opened
<1>10. Merged'
  <2>1. MergeAll(Partials)' = MergeAll(Bodies(order))'
    <3> PICK p : p = Partials OBVIOUS
    <3> PICK q : q = Partials' OBVIOUS
    <3>1. /\ DOMAIN p = 1..n /\ DOMAIN q = 1..n + 1 /\ q[n + 1] = NoBody
          /\ \A i \in 1..n : p[i] = q[i]
      BY <1>2, <1>3 DEF Partials
    <3>2. \A i \in 1..n : IsBody(p[i])
      BY <1>2 DEF Partials, LoadInv, LoadTyped, IsFrame
    <3>3. MergeAll(q) = deep_merge(MergeAll(p), NoBody)
      BY <1>2, <3>1, MergeMore
    <3>4. IsBody(MergeAll(p))
      BY <1>2, <3>1, <3>2, MergeAllTyped
    <3>5. MergeAll(q) = MergeAll(p)
      BY <3>3, <3>4, MergeUnit
    <3>6. MergeAll(p) = MergeAll(Bodies(order))
      BY <1>1 DEF LoadInv, Merged
    <3>7. MergeAll(Partials)' = MergeAll(q)
      BY DEF MergeAll
    <3>8. MergeAll(Bodies(order))' = MergeAll(Bodies(order))
      BY <1>4 DEF MergeAll
    <3> QED BY <3>5, <3>6, <3>7, <3>8
  <2>2. stack' # <<>>
    BY <1>1, <1>2
  <2> QED BY <1>1, <1>4, <2>1, <2>2 DEF LoadInv, Merged, Loaded
<1> QED BY <1>6, <1>7, <1>8, <1>9, <1>10 DEF LoadInv

-----------------------------------------------------------------------------
\* One more element at the end of a sequence without repetitions.
LEMMA Appended ==
  ASSUME NEW S, NEW q \in Seq(S), NEW x \in S
  PROVE  /\ Append(q, x) \in Seq(S) /\ Len(q) \in Nat
         /\ DOMAIN q = 1..Len(q) /\ DOMAIN Append(q, x) = 1..Len(q) + 1
         /\ Append(q, x)[Len(q) + 1] = x
         /\ \A i \in 1..Len(q) : Append(q, x)[i] = q[i]
         /\ ToSet(Append(q, x)) = ToSet(q) \cup {x}
         /\ IsInjective(q) /\ x \notin ToSet(q) => IsInjective(Append(q, x))
<1> DEFINE n == Len(q)
           r == Append(q, x)
<1>1. /\ r \in Seq(S) /\ n \in Nat /\ DOMAIN q = 1..n /\ DOMAIN r = 1..n + 1
      /\ r[n + 1] = x /\ \A i \in 1..n : r[i] = q[i]
  OBVIOUS
<1> HIDE DEF n, r
<1>2. ToSet(r) = ToSet(q) \cup {x}
  <2>1. \A i \in 1..n + 1 : i = n + 1 \/ i \in 1..n
    BY <1>1
  <2>2. \A i \in 1..n : i \in 1..n + 1
    BY <1>1
  <2>3. n + 1 \in 1..n + 1
    BY <1>1
  <2> QED BY <1>1, <2>1, <2>2, <2>3 DEF ToSet
<1>3. ASSUME IsInjective(q), x \notin ToSet(q) PROVE IsInjective(r)
  <2>1. \A i \in 1..n + 1 : i = n + 1 \/ i \in 1..n
    BY <1>1
  <2>2. \A i \in 1..n : q[i] # x
    BY <1>1, <1>3 DEF ToSet
  <2> QED BY <1>1, <1>3, <2>1, <2>2 DEF IsInjective
<1> QED BY <1>1, <1>2, <1>3 DEF n, r

\* A file is closed: what it has come to goes to the one that includes it, or is the result.
LEMMA CloseKeeps ==
  ASSUME LoadInv, CloseFile
  PROVE  LoadInv'
<1> DEFINE n == Len(stack)
           m == Len(order)
           b == disk[Top.file].body
           res == deep_merge(Top.merged, b)
<1>1. /\ phase = "load" /\ stack # <<>> /\ Top.next > Len(Includes(Top.file))
      /\ order' = Append(order, Top.file) /\ UNCHANGED <<disk, visited>>
  BY DEF CloseFile, Close
<1>2. /\ n \in Nat \ {0} /\ DOMAIN stack = 1..n /\ n \in DOMAIN stack /\ Top = stack[n]
      /\ IsFrame(Top) /\ Top.file \in Files /\ Includes(Top.file) \in Seq(Files)
  BY <1>1, TopOfStack DEF LoadInv
<1>3. IsBody(b) /\ IsBody(Top.merged) /\ IsBody(res)
  BY <1>2, TreeTyped, MergeTyped DEF LoadInv, LoadTyped, IsFrame
<1>4. /\ order' \in Seq(Files) /\ m \in Nat
      /\ DOMAIN order = 1..m /\ DOMAIN order' = 1..m + 1 /\ order'[m + 1] = Top.file
      /\ \A i \in 1..m : order'[i] = order[i]
      /\ ToSet(order') = ToSet(order) \cup {Top.file}
      /\ IsInjective(order) /\ Top.file \notin ToSet(order) => IsInjective(order')
  BY <1>1, <1>2, Appended DEF LoadInv, LoadTyped
<1>5. Top.file \notin ToSet(order) /\ IsInjective(order)
  BY <1>2 DEF LoadInv, Visited
<1>6. ToSet(Includes(Top.file)) \subseteq ToSet(order)
  <2>1. Top.next = Len(Includes(Top.file)) + 1
    BY <1>1, <1>2 DEF LoadInv, Opened, IsFrame
  <2>2. \A j \in 1..Top.next - 1 : Includes(Top.file)[j] \in ToSet(order)
    BY <1>2 DEF LoadInv, Opened
  <2>3. DOMAIN Includes(Top.file) = 1..Top.next - 1
    BY <1>2, <2>1
  <2> QED BY <2>2, <2>3 DEF ToSet
<1>7. /\ Reach(Root)' = Reach(Root) /\ \A g : Includes(g)' = Includes(g)
  BY <1>1 DEF Reach, Includes
<1>8. IF n = 1
      THEN merged' = res /\ phase' = "flatten" /\ stack' = <<>>
      ELSE /\ stack' = [i \in 1..n - 1 |->
                         IF i < n - 1 THEN stack[i]
                         ELSE [stack[i] EXCEPT !.next = @ + 1,
                                               !.merged = deep_merge(@, res)]]
           /\ UNCHANGED <<merged, phase>>
  BY DEF CloseFile, Close
<1> HIDE DEF n, m, b, res
\* The files still open, with the one above the closed file moved on by one include.
<1>9. /\ IsSequence(stack') /\ DOMAIN stack' = 1..n - 1
      /\ \A i \in 1..n - 1 : stack'[i].file = stack[i].file
      /\ \A i \in 1..n - 1 : i # n - 1 => stack'[i] = stack[i]
      /\ n # 1 => /\ stack'[n - 1].next = stack[n - 1].next + 1
                  /\ stack'[n - 1].merged = deep_merge(stack[n - 1].merged, res)
                  /\ IsFrame(stack'[n - 1])
  <2>1. CASE n = 1
    <3>1. stack' = <<>> /\ 1..n - 1 = {}
      BY <1>8, <2>1
    <3> QED BY <2>1, <3>1 DEF IsSequence, ToSet
  <2>2. CASE n # 1
    <3>1. stack' = [i \in 1..n - 1 |->
                         IF i < n - 1 THEN stack[i]
                         ELSE [stack[i] EXCEPT !.next = @ + 1,
                                               !.merged = deep_merge(@, res)]]
      BY <1>8, <2>2
    <3>2. /\ n - 1 \in 1..n - 1 /\ n - 1 \in DOMAIN stack /\ ~(n - 1 < n - 1) /\ n - 1 \in Nat
          /\ \A i \in 1..n - 1 : i # n - 1 => i < n - 1
      BY <1>2, <2>2
    <3>3. IsFrame(stack[n - 1])
      BY <3>2 DEF LoadInv, LoadTyped
    <3>4. stack'[n - 1] = [stack[n - 1] EXCEPT !.next = @ + 1, !.merged = deep_merge(@, res)]
      BY <3>1, <3>2
    <3>5. stack'[n - 1] = [file |-> stack[n - 1].file, next |-> stack[n - 1].next + 1,
                           merged |-> deep_merge(stack[n - 1].merged, res)]
      BY <3>3, <3>4 DEF IsFrame
    <3>6. IsBody(deep_merge(stack[n - 1].merged, res))
      BY <1>3, <3>3, MergeTyped DEF IsFrame
    <3>7. IsFrame(stack'[n - 1])
      BY <3>3, <3>5, <3>6 DEF IsFrame
    <3>8. DOMAIN stack' = 1..n - 1 /\ \A i \in 1..n - 1 : i # n - 1 => stack'[i] = stack[i]
      BY <3>1, <3>2
    <3>9. stack' \in [1..n - 1 -> ToSet(stack')]
      <4>1. stack' = [i \in 1..n - 1 |-> stack'[i]]
        BY <3>1
      <4> QED BY <3>8, <4>1 DEF ToSet
    <3>10. IsSequence(stack')
      BY <3>2, <3>9 DEF IsSequence
    <3>11. \A i \in 1..n - 1 : stack'[i].file = stack[i].file
      BY <3>5, <3>8
    <3> QED BY <2>2, <3>5, <3>7, <3>8, <3>10, <3>11
  <2> QED BY <2>1, <2>2
<1>10. \A i \in 1..n - 1 : i \in DOMAIN stack /\ i # n
  BY <1>2
<1>11. LoadTyped'
  <2>1. \A i \in DOMAIN stack' : IsFrame(stack'[i])
    BY <1>9, <1>10 DEF LoadInv, LoadTyped
  <2>2. disk' \in Trees /\ visited' \subseteq Files
    BY <1>1 DEF LoadInv, LoadTyped
  <2> QED BY <1>4, <1>9, <2>1, <2>2 DEF LoadTyped
<1>12. Visited'
  <2>1. \A i, j \in DOMAIN stack' : stack'[i].file = stack'[j].file => i = j
    BY <1>9, <1>10 DEF LoadInv, Visited
  <2>2. visited' = ToSet(order') \cup {stack'[i].file : i \in DOMAIN stack'}
    <3>1. {stack[i].file : i \in DOMAIN stack}
            = {stack'[i].file : i \in DOMAIN stack'} \cup {Top.file}
      <4>1. \A i \in DOMAIN stack : i = n \/ i \in 1..n - 1
        BY <1>2
      <4>2. {stack'[i].file : i \in DOMAIN stack'} = {stack[i].file : i \in 1..n - 1}
        BY <1>9
      <4> QED BY <1>2, <1>10, <4>1, <4>2
    <3>2. visited = ToSet(order) \cup {stack[i].file : i \in DOMAIN stack}
      BY DEF LoadInv, Visited
    <3>3. visited' = visited
      BY <1>1
    <3> QED BY <1>4, <3>1, <3>2, <3>3
  <2>3. \A i \in DOMAIN stack' : stack'[i].file \notin ToSet(order')
    BY <1>2, <1>4, <1>9, <1>10 DEF LoadInv, Visited
  <2>4. IsInjective(order') /\ visited' \subseteq Reach(Root)
    BY <1>1, <1>4, <1>5 DEF LoadInv, Visited
  <2> QED BY <1>7, <2>1, <2>2, <2>3, <2>4 DEF Visited
<1>13. Completed'
  <2>1. /\ \A j \in DOMAIN order : ToSet(Includes(order[j])) \subseteq ToSet(order)
        /\ \A i, j \in DOMAIN order : order[i] \in ToSet(Includes(order[j])) => i < j
    BY DEF LoadInv, Completed
  <2>2. \A j \in DOMAIN order' : ToSet(Includes(order'[j])) \subseteq ToSet(order)
    <3>1. \A j \in 1..m + 1 : j = m + 1 \/ j \in 1..m
      BY <1>4
    <3> QED BY <1>4, <1>6, <2>1, <3>1
  <2>3. ASSUME NEW i \in 1..m + 1, NEW j \in 1..m + 1, order'[i] \in ToSet(Includes(order'[j]))
        PROVE  i < j
    <3>1. order'[i] \in ToSet(order)
      BY <1>4, <2>2, <2>3
    <3>2. i # m + 1
      BY <1>4, <1>5, <3>1
    <3>3. i \in 1..m
      BY <1>4, <3>2
    <3>4. CASE j = m + 1
      BY <1>4, <3>3, <3>4
    <3>5. CASE j # m + 1
      <4>1. j \in 1..m
        BY <1>4, <3>5
      <4> QED BY <1>4, <2>1, <2>3, <3>3, <4>1
    <3> QED BY <3>4, <3>5
  <2>4. \A j \in DOMAIN order' : ToSet(Includes(order'[j])) \subseteq ToSet(order')
    BY <1>4, <2>2
  <2> QED BY <1>4, <1>7, <2>3, <2>4 DEF Completed
<1>14. Opened'
  <2>1. n # 1 =>
          /\ n - 1 \in DOMAIN stack /\ n - 1 + 1 \in DOMAIN stack /\ n - 1 + 1 = n
          /\ stack[n - 1].next \in 1..Len(Includes(stack[n - 1].file))
          /\ Includes(stack[n - 1].file)[stack[n - 1].next] = Top.file
    <3>1. n # 1 => n - 1 \in DOMAIN stack /\ n - 1 + 1 \in DOMAIN stack /\ n - 1 + 1 = n
      BY <1>2
    <3> QED BY <1>2, <3>1 DEF LoadInv, Opened
  <2>2. \A i \in DOMAIN stack :
          /\ stack[i].next <= Len(Includes(stack[i].file)) + 1
          /\ \A j \in 1..stack[i].next - 1 : Includes(stack[i].file)[j] \in ToSet(order)
    BY DEF LoadInv, Opened
  <2>3. ASSUME NEW i \in 1..n - 1
        PROVE  /\ stack'[i].next <= Len(Includes(stack'[i].file)) + 1
               /\ \A j \in 1..stack'[i].next - 1 :
                    Includes(stack'[i].file)[j] \in ToSet(order')
    <3>1. CASE i # n - 1
      <4>1. stack'[i] = stack[i] /\ i \in DOMAIN stack
        BY <1>9, <1>10, <3>1
      <4> QED BY <1>4, <2>2, <4>1
    <3>2. CASE i = n - 1
      <4>1. n # 1
        BY <1>2, <3>2
      <4>2. /\ stack'[i].next = stack[i].next + 1 /\ stack'[i].file = stack[i].file
            /\ i \in DOMAIN stack
        BY <1>9, <1>10, <3>2, <4>1
      <4>3. Len(Includes(stack[i].file)) \in Nat
        <5>1. stack[i].file \in Files
          BY <4>2 DEF LoadInv, LoadTyped, IsFrame
        <5>2. Includes(stack[i].file) \in Seq(Files)
          BY <5>1, TreeTyped DEF LoadInv, LoadTyped, Includes
        <5> QED BY <5>2
      <4>4. /\ stack[i].next \in 1..Len(Includes(stack[i].file))
            /\ Includes(stack[i].file)[stack[i].next] = Top.file
        BY <2>1, <3>2, <4>1
      <4>5. stack'[i].next <= Len(Includes(stack'[i].file)) + 1
        BY <4>2, <4>3, <4>4
      <4>6. ASSUME NEW j \in 1..stack'[i].next - 1
            PROVE  Includes(stack[i].file)[j] \in ToSet(order')
        <5>1. j = stack[i].next \/ j \in 1..stack[i].next - 1
          BY <4>2, <4>3, <4>4
        <5> QED BY <1>4, <2>2, <4>2, <4>4, <5>1
      <4> QED BY <4>2, <4>5, <4>6
    <3> QED BY <3>1, <3>2
  <2>4. ASSUME NEW i \in 1..n - 1, i + 1 \in 1..n - 1
        PROVE  /\ stack'[i].next \in 1..Len(Includes(stack'[i].file))
               /\ Includes(stack'[i].file)[stack'[i].next] = stack'[i + 1].file
    <3>1. i # n - 1 /\ i \in DOMAIN stack /\ i + 1 \in DOMAIN stack
      BY <1>2, <2>4
    <3>2. stack'[i] = stack[i] /\ stack'[i + 1].file = stack[i + 1].file
      BY <1>9, <2>4, <3>1
    <3> QED BY <3>1, <3>2 DEF LoadInv, Opened
  <2>5. stack' # <<>> => stack'[1].file = Root
    <3> SUFFICES ASSUME stack' # <<>> PROVE stack'[1].file = Root
      OBVIOUS
    <3>1. n # 1
      BY <1>8
    <3>2. 1 \in 1..n - 1
      BY <1>2, <3>1
    <3> QED BY <1>1, <1>9, <3>2 DEF LoadInv, Opened
  <2> QED BY <1>7, <1>9, <2>3, <2>4, <2>5 DEF Opened
\* What the open files have merged comes to what it did with the closed one on top.
<1>15. PICK p : p = Partials
  OBVIOUS
<1>16. PICK bo : bo = Bodies(order)
  OBVIOUS
<1>17. PICK bp : bp = Bodies(order)'
  OBVIOUS
<1>18. MergeAll(bo) = MergeAll(p) /\ MergeAll(bp) = deep_merge(MergeAll(bo), b)
  <2>1. MergeAll(bo) = MergeAll(p)
    BY <1>1, <1>15, <1>16 DEF LoadInv, Merged
  <2>2. bp = [i \in 1..m + 1 |-> disk[order'[i]].body]
    BY <1>1, <1>4, <1>17 DEF Bodies
  <2>3. DOMAIN bo = 1..m /\ DOMAIN bp = 1..m + 1
    BY <1>4, <1>16, <2>2 DEF Bodies
  <2>4. \A i \in 1..m : bo[i] = bp[i]
    <3> TAKE i \in 1..m
    <3>1. i \in 1..m + 1
      BY <1>4
    <3> QED BY <1>4, <1>16, <2>2, <3>1 DEF Bodies
  <2>5. bp[m + 1] = b
    <3>1. m + 1 \in 1..m + 1
      BY <1>4
    <3> QED BY <1>4, <2>2, <3>1 DEF b
  <2> QED BY <1>4, <2>1, <2>3, <2>4, <2>5, MergeMore
<1>19. /\ DOMAIN p = 1..n /\ p[n] = Top.merged /\ \A i \in 1..n : IsBody(p[i])
       /\ \A i \in 1..n : p[i] = stack[i].merged
  BY <1>2, <1>15 DEF Partials, LoadInv, LoadTyped, IsFrame
<1>20. PICK k \in Nat : k = n - 1
  BY <1>2
<1>21. PICK o : o = [i \in 1..k |-> p[i]]
  OBVIOUS
<1>22. /\ DOMAIN o = 1..k /\ IsBody(MergeAll(o))
       /\ MergeAll(p) = deep_merge(MergeAll(o), Top.merged)
  <2>1. /\ DOMAIN o = 1..k /\ DOMAIN p = 1..k + 1 /\ p[k + 1] = Top.merged
        /\ \A i \in 1..k : o[i] = p[i] /\ IsBody(o[i])
    <3>1. k + 1 = n /\ \A i \in 1..k : i \in 1..n
      BY <1>2, <1>20
    <3> QED BY <1>19, <1>21, <3>1
  <2> QED BY <1>20, <2>1, MergeMore, MergeAllTyped
<1>23. MergeAll(bp) = deep_merge(MergeAll(o), res)
  BY <1>3, <1>18, <1>22, MergeAssociates DEF res
<1>24. Merged'
  <2>1. MergeAll(Bodies(order))' = MergeAll(bp) /\ merged \in {merged}
    BY <1>17 DEF MergeAll
  <2>2. CASE n = 1
    <3>1. DOMAIN o = {}
      BY <1>20, <1>22, <2>2
    <3>2. MergeAll(bp) = res
      BY <1>3, <1>23, <3>1, MergeNothing, MergeUnit
    <3>3. merged' = res /\ phase' = "flatten"
      BY <1>8, <2>2
    <3>4. Root \in ToSet(order')
      BY <1>1, <1>2, <1>4, <2>2 DEF LoadInv, Opened
    <3> QED BY <1>3, <2>1, <3>2, <3>3, <3>4 DEF Merged, Loaded
  <2>3. CASE n # 1
    <3>1. PICK pp : pp = Partials'
      OBVIOUS
    <3>2. PICK l \in Nat : l = k - 1 /\ k = l + 1
      BY <1>2, <1>20, <2>3
    <3>3. PICK u : u = [i \in 1..l |-> p[i]]
      OBVIOUS
    <3>4. /\ DOMAIN u = 1..l /\ \A i \in 1..l : u[i] = o[i] /\ IsBody(u[i])
          /\ o[k] = p[k] /\ IsBody(p[k]) /\ p[k] = stack[k].merged
      <4>1. \A i \in 1..l : i \in 1..k /\ i \in 1..n
        BY <1>2, <1>20, <3>2
      <4>2. k \in 1..k /\ k \in 1..n
        BY <1>2, <1>20, <3>2
      <4> QED BY <1>19, <1>21, <3>3, <4>1, <4>2
    <3>5. /\ DOMAIN pp = 1..k /\ pp[k] = deep_merge(p[k], res)
          /\ \A i \in 1..l : u[i] = pp[i]
      <4>1. pp = [i \in 1..k |-> stack'[i].merged]
        BY <1>9, <1>20, <3>1 DEF Partials
      <4>2. k \in 1..k /\ \A i \in 1..l : i \in 1..k /\ i \in 1..n - 1 /\ i # n - 1 /\ i \in 1..n
        BY <1>2, <1>20, <3>2
      <4>3. pp[k] = stack'[n - 1].merged /\ \A i \in 1..l : pp[i] = stack[i].merged
        BY <1>9, <1>20, <4>1, <4>2
      <4> QED BY <1>9, <1>19, <1>20, <2>3, <3>3, <3>4, <4>1, <4>2, <4>3
    <3>6. MergeAll(o) = deep_merge(MergeAll(u), p[k])
      BY <1>22, <3>2, <3>4, MergeMore
    <3>7. MergeAll(pp) = deep_merge(MergeAll(u), deep_merge(p[k], res))
      BY <3>2, <3>4, <3>5, MergeMore
    <3>8. IsBody(MergeAll(u))
      BY <3>4, MergeAllTyped
    <3>9. MergeAll(pp) = MergeAll(bp)
      BY <1>3, <1>23, <3>4, <3>6, <3>7, <3>8, MergeAssociates
    <3>10. MergeAll(Partials)' = MergeAll(pp)
      BY <3>1 DEF MergeAll
    <3>11. phase' = "load" /\ merged' = merged
      BY <1>1, <1>8, <2>3
    <3>12. stack' # <<>>
      BY <1>9, <1>20, <3>2
    <3> QED BY <2>1, <3>9, <3>10, <3>11, <3>12 DEF LoadInv, Merged, Loaded
  <2> QED BY <2>2, <2>3
<1> QED BY <1>11, <1>12, <1>13, <1>14, <1>24 DEF LoadInv

\* A step that is not the loader's.
Settled == phase' = phase \/ phase' = "failed" \/ (Loaded /\ Loaded')

\* The steps that are not the loader's keep what it has loaded.
LEMMA LoadKeeps ==
  ASSUME LoadInv, Settled, UNCHANGED <<disk, stack, visited, merged, order>>
  PROVE  LoadInv'
<1>1. UNCHANGED <<disk, stack, visited, merged, order>>
  OBVIOUS
<1>2. /\ Reach(Root)' = Reach(Root) /\ \A g : Includes(g)' = Includes(g)
      /\ Bodies(order)' = Bodies(order) /\ Partials' = Partials
  BY <1>1 DEF Reach, Includes, Bodies, Partials
<1>3. LoadTyped' /\ Visited' /\ Completed' /\ Opened'
  BY <1>1, <1>2 DEF LoadInv, LoadTyped, Visited, Completed, Opened
<1>4. MergeAll(Bodies(order))' = MergeAll(Bodies(order)) /\ MergeAll(Partials)' = MergeAll(Partials)
  BY <1>2 DEF MergeAll
<1>5. Merged'
  BY <1>1, <1>4 DEF LoadInv, Merged, Loaded, Settled
<1> QED BY <1>3, <1>5 DEF LoadInv

\* The invariant of the walk holds.
LEMMA LoadInvHolds == Spec => []LoadInv
<1>1. Init => LoadInv
  <2> SUFFICES ASSUME Init PROVE LoadInv
    OBVIOUS
  <2>1. /\ disk \in Trees /\ phase = "load" /\ stack = <<>> /\ visited = {}
        /\ merged = NoBody /\ order = <<>>
    BY DEF Init
  <2>2. DOMAIN stack = {} /\ DOMAIN order = {} /\ ToSet(order) = {}
    BY <2>1 DEF ToSet
  <2>3. LoadTyped
    BY <2>1, <2>2 DEF LoadTyped, IsSequence, ToSet
  <2>4. MergeAll(Partials) = NoBody /\ MergeAll(Bodies(order)) = NoBody
    <3>1. DOMAIN Partials = {} /\ DOMAIN Bodies(order) = {}
      BY <2>2 DEF Partials, Bodies
    <3> QED BY <3>1, MergeNothing
  <2>5. Merged
    BY <2>1, <2>4, NoBodyTyped DEF Merged, Loaded
  <2> QED BY <2>1, <2>2, <2>3, <2>5 DEF LoadInv, Visited, Completed, Opened, IsInjective
<1>2. LoadInv /\ [Next]_vars => LoadInv'
  <2> SUFFICES ASSUME LoadInv, [Next]_vars PROVE LoadInv'
    OBVIOUS
  <2>1. CASE UNCHANGED vars
    <3>1. UNCHANGED <<disk, stack, visited, merged, order>>
      BY <2>1 DEF vars, loader
    <3>2. Settled
      BY <2>1 DEF vars, Loaded, Settled
    <3> QED BY <3>1, <3>2, LoadKeeps
  <2>2. CASE Load
    <3>1. ASSUME NEW f \in Files, OpenFile(f) PROVE LoadInv'
      BY <3>1, OpenKeeps
    <3>2. ASSUME NEW f \in Files, Refuse(f) PROVE LoadInv'
      <4>1. UNCHANGED <<disk, stack, visited, merged, order>> /\ Settled
        BY <3>2 DEF Refuse, loader, Settled
      <4> QED BY <4>1, LoadKeeps
    <3>3. CASE CloseFile
      BY <3>3, CloseKeeps
    <3> QED BY <2>2, <3>1, <3>2, <3>3 DEF Load
  <2>3. CASE Flatten
    <3>1. UNCHANGED <<disk, stack, visited, merged, order>>
      BY <2>3 DEF Flatten, BeginFlatten, RefuseFlatten, EndFlatten, EndFlattening, loader
    <3>2. Settled
      BY <2>3 DEF Flatten, Flattens, BeginFlatten, RefuseFlatten, EndFlatten, EndFlattening, Loaded, Settled
    <3> QED BY <3>1, <3>2, LoadKeeps
  <2>4. CASE Resolve
    <3>1. UNCHANGED <<disk, stack, visited, merged, order>>
      BY <2>4 DEF Resolve, loader
    <3>2. Settled
      BY <2>4 DEF Resolve, Loaded, Settled
    <3> QED BY <3>1, <3>2, LoadKeeps
  <2>5. CASE Compile
    <3>1. UNCHANGED <<disk, stack, visited, merged, order>>
      BY <2>5 DEF Compile, loader
    <3>2. Settled
      BY <2>5 DEF Compile, Loaded, Settled
    <3> QED BY <3>1, <3>2, LoadKeeps
  <2>6. CASE CheckAndWalk
    <3>1. UNCHANGED <<disk, stack, visited, merged, order>>
      BY <2>6 DEF CheckAndWalk, loader
    <3>2. Settled
      BY <2>6 DEF CheckAndWalk, Loaded, Settled
    <3> QED BY <3>1, <3>2, LoadKeeps
  <2> QED BY <2>1, <2>2, <2>3, <2>4, <2>5, <2>6 DEF Next
<1> QED BY <1>1, <1>2, PTL DEF Spec

\* For every disk, a configuration that loads is the merge of the files the command
\* line's file reaches, each once and after those it includes (load_yaml_inner): no
\* nesting of includes loses a guard, repeats one or lets an included file win.
THEOREM MergesFollowIncludes == Spec => []MergedInOrder
<1>1. LoadInv => MergedInOrder
  <2> SUFFICES ASSUME LoadInv, Loaded
               PROVE  /\ IsInjective(order) /\ ToSet(order) = Reach(Root)
                      /\ \A i, j \in DOMAIN order : order[i] \in ToSet(Includes(order[j])) => i < j
                      /\ merged = FoldLeft(deep_merge, NoBody, [i \in DOMAIN order |-> disk[order[i]].body])
    BY DEF MergedInOrder
  <2>1. Root \in ToSet(order) /\ merged = MergeAll(Bodies(order))
    BY DEF LoadInv, Merged
  <2>2. ToSet(order) \subseteq Files
    BY DEF LoadInv, LoadTyped, ToSet
  <2>3. Reach(Root) \subseteq ToSet(order)
    <3>1. \A g \in ToSet(order) : ToSet(Includes(g)) \subseteq ToSet(order)
      BY DEF LoadInv, Completed, ToSet
    <3> QED BY <2>1, <2>2, <3>1 DEF Reach
  <2>4. ToSet(order) \subseteq Reach(Root)
    BY DEF LoadInv, Visited
  <2> QED BY <2>1, <2>3, <2>4 DEF LoadInv, Visited, Completed, MergeAll, Bodies
<1> QED BY <1>1, LoadInvHolds, PTL

-----------------------------------------------------------------------------
\* What flatten_one makes of capability c.
FlatForm(c) ==
  LET d == merged.caps[c]
  IN  /\ d.wraps # None => d.wraps \in DOMAIN registry
      /\ registry[c] = IF d.wraps = None THEN d.site ELSE Layered(d.site, registry[d.wraps])
      /\ \E x \in DOMAIN merged.caps : registry[c].executor = merged.caps[x].site.executor

\* The capabilities s leads through from c, each wrapping the next, to the last.
Leads(s, n, c) ==
  /\ s[1] = c /\ merged.caps[s[n]].wraps = None
  /\ \A i \in 1..n - 1 : s[i + 1] = merged.caps[s[i]].wraps

\* Such a chain leads from c, within what is flattened, and repeats nothing.
Chained(c) ==
  \E n \in Nat \ {0} : \E s \in [1..n -> DOMAIN registry] :
    IsInjective(s) /\ Leads(s, n, c)

\* The types of the resolver's variables.
FlatTyped ==
  /\ phase \in {"load", "flatten", "resolve", "compile", "ready", "failed"}
  /\ phase = "load" => resolving = <<>> /\ DOMAIN registry = {}
  /\ resolving \in Seq(Caps) /\ IsInjective(resolving)
  /\ ToSet(resolving) \subseteq DOMAIN merged.caps \ DOMAIN registry
  /\ IsFunction(registry) /\ DOMAIN registry \subseteq DOMAIN merged.caps
  /\ \A c \in DOMAIN registry : registry[c] \in Sites

\* The invariant of the flattening.
FlatInv == FlatTyped /\ \A c \in DOMAIN registry : FlatForm(c) /\ Chained(c)

\* The configuration that comes of merged, its references resolved.
Resolution ==
  [NoBody EXCEPT !.expose = [i \in DOMAIN merged.expose |-> RewrittenExposure(merged.expose[i])],
                 !.workflow = RewrittenWorkflow(merged.workflow)]

\* What compile_proxy_workflow makes of a list of exposures.
ProxyOf(all) ==
  LET LastOf(n) == CHOOSE i \in DOMAIN all : all[i].name = n
                      /\ \A j \in DOMAIN all : all[j].name = n => j <= i
  IN  [n \in {all[i].name : i \in DOMAIN all} |-> all[LastOf(n)].site]

\* The invariant of the rewriting and of the compilation.
ResolveInv ==
  /\ phase \in {"compile", "ready"} => References(merged) \subseteq DOMAIN registry /\ config = Resolution
  /\ phase = "ready" => def = config.workflow /\ proxy = ProxyOf(config.expose \o Tools)
  /\ phase # "ready" => def = None

\* The capabilities r and c, flattened to v.
Registered(r, c, v) == MergeMaps(r, [x \in {c} |-> v], Later)

\* A capability of the loaded configuration.
LEMMA CapTyped ==
  ASSUME LoadInv, NEW c \in DOMAIN merged.caps
  PROVE  c \in Caps /\ merged.caps[c].wraps \in Caps \cup {None} /\ merged.caps[c].site \in Sites
BY DEF LoadInv, Merged, IsBody, IsCapability

\* A wrapper layered over what it wraps is a site.
LEMMA LayeredTyped ==
  ASSUME NEW x \in Sites, NEW p \in Sites
  PROVE  /\ Layered(x, p) \in Sites
         /\ Layered(x, p).guards = p.guards \o x.guards
BY DEF Sites, Layered, Later

\* Capabilities, once flattened, stay as they are.
LEMMA FlatExtends ==
  ASSUME NEW c \in DOMAIN registry, FlatForm(c), Chained(c), merged' = merged,
         DOMAIN registry \subseteq DOMAIN registry',
         \A x \in DOMAIN registry : registry'[x] = registry[x]
  PROVE  FlatForm(c)' /\ Chained(c)'
<1>1. FlatForm(c)'
  BY DEF FlatForm
<1>2. Chained(c)'
  <2>0. PICK n \in Nat \ {0} :
          \E s \in [1..n -> DOMAIN registry] : IsInjective(s) /\ Leads(s, n, c)
    BY DEF Chained
  <2>1. PICK s \in [1..n -> DOMAIN registry] : IsInjective(s) /\ Leads(s, n, c)
    BY <2>0
  <2>2. Leads(s, n, c)'
    BY <2>1 DEF Leads
  <2>3. s \in [1..n -> DOMAIN registry']
    OBVIOUS
  <2> QED BY <2>1, <2>2, <2>3 DEF Chained
<1> QED BY <1>1, <1>2

\* A capability is flattened: its chain is the one of what it wraps, with it in front.
LEMMA EndFlattenKeeps ==
  ASSUME LoadInv, FlatInv, EndFlatten
  PROVE  FlatInv'
<1> PICK c : c = Last(resolving)
  OBVIOUS
<1> PICK d : d = merged.caps[c]
  OBVIOUS
<1> PICK v : v = IF d.wraps = None THEN d.site ELSE Layered(d.site, registry[d.wraps])
  OBVIOUS
<1> PICK n : n = Len(resolving)
  OBVIOUS
<1>1. /\ phase = "flatten" /\ resolving # <<>> /\ merged' = merged
      /\ d.wraps # None => d.wraps \in DOMAIN registry
  BY DEF EndFlatten, loader
<1>2. \/ phase' = "failed" /\ UNCHANGED <<resolving, registry>>
      \/ /\ registry' = Registered(registry, c, v)
         /\ resolving' = Front(resolving) /\ phase' = phase
  BY DEF EndFlatten, Registered
<1>3. n \in Nat \ {0} /\ DOMAIN resolving = 1..n /\ c = resolving[n]
  BY <1>1 DEF FlatInv, FlatTyped, Last
<1>4. c \in DOMAIN merged.caps /\ c \notin DOMAIN registry
  BY <1>3 DEF FlatInv, FlatTyped, ToSet
<1>5. CASE phase' = "failed" /\ UNCHANGED <<resolving, registry>>
  <2>1. FlatTyped'
    BY <1>1, <1>5 DEF FlatInv, FlatTyped
  <2>2. \A x \in DOMAIN registry : FlatForm(x)' /\ Chained(x)'
    BY <1>1, <1>5, FlatExtends DEF FlatInv
  <2> QED BY <1>5, <2>1, <2>2 DEF FlatInv
<1>6. CASE /\ registry' = Registered(registry, c, v)
           /\ resolving' = Front(resolving) /\ phase' = phase
  <2>1. /\ DOMAIN registry' = DOMAIN registry \cup {c} /\ IsFunction(registry') /\ registry'[c] = v
        /\ \A x \in DOMAIN registry : registry'[x] = registry[x]
    <3>1. PICK r : r = registry'
      OBVIOUS
    <3>2. r = Registered(registry, c, v)
      BY <1>6, <3>1
    <3>3. r = [k \in DOMAIN registry \cup {c} |->
                 IF k \notin DOMAIN registry THEN [x \in {c} |-> v][k]
                 ELSE IF k \notin {c} THEN registry[k]
                 ELSE Later(registry[k], [x \in {c} |-> v][k])]
      BY <3>2 DEF Registered, MergeMaps
    <3>4. DOMAIN r = DOMAIN registry \cup {c} /\ IsFunction(r)
      BY <3>3 DEF IsFunction
    <3>5. r[c] = v /\ \A x \in DOMAIN registry : r[x] = registry[x]
      BY <1>4, <3>3
    <3> QED BY <3>1, <3>4, <3>5
  <2>2. v \in Sites
    <3>1. d.site \in Sites
      BY <1>4, CapTyped
    <3> QED BY <1>1, <3>1, LayeredTyped DEF FlatInv, FlatTyped
  <2>3. /\ resolving' \in Seq(Caps) /\ DOMAIN resolving' = 1..n - 1
        /\ \A i \in 1..n - 1 : resolving'[i] = resolving[i] /\ i \in 1..n /\ i # n
    BY <1>3, <1>6 DEF FlatInv, FlatTyped, Front
  <2>4. IsInjective(resolving') /\ ToSet(resolving') \subseteq DOMAIN merged.caps \ DOMAIN registry'
    <3>1. \A i \in 1..n - 1 : resolving[i] # c
      <4>1. n \in 1..n /\ \A i, j \in 1..n : resolving[i] = resolving[j] => i = j
        BY <1>3 DEF FlatInv, FlatTyped, IsInjective
      <4> QED BY <1>3, <2>3, <4>1
    <3>2. \A i \in 1..n - 1 : resolving[i] \in DOMAIN merged.caps \ DOMAIN registry
      BY <1>3, <2>3 DEF FlatInv, FlatTyped, ToSet
    <3>3. IsInjective(resolving')
      BY <1>3, <2>3 DEF FlatInv, FlatTyped, IsInjective
    <3> QED BY <2>1, <2>3, <3>1, <3>2, <3>3 DEF ToSet
  <2>5. FlatTyped'
    <3>1. \A x \in DOMAIN registry' : registry'[x] \in Sites
      BY <2>1, <2>2 DEF FlatInv, FlatTyped
    <3>2. DOMAIN registry' \subseteq DOMAIN merged.caps
      BY <1>4, <2>1 DEF FlatInv, FlatTyped
    <3> QED BY <1>1, <1>6, <2>1, <2>3, <2>4, <3>1, <3>2 DEF FlatTyped
  <2>6. \A x \in DOMAIN registry : FlatForm(x)' /\ Chained(x)'
    BY <1>1, <2>1, FlatExtends DEF FlatInv
  <2>7. FlatForm(c)'
    <3>1. d.wraps # None => d.wraps \in DOMAIN registry' /\ registry'[d.wraps] = registry[d.wraps]
      BY <1>1, <2>1
    <3>2. \E x \in DOMAIN merged.caps : v.executor = merged.caps[x].site.executor
      <4>1. CASE d.wraps = None \/ d.site.executor # None
        <5>1. v.executor = d.site.executor
          BY <4>1 DEF Layered, Later
        <5> QED BY <1>4, <5>1
      <4>2. CASE d.wraps # None /\ d.site.executor = None
        <5>1. v.executor = registry[d.wraps].executor
          BY <4>2 DEF Layered, Later
        <5> QED BY <1>1, <4>2, <5>1 DEF FlatInv, FlatForm
      <4> QED BY <4>1, <4>2
    <3> QED BY <1>1, <2>1, <3>1, <3>2 DEF FlatForm
  <2>8. Chained(c)'
    <3>1. CASE d.wraps = None
      <4> DEFINE s == [i \in 1..1 |-> c]
      <4>1. s \in [1..1 -> DOMAIN registry'] /\ s[1] = c /\ 1..1 = {1} /\ 1..1 - 1 = {}
        BY <2>1
      <4>2. IsInjective(s)
        BY <4>1 DEF IsInjective
      <4> HIDE DEF s
      <4>3. Leads(s, 1, c)'
        BY <1>1, <3>1, <4>1 DEF Leads
      <4>4. 1 \in Nat \ {0}
        OBVIOUS
      <4> QED BY <4>1, <4>2, <4>3, <4>4 DEF Chained
    <3>2. CASE d.wraps # None
      <4>0. PICK k \in Nat \ {0} :
              \E s \in [1..k -> DOMAIN registry] : IsInjective(s) /\ Leads(s, k, d.wraps)
        BY <1>1, <3>2 DEF FlatInv, Chained
      <4>1. PICK s \in [1..k -> DOMAIN registry] : IsInjective(s) /\ Leads(s, k, d.wraps)
        BY <4>0
      <4>2. PICK m \in Nat \ {0} : m = k + 1 /\ m - 1 = k
        OBVIOUS
      <4> DEFINE t == [i \in 1..m |-> IF i = 1 THEN c ELSE s[i - 1]]
      <4>3. \A i \in 1..m : i # 1 => i - 1 \in 1..k
        BY <4>2
      <4>4. t \in [1..m -> DOMAIN registry']
        BY <2>1, <4>3
      <4>5. IsInjective(t)
        <5> SUFFICES ASSUME NEW i \in 1..m, NEW j \in 1..m, t[i] = t[j] PROVE i = j
          BY DEF IsInjective
        <5>1. i # 1 => t[i] = s[i - 1] /\ s[i - 1] # c
          BY <1>4, <4>3
        <5>2. j # 1 => t[j] = s[j - 1] /\ s[j - 1] # c
          BY <1>4, <4>3
        <5>3. t[1] = c
          BY <4>2
        <5>4. CASE i # 1 /\ j # 1
          <6>1. i - 1 = j - 1
            BY <4>1, <4>3, <5>1, <5>2, <5>4 DEF IsInjective
          <6> QED BY <6>1
        <5> QED BY <5>1, <5>2, <5>3, <5>4
      <4>6. /\ t[1] = c /\ t[m] = s[k] /\ t[2] = s[1]
            /\ \A i \in 1..m - 1 : i # 1 => t[i] = s[i - 1] /\ t[i + 1] = s[i - 1 + 1] /\ i - 1 \in 1..k - 1
        BY <4>2
      <4> HIDE DEF t
      <4>7. \A i \in 1..m - 1 : t[i + 1] = merged.caps[t[i]].wraps
        <5> TAKE i \in 1..m - 1
        <5>1. CASE i = 1
          BY <4>1, <4>6, <5>1 DEF Leads
        <5>2. CASE i # 1
          BY <4>1, <4>6, <5>2 DEF Leads
        <5> QED BY <5>1, <5>2
      <4>8. Leads(t, m, c)'
        BY <1>1, <4>1, <4>6, <4>7 DEF Leads
      <4> QED BY <4>4, <4>5, <4>8 DEF Chained
    <3> QED BY <3>1, <3>2
  <2> QED BY <2>1, <2>5, <2>6, <2>7, <2>8 DEF FlatInv
<1> QED BY <1>2, <1>5, <1>6

\* A capability begins to be.
LEMMA BeginFlattenKeeps ==
  ASSUME LoadInv, FlatInv, NEW c \in Caps, BeginFlatten(c)
  PROVE  FlatInv'
<1>1. /\ phase = "flatten" /\ c \notin DOMAIN registry /\ c \in DOMAIN merged.caps
      /\ c \notin ToSet(resolving) /\ resolving' = Append(resolving, c)
      /\ merged' = merged /\ registry' = registry /\ phase' = phase
  BY DEF BeginFlatten, Flattens, loader
<1>2. /\ resolving' \in Seq(Caps) /\ ToSet(resolving') = ToSet(resolving) \cup {c}
      /\ IsInjective(resolving')
  BY <1>1, Appended DEF FlatInv, FlatTyped
<1>3. FlatTyped'
  BY <1>1, <1>2 DEF FlatInv, FlatTyped
<1>4. \A x \in DOMAIN registry : FlatForm(x)' /\ Chained(x)'
  BY <1>1, FlatExtends DEF FlatInv
<1> QED BY <1>1, <1>3, <1>4 DEF FlatInv

\* The steps that flatten nothing.
LEMMA FlatKeeps ==
  ASSUME FlatInv, UNCHANGED <<resolving, registry>>,
         phase' \in {"load", "flatten", "resolve", "compile", "ready", "failed"},
         phase' = "load" => phase = "load",
         merged' # merged => phase = "load"
  PROVE  FlatInv'
<1>1. CASE phase = "load"
  <2>1. DOMAIN registry = {} /\ resolving = <<>> /\ ToSet(resolving) = {}
    BY <1>1 DEF FlatInv, FlatTyped, ToSet
  <2>2. FlatTyped'
    BY <2>1 DEF FlatInv, FlatTyped
  <2> QED BY <2>1, <2>2 DEF FlatInv
<1>2. CASE phase # "load"
  <2>1. merged' = merged /\ phase' # "load"
    BY <1>2
  <2>2. FlatTyped'
    BY <2>1 DEF FlatInv, FlatTyped
  <2>3. \A x \in DOMAIN registry : FlatForm(x)' /\ Chained(x)'
    BY <2>1, FlatExtends DEF FlatInv
  <2> QED BY <2>2, <2>3 DEF FlatInv
<1> QED BY <1>1, <1>2

-----------------------------------------------------------------------------
\* The invariant of the flattening holds.
LEMMA FlatInvHolds == Spec => []FlatInv
<1>1. Init => FlatInv
  <2> SUFFICES ASSUME Init PROVE FlatInv
    OBVIOUS
  <2>1. phase = "load" /\ resolving = <<>> /\ registry = [c \in {} |-> NoSite]
    BY DEF Init
  <2>2. DOMAIN registry = {} /\ IsFunction(registry) /\ ToSet(resolving) = {} /\ DOMAIN resolving = {}
    BY <2>1 DEF IsFunction, ToSet
  <2> QED BY <2>1, <2>2 DEF FlatInv, FlatTyped, IsInjective
<1>2. LoadInv /\ FlatInv /\ [Next]_vars => FlatInv'
  <2> SUFFICES ASSUME LoadInv, FlatInv, [Next]_vars PROVE FlatInv'
    OBVIOUS
  <2> USE DEF FlatInv
  <2>0. phase \in {"load", "flatten", "resolve", "compile", "ready", "failed"}
    BY DEF FlatTyped
  <2>1. CASE UNCHANGED vars
    <3>1. UNCHANGED <<resolving, registry, merged, phase>>
      BY <2>1 DEF vars, loader, resolver
    <3> QED BY <2>0, <3>1, FlatKeeps
  <2>2. CASE Load
    <3>1. /\ UNCHANGED <<resolving, registry>> /\ phase = "load"
          /\ phase' \in {"load", "flatten", "failed"}
      BY <2>2 DEF Load, Opens, OpenFile, Refuse, CloseFile, Close, resolver
    <3> QED BY <3>1, FlatKeeps
  <2>3. CASE Flatten
    <3>1. ASSUME NEW c \in Caps, BeginFlatten(c) PROVE FlatInv'
      BY <3>1, BeginFlattenKeeps
    <3>2. ASSUME NEW c \in Caps, RefuseFlatten(c) PROVE FlatInv'
      <4>1. UNCHANGED <<resolving, registry, merged>> /\ phase' = "failed"
        BY <3>2 DEF RefuseFlatten, loader, resolver
      <4> QED BY <4>1, FlatKeeps
    <3>3. CASE EndFlatten
      BY <3>3, EndFlattenKeeps
    <3>4. CASE EndFlattening
      <4>1. UNCHANGED <<resolving, registry, merged>> /\ phase' = "resolve"
        BY <3>4 DEF EndFlattening, loader, resolver
      <4> QED BY <4>1, FlatKeeps
    <3> QED BY <2>3, <3>1, <3>2, <3>3, <3>4 DEF Flatten
  <2>4. CASE Resolve
    <3>1. UNCHANGED <<resolving, registry, merged>> /\ phase' \in {"compile", "failed"}
      BY <2>4 DEF Resolve, loader
    <3> QED BY <3>1, FlatKeeps
  <2>5. CASE Compile
    <3>1. UNCHANGED <<resolving, registry, merged>> /\ phase' = "ready"
      BY <2>5 DEF Compile, loader
    <3> QED BY <3>1, FlatKeeps
  <2>6. CASE CheckAndWalk
    <3>1. UNCHANGED <<resolving, registry, merged, phase>>
      BY <2>6 DEF CheckAndWalk, loader, resolver
    <3> QED BY <2>0, <3>1, FlatKeeps
  <2> QED BY <2>1, <2>2, <2>3, <2>4, <2>5, <2>6 DEF Next
<1> QED BY <1>1, <1>2, LoadInvHolds, PTL DEF Spec

\* The invariant of the rewriting holds.
LEMMA ResolveInvHolds == Spec => []ResolveInv
<1>1. Init => ResolveInv
  BY DEF Init, ResolveInv
<1>2. ResolveInv /\ [Next]_vars => ResolveInv'
  <2> SUFFICES ASSUME ResolveInv, [Next]_vars PROVE ResolveInv'
    OBVIOUS
  <2>1. CASE UNCHANGED <<phase, merged, registry, config, proxy, def>>
    <3>1. Resolution' = Resolution /\ References(merged)' = References(merged)
      BY <2>1 DEF Resolution, RewrittenExposure, RewrittenWorkflow, RewrittenState, RewrittenSteps,
             Rewritten, Inline, References
    <3>2. ProxyOf(config.expose \o Tools)' = ProxyOf(config.expose \o Tools)
      BY <2>1 DEF ProxyOf
    <3> QED BY <2>1, <3>1, <3>2 DEF ResolveInv
  <2>2. CASE UNCHANGED vars
    <3>1. UNCHANGED <<phase, merged, registry, config, proxy, def>>
      BY <2>2 DEF vars, loader, resolver
    <3> QED BY <2>1, <3>1
  <2>3. CASE Load \/ Flatten
    <3>1. phase' \notin {"compile", "ready"} /\ def' = def /\ phase # "ready"
      BY <2>3 DEF Load, Opens, OpenFile, Refuse, CloseFile, Close, Flatten, Flattens,
           BeginFlatten, RefuseFlatten, EndFlatten, EndFlattening
    <3> QED BY <3>1 DEF ResolveInv
  <2>4. CASE Resolve
    <3>1. phase = "resolve" /\ UNCHANGED <<registry, merged, def>>
      BY <2>4 DEF Resolve, loader
    <3>2. CASE phase' = "failed"
      BY <3>1, <3>2 DEF ResolveInv
    <3>3. CASE phase' # "failed"
      <4>1. /\ References(merged) \subseteq DOMAIN registry /\ config' = Resolution
            /\ phase' = "compile"
        BY <2>4, <3>3 DEF Resolve, Resolution
      <4>2. Resolution' = Resolution /\ References(merged)' = References(merged)
        BY <3>1 DEF Resolution, RewrittenExposure, RewrittenWorkflow, RewrittenState, RewrittenSteps,
             Rewritten, Inline, References
      <4> QED BY <3>1, <4>1, <4>2 DEF ResolveInv
    <3> QED BY <3>2, <3>3
  <2>5. CASE Compile
    <3>1. /\ phase = "compile" /\ phase' = "ready" /\ UNCHANGED <<registry, merged, config>>
          /\ def' = config.workflow /\ proxy' = ProxyOf(config.expose \o Tools)
      BY <2>5 DEF Compile, loader, ProxyOf
    <3>2. Resolution' = Resolution /\ References(merged)' = References(merged)
      BY <3>1 DEF Resolution, RewrittenExposure, RewrittenWorkflow, RewrittenState, RewrittenSteps,
             Rewritten, Inline, References
    <3>3. ProxyOf(config.expose \o Tools)' = ProxyOf(config.expose \o Tools)
      BY <3>1
    <3> QED BY <3>1, <3>2, <3>3 DEF ResolveInv
  <2>6. CASE CheckAndWalk
    <3>1. UNCHANGED <<phase, merged, registry, config, proxy>>
      BY <2>6 DEF CheckAndWalk, loader, resolver
    <3>2. def' = def
      BY <2>6 DEF CheckAndWalk, Check, Walk, Diagnose, Visit, Report, Enter, Move, Overdue
    <3> QED BY <2>1, <3>1, <3>2
  <2> QED BY <2>2, <2>3, <2>4, <2>5, <2>6 DEF Next
<1> QED BY <1>1, <1>2, PTL DEF Spec

\* The rewriting of executors changes nothing the checker and the runtime look at.
LEMMA RewrittenTyped ==
  ASSUME NEW w, IsDefinition(w)
  PROVE  /\ DOMAIN RewrittenWorkflow(w).states = DOMAIN w.states
         /\ \A s \in DOMAIN w.states :
              /\ DOMAIN RewrittenWorkflow(w).states[s].transitions = DOMAIN w.states[s].transitions
              /\ \A n \in DOMAIN w.states[s].transitions :
                   RewrittenWorkflow(w).states[s].transitions[n].site
                     = Rewritten(w.states[s].transitions[n].site)
         /\ IsWorkflow(RewrittenWorkflow(w))
<1> DEFINE W == RewrittenWorkflow(w)
           Turned(t) == [t EXCEPT !.site = Rewritten(@)]
<1>1. /\ W.initialState = w.initialState /\ W.onTimeout = w.onTimeout /\ W.timeoutMs = w.timeoutMs
      /\ W.states = [s \in DOMAIN w.states |-> RewrittenState(w.states[s])]
  BY DEF IsDefinition, RewrittenWorkflow
<1>2. /\ w.initialState \in Places \cup {None} /\ w.onTimeout \in Places \cup {None}
      /\ w.timeoutMs \in BOOLEAN /\ DOMAIN w.states \subseteq Places
      /\ \A s \in DOMAIN w.states : StateOK(w.states[s])
  BY DefinitionForm DEF StatesOK
<1>3. ASSUME NEW t, StepOK(t)
      PROVE  /\ IsTransition(Turned(t)) /\ Turned(t).site = Rewritten(t.site)
  <2>1. Turned(t) = [target |-> t.target, branches |-> t.branches, site |-> Rewritten(t.site)]
    BY <1>3 DEF StepOK
  <2> QED BY <1>3, <2>1 DEF StepOK, IsTransition
<1>4. ASSUME NEW d, StateOK(d)
      PROVE  /\ IsState(RewrittenState(d)) /\ DOMAIN RewrittenState(d).transitions = DOMAIN d.transitions
             /\ \A n \in DOMAIN d.transitions :
                  RewrittenState(d).transitions[n].site = Rewritten(d.transitions[n].site)
  <2>1. /\ RewrittenState(d).terminal = d.terminal
        /\ RewrittenState(d).transitions = [n \in DOMAIN d.transitions |-> Turned(d.transitions[n])]
    BY <1>4 DEF StateOK, RewrittenState, RewrittenSteps
  <2>2. /\ d.terminal \in BOOLEAN
        /\ \A n \in DOMAIN d.transitions : StepOK(d.transitions[n])
    BY <1>4 DEF StateOK, StepsOK
  <2> HIDE DEF Turned
  <2>3. \A n \in DOMAIN d.transitions :
          /\ IsTransition(RewrittenState(d).transitions[n])
          /\ RewrittenState(d).transitions[n].site = Rewritten(d.transitions[n].site)
    BY <1>3, <2>1, <2>2
  <2>4. DOMAIN RewrittenState(d).transitions = DOMAIN d.transitions
    BY <2>1
  <2> QED BY <2>1, <2>2, <2>3, <2>4 DEF IsState
<1> HIDE DEF W, Turned
<1>5. DOMAIN W.states = DOMAIN w.states /\ \A s \in DOMAIN w.states : W.states[s] = RewrittenState(w.states[s])
  BY <1>1
<1>6. IsWorkflow(W)
  BY <1>1, <1>2, <1>4, <1>5 DEF IsWorkflow
<1> QED BY <1>2, <1>4, <1>5, <1>6 DEF W

\* What the rewriting leaves, by parts.
LEMMA ResolutionForm ==
  /\ Resolution.workflow = RewrittenWorkflow(merged.workflow)
  /\ Resolution.expose = [i \in DOMAIN merged.expose |-> RewrittenExposure(merged.expose[i])]
BY DEF Resolution, NoBody

\* The definition the store gets is the rewritten workflow, and a workflow.
LEMMA DefTyped ==
  ASSUME LoadInv, ResolveInv
  PROVE  phase = "ready" => def = RewrittenWorkflow(merged.workflow) /\ IsWorkflow(def)
<1> SUFFICES ASSUME phase = "ready"
             PROVE  def = RewrittenWorkflow(merged.workflow) /\ IsWorkflow(def)
  OBVIOUS
<1>1. def = RewrittenWorkflow(merged.workflow)
  BY ResolutionForm DEF ResolveInv
<1>2. IsDefinition(merged.workflow)
  BY DEF LoadInv, Merged, IsBody
<1> QED BY <1>1, <1>2, RewrittenTyped

\* The parts of a definition.
LEMMA TransitionsTyped ==
  ASSUME IsWorkflow(def)
  PROVE  /\ Declared \subseteq Places /\ def.initialState \in Places \cup {None}
         /\ def.onTimeout \in Places \cup {None}
         /\ \A s \in Declared : \A t \in Transitions(s) : IsTransition(t)
BY DEF IsWorkflow, IsState, Declared, Transitions

\* Errors name fields and states.
LEMMA ErrorsTyped ==
  ASSUME Declared \subseteq Places, def.initialState \in Places \cup {None},
         def.onTimeout \in Places \cup {None}
  PROVE  Errors \subseteq {"initialState", "onTimeout", "target", "branch"} \X (Places \cup {None})
<1> DEFINE T == {"initialState", "onTimeout", "target", "branch"} \X (Places \cup {None})
<1>1. \A f \in {"initialState", "onTimeout", "target", "branch"} : \A p \in Places \cup {None} :
        <<f, p>> \in T
  OBVIOUS
<1> HIDE DEF T
<1>2. {<<"initialState", s>> : s \in {def.initialState} \ Declared} \subseteq T
  BY <1>1
<1>3. {<<"onTimeout", s>> : s \in {def.onTimeout} \ (Declared \cup {None})} \subseteq T
  BY <1>1
<1>4. \A S \in SUBSET Declared : {<<"target", s>> : s \in S} \subseteq T /\ {<<"branch", s>> : s \in S} \subseteq T
  BY <1>1
<1>5. {x \in Declared : \E t \in Transitions(x) : t.target \notin Declared} \subseteq Declared
  OBVIOUS
<1>6. {x \in Declared : \E t \in Transitions(x) : ~(t.branches \subseteq Declared)} \subseteq Declared
  OBVIOUS
<1> QED BY <1>2, <1>3, <1>4, <1>5, <1>6 DEF Errors, T

\* The check and the walk keep their types.
LEMMA ValidationKeeps ==
  ASSUME LoadInv, ResolveInv, Inv, ValidationTypeOK, Check \/ Walk
  PROVE  ValidationTypeOK'
<1>1. def # None
  BY DEF Inv, Built, Check, Walk, Diagnose, Visit, Report, Enter, Move, Overdue
<1>2. IsWorkflow(def)
  BY <1>1, DefTyped DEF ResolveInv
<1>3. /\ Declared \subseteq Places /\ def.initialState \in Places \cup {None}
      /\ def.onTimeout \in Places \cup {None}
      /\ \A s \in Declared : \A t \in Transitions(s) : IsTransition(t)
  BY <1>2, TransitionsTyped
<1>4. \A s \in Declared : \A t \in Transitions(s) : Targets(t) \subseteq Places
  BY <1>3 DEF Targets, IsTransition
<1>5. CASE Diagnose
  <2>1. Errors \subseteq {"initialState", "onTimeout", "target", "branch"} \X (Places \cup {None})
    BY <1>3, ErrorsTyped
  <2>2. {<<"initialState", None>>} \subseteq {"initialState", "onTimeout", "target", "branch"} \X (Places \cup {None})
    OBVIOUS
  <2>3. DeadEnds \subseteq Places
    BY <1>3 DEF DeadEnds
  <2>4. errors' \subseteq {"initialState", "onTimeout", "target", "branch"} \X (Places \cup {None})
    BY <1>5, <2>1, <2>2 DEF Diagnose
  <2>5. deadEnds' \subseteq Places
    BY <1>5, <2>3 DEF Diagnose
  <2> HIDE DEF Errors, DeadEnds
  <2> QED BY <1>3, <1>5, <2>4, <2>5 DEF Diagnose, ValidationTypeOK
<1>6. ASSUME NEW s \in Places, Visit(s) PROVE ValidationTypeOK'
  <2>1. (Successors(s) \cap Declared) \subseteq Places
    BY <1>3
  <2> QED BY <1>6, <2>1 DEF Visit, ValidationTypeOK
<1>7. CASE Report
  BY <1>3, <1>7 DEF Report, ValidationTypeOK
<1>8. CASE Enter
  BY <1>3, <1>8 DEF Enter, ValidationTypeOK
<1>9. CASE Move
  <2>1. at' \in Places
    BY <1>4, <1>9 DEF Move
  <2> QED BY <1>9, <2>1 DEF Move, ValidationTypeOK
<1>10. CASE Overdue
  BY <1>3, <1>10 DEF Overdue, ValidationTypeOK
<1> QED BY <1>5, <1>6, <1>7, <1>8, <1>9, <1>10 DEF Check, Walk

\* The pipeline keeps its types for every disk of documents: the calls under way name
\* files that were visited and capabilities that are not flattened yet, and what
\* reaches the definition store is a workflow (ConfigDefinitionStore).
THEOREM ConfigurationTyped == Spec => []TypeOK
<1>1. Init => ValidationTypeOK
  BY DEF Init, InitValidation, ValidationTypeOK
<1>2. LoadInv /\ ResolveInv /\ Inv /\ ValidationTypeOK /\ [Next]_vars => ValidationTypeOK'
  <2> SUFFICES ASSUME LoadInv, ResolveInv, Inv, ValidationTypeOK, [Next]_vars
               PROVE  ValidationTypeOK'
    OBVIOUS
  <2>1. CASE UNCHANGED validation
    BY <2>1 DEF validation, ValidationTypeOK
  <2>2. CASE CheckAndWalk
    BY <2>2, ValidationKeeps DEF CheckAndWalk
  <2>3. CASE UNCHANGED vars \/ Load \/ Flatten \/ Resolve \/ Compile
    <3>1. UNCHANGED validation
      BY <2>3 DEF vars, Load, OpenFile, Refuse, CloseFile, Close, Flatten, BeginFlatten, RefuseFlatten,
           EndFlatten, EndFlattening, Resolve, Compile
    <3> QED BY <2>1, <3>1
  <2> QED BY <2>2, <2>3 DEF Next
<1>3. LoadInv /\ FlatInv /\ ResolveInv /\ ValidationTypeOK => TypeOK
  <2> SUFFICES ASSUME LoadInv, FlatInv, ResolveInv, ValidationTypeOK PROVE TypeOK
    OBVIOUS
  <2>1. \A i \in DOMAIN stack : stack[i].file \in visited
    BY DEF LoadInv, Visited
  <2>2. (phase = "ready" => IsWorkflow(def)) /\ (phase # "ready" => def = None)
    BY DefTyped DEF ResolveInv
  <2> QED BY <2>1, <2>2 DEF TypeOK, LoadInv, LoadTyped, FlatInv, FlatTyped
<1> QED BY <1>1, <1>2, <1>3, LoadInvHolds, FlatInvHolds, ResolveInvHolds, InvHolds, PTL DEF Spec

-----------------------------------------------------------------------------
\* A sequence flattened, computed from its beginning.
LEMMA FlattenOf ==
  ASSUME NEW n \in Nat \ {0}, NEW q, Len(q) = n, NEW g, DOMAIN g = 1..n,
         g = [i \in 1..n |-> IF i = 1 THEN q[i] ELSE g[i - 1] \o q[i]]
  PROVE  FlattenSeq(q) = g[n]
<1> DEFINE h == CHOOSE f : f = [i \in 1..n |-> IF i = 1 THEN q[i] ELSE f[i - 1] \o q[i]]
<1>1. FlattenSeq(q) = h[n]
  BY DEF FlattenSeq
<1>2. h = [i \in 1..n |-> IF i = 1 THEN q[i] ELSE h[i - 1] \o q[i]]
  OBVIOUS
<1> HIDE DEF h
<1> DEFINE S == {i \in Nat : i + 1 <= n => h[i + 1] = g[i + 1]}
<1>3. 0 \in S
  <2>1. 1 \in 1..n
    OBVIOUS
  <2>2. g[1] = q[1]
    BY <2>1
  <2>3. h[1] = q[1]
    BY <1>2, <2>1
  <2> QED BY <2>2, <2>3
<1>4. ASSUME NEW i \in Nat, i \in S PROVE i + 1 \in S
  <2> SUFFICES ASSUME i + 1 + 1 <= n PROVE h[i + 1 + 1] = g[i + 1 + 1]
    OBVIOUS
  <2> PICK k \in Nat : k = i + 1 + 1
    OBVIOUS
  <2>1. k \in 1..n /\ k # 1 /\ k - 1 = i + 1
    OBVIOUS
  <2>2. h[k - 1] = g[k - 1]
    BY <1>4, <2>1
  <2>3. g[k] = g[k - 1] \o q[k]
    BY <2>1
  <2>4. h[k] = h[k - 1] \o q[k]
    BY <1>2, <2>1
  <2> QED BY <2>2, <2>3, <2>4
<1> QED
  <2> HIDE DEF S
  <2>1. Nat \subseteq S
    BY <1>3, <1>4, Induct
  <2>2. n - 1 \in Nat /\ n - 1 + 1 = n
    OBVIOUS
  <2>3. n - 1 + 1 <= n => h[n - 1 + 1] = g[n - 1 + 1]
    BY <2>1, <2>2 DEF S
  <2> QED BY <1>1, <2>2, <2>3

\* What is appended to a sequence is the end of it.
LEMMA SuffixOf ==
  ASSUME NEW S, NEW a \in Seq(S), NEW b \in Seq(S)
  PROVE  IsSuffix(b, a \o b)
<1> DEFINE t == a \o b
           m == Len(a)
           n == Len(b)
<1>1. /\ m \in Nat /\ n \in Nat /\ t \in Seq(S) /\ Len(t) = m + n
      /\ \A i \in 1..m + n : t[i] = IF i <= m THEN a[i] ELSE b[i - m]
  OBVIOUS
<1> HIDE DEF t, m
<1>2. /\ Reverse(b) = [i \in 1..n |-> b[(n - i) + 1]]
      /\ Reverse(t) = [i \in 1..m + n |-> t[(m + n - i) + 1]]
  BY <1>1 DEF Reverse
<1> HIDE DEF n
<1>3. PICK u : u = Reverse(b)
  OBVIOUS
<1>4. PICK v : v = Reverse(t)
  OBVIOUS
<1>5. \A i \in 1..n : u[i] = v[i]
  <2> TAKE i \in 1..n
  <2>1. /\ i \in 1..m + n /\ (m + n - i) + 1 \in 1..m + n /\ ~((m + n - i) + 1 <= m)
        /\ (m + n - i) + 1 - m = (n - i) + 1
    BY <1>1
  <2>2. v[i] = t[(m + n - i) + 1]
    BY <1>2, <1>4, <2>1
  <2>3. t[(m + n - i) + 1] = b[(n - i) + 1]
    BY <1>1, <2>1
  <2>4. u[i] = b[(n - i) + 1]
    BY <1>2, <1>3
  <2> QED BY <2>2, <2>3, <2>4
<1>6. Len(u) = n /\ Len(v) = m + n
  BY <1>1, <1>2, <1>3, <1>4
<1>7. SubSeq(u, 1, n) = SubSeq(v, 1, n)
  <2>1. SubSeq(u, 1, n) = [i \in 1..n |-> u[i]]
    BY <1>1
  <2>2. SubSeq(v, 1, n) = [i \in 1..n |-> v[i]]
    BY <1>1
  <2> QED BY <1>5, <2>1, <2>2
<1>8. n <= m + n
  BY <1>1
<1> QED BY <1>3, <1>4, <1>6, <1>7, <1>8 DEF IsSuffix, IsPrefix, t

-----------------------------------------------------------------------------
\* The chain of a flattened capability exists, and everything on it has been flattened.
LEMMA ChainFound ==
  ASSUME LoadInv, FlatInv, NEW c \in DOMAIN registry
  PROVE  \E m \in Nat \ {0} : Chain(c) \in [1..m -> DOMAIN registry] /\ Leads(Chain(c), m, c)
<1> DEFINE D == DOMAIN merged.caps
           All == UNION {[1..n -> D] : n \in 1..Cardinality(D)}
           Is(s) == /\ s[1] = c /\ merged.caps[s[Len(s)]].wraps = None
                    /\ \A i \in 1..Len(s) - 1 : s[i + 1] = merged.caps[s[i]].wraps
           t == Chain(c)
<1>1. D \subseteq Caps /\ IsFiniteSet(D) /\ Cardinality(D) \in Nat
  <2>1. D \subseteq Caps
    BY DEF LoadInv, Merged, IsBody
  <2>2. IsFiniteSet(D)
    BY <2>1, TreesAssumption, FS_Subset
  <2> QED BY <2>1, <2>2, FS_CardinalityType
<1>2. \E s \in All : Is(s)
  <2>1. PICK n \in Nat \ {0} :
          \E s \in [1..n -> DOMAIN registry] : IsInjective(s) /\ Leads(s, n, c)
    BY DEF FlatInv, Chained
  <2>2. PICK s \in [1..n -> DOMAIN registry] : IsInjective(s) /\ Leads(s, n, c)
    BY <2>1
  <2>3. s \in [1..n -> D]
    BY DEF FlatInv, FlatTyped
  <2>4. n <= Cardinality(D)
    <3>1. s \in Injection(1..n, D)
      BY <2>2, <2>3 DEF Injection, IsInjective
    <3>2. Cardinality(1..n) <= Cardinality(D)
      BY <1>1, <3>1, FS_Injection
    <3>3. Cardinality(1..n) = n
      <4>1. 1 \in Int /\ n \in Int /\ ~(1 > n)
        OBVIOUS
      <4> QED BY <4>1, FS_Interval
    <3> QED BY <3>2, <3>3
  <2>5. Len(s) = n
    BY <2>3
  <2>6. n \in 1..Cardinality(D)
    BY <1>1, <2>4
  <2>7. s \in All
    BY <2>3, <2>6
  <2> QED BY <2>2, <2>5, <2>7 DEF Leads
<1>3. t \in All /\ Is(t)
  BY <1>2 DEF Chain
<1>4. PICK m \in 1..Cardinality(D) : t \in [1..m -> D]
  BY <1>3
<1> HIDE DEF t
<1>5. m \in Nat \ {0} /\ Len(t) = m
  BY <1>1, <1>4
<1>6. Leads(t, m, c)
  BY <1>3, <1>5 DEF Leads
<1> DEFINE S == {i \in Nat : i + 1 <= m => t[i + 1] \in DOMAIN registry}
<1>7. 0 \in S
  BY <1>6 DEF Leads
<1>8. ASSUME NEW i \in Nat, i \in S PROVE i + 1 \in S
  <2> SUFFICES ASSUME i + 1 + 1 <= m PROVE t[i + 1 + 1] \in DOMAIN registry
    OBVIOUS
  <2>1. /\ i + 1 \in 1..m - 1 /\ i + 1 + 1 \in 1..m /\ i + 1 <= m
    BY <1>5
  <2>2. t[i + 1] \in DOMAIN registry
    BY <1>8, <2>1
  <2>3. t[i + 1 + 1] = merged.caps[t[i + 1]].wraps
    BY <1>6, <2>1 DEF Leads
  <2>4. t[i + 1 + 1] # None
    BY <1>1, <1>4, <2>1, TreesAssumption
  <2> QED BY <2>2, <2>3, <2>4 DEF FlatInv, FlatForm
<1>9. \A i \in 1..m : t[i] \in DOMAIN registry
  <2> HIDE DEF S
  <2>1. Nat \subseteq S
    BY <1>7, <1>8, Induct
  <2> TAKE i \in 1..m
  <2>2. i - 1 \in Nat /\ i - 1 + 1 = i
    OBVIOUS
  <2>3. i - 1 + 1 <= m => t[i - 1 + 1] \in DOMAIN registry
    BY <2>1, <2>2 DEF S
  <2> QED BY <2>2, <2>3
<1>10. t \in [1..m -> DOMAIN registry]
  BY <1>4, <1>9
<1> QED BY <1>5, <1>6, <1>10 DEF t

\* A link of a chain wraps the next, and has been flattened after it.
LEMMA LinkForm ==
  ASSUME LoadInv, FlatInv, NEW m \in Nat \ {0}, NEW t \in [1..m -> DOMAIN registry], NEW c, Leads(t, m, c)
  PROVE  /\ registry[t[m]] = merged.caps[t[m]].site
         /\ \A i \in 1..m - 1 : registry[t[i]] = Layered(merged.caps[t[i]].site, registry[t[i + 1]])
<1>1. m \in 1..m /\ merged.caps[t[m]].wraps = None
  BY DEF Leads
<1>2. registry[t[m]] = merged.caps[t[m]].site
  BY <1>1 DEF FlatInv, FlatForm
<1>3. ASSUME NEW i \in 1..m - 1
      PROVE  registry[t[i]] = Layered(merged.caps[t[i]].site, registry[t[i + 1]])
  <2>1. i \in 1..m /\ i + 1 \in 1..m
    OBVIOUS
  <2>2. t[i + 1] = merged.caps[t[i]].wraps /\ t[i + 1] \in DOMAIN registry /\ t[i] \in DOMAIN registry
    BY <2>1 DEF Leads
  <2>3. t[i + 1] # None
    BY <2>2, TreesAssumption DEF LoadInv, Merged, IsBody, FlatInv, FlatTyped
  <2> QED BY <2>2, <2>3 DEF FlatInv, FlatForm
<1> QED BY <1>2, <1>3

\* What a wrapper takes of the one it wraps.
LEMMA LayeredForm ==
  \A x, p : /\ Layered(x, p).guards = p.guards \o x.guards
            /\ Layered(x, p).reliability = IF x.reliability = {} THEN p.reliability ELSE x.reliability
<1> TAKE x, p
<1>1. PICK y : y = Layered(x, p)
  OBVIOUS
<1>2. PICK e : e = Later(p.executor, x.executor)
  OBVIOUS
<1>3. PICK g : g = p.guards \o x.guards
  OBVIOUS
<1>4. PICK r : r = IF x.reliability = {} THEN p.reliability ELSE x.reliability
  OBVIOUS
<1>5. y = [executor |-> e, guards |-> g, reliability |-> r]
  BY <1>1, <1>2, <1>3, <1>4, SMT DEF Layered
<1>6. y.guards = g /\ y.reliability = r
  BY <1>5
<1> QED BY <1>1, <1>3, <1>4, <1>6, Zenon

-----------------------------------------------------------------------------
\* The guards of a flattened capability are those written along its chain.
LEMMA GuardsStack ==
  ASSUME LoadInv, FlatInv, NEW c \in DOMAIN registry
  PROVE  registry[c].guards = Stacked(c)
<1>1. PICK m \in Nat \ {0} : Chain(c) \in [1..m -> DOMAIN registry] /\ Leads(Chain(c), m, c)
  BY ChainFound
<1>2. PICK t : t = Chain(c)
  OBVIOUS
<1>3. t \in [1..m -> DOMAIN registry] /\ Leads(t, m, c)
  BY <1>1, <1>2
<1>4. DOMAIN t = 1..m /\ Len(t) = m
  BY <1>3
<1> DEFINE G(i) == merged.caps[t[m + 1 - i]].site.guards
           q == [i \in 1..m |-> G(i)]
           g == [i \in 1..m |-> registry[t[m + 1 - i]].guards]
<1>5. Stacked(c) = FlattenSeq(q)
  BY <1>2, <1>4 DEF Stacked
<1>6. g = [i \in 1..m |-> IF i = 1 THEN q[i] ELSE g[i - 1] \o q[i]]
  <2>1. ASSUME NEW i \in 1..m, i # 1
        PROVE  registry[t[m + 1 - i]].guards = g[i - 1] \o G(i)
    <3>1. PICK j \in 1..m - 1 : j = m + 1 - i
      BY <2>1
    <3>2. i - 1 \in 1..m /\ m + 1 - (i - 1) = j + 1 /\ j \in 1..m /\ j + 1 \in 1..m
      BY <2>1, <3>1
    <3>3. g[i - 1] = registry[t[j + 1]].guards
      BY <3>2
    <3>4. registry[t[j]] = Layered(merged.caps[t[j]].site, registry[t[j + 1]])
      BY <1>3, LinkForm
    <3>5. registry[t[j]].guards = registry[t[j + 1]].guards \o merged.caps[t[j]].site.guards
      BY <3>4, LayeredForm, Zenon
    <3> QED BY <3>1, <3>3, <3>5
  <2>2. registry[t[m + 1 - 1]].guards = G(1)
    <3>1. m + 1 - 1 = m
      OBVIOUS
    <3> QED BY <1>3, <3>1, LinkForm
  <2> HIDE DEF G
  <2>3. \A i \in 1..m : registry[t[m + 1 - i]].guards = IF i = 1 THEN G(i) ELSE g[i - 1] \o G(i)
    BY <2>1, <2>2
  <2>4. \A i \in 1..m : q[i] = G(i)
    OBVIOUS
  <2> HIDE DEF q
  <2>5. \A i \in 1..m : g[i] = IF i = 1 THEN q[i] ELSE g[i - 1] \o q[i]
    BY <2>3, <2>4
  <2>6. g = [i \in 1..m |-> g[i]]
    OBVIOUS
  <2> HIDE DEF g
  <2> QED BY <2>5, <2>6
<1>7. Len(q) = m /\ DOMAIN g = 1..m
  OBVIOUS
<1>8. g[m] = registry[c].guards
  <2>1. m \in 1..m /\ m + 1 - m = 1
    OBVIOUS
  <2> QED BY <1>3, <2>1 DEF Leads
<1> HIDE DEF q, g
<1>9. FlattenSeq(q) = g[m]
  BY <1>6, <1>7, FlattenOf
<1> QED BY <1>5, <1>8, <1>9

\* Its policy is the first one along the chain.
LEMMA PolicyNearest ==
  ASSUME LoadInv, FlatInv, NEW c \in DOMAIN registry, NEW own
  PROVE  Nearest(own, c) = IF own = {} THEN registry[c].reliability ELSE own
<1>1. PICK m \in Nat \ {0} : Chain(c) \in [1..m -> DOMAIN registry] /\ Leads(Chain(c), m, c)
  BY ChainFound
<1>2. PICK t : t = Chain(c)
  OBVIOUS
<1>3. t \in [1..m -> DOMAIN registry] /\ Leads(t, m, c) /\ DOMAIN t = 1..m
  BY <1>1, <1>2
<1> DEFINE R(j) == merged.caps[t[j]].site.reliability
           First(j, v) ==
             \/ v = {} /\ \A k \in j..m : R(k) = {}
             \/ \E k \in j..m : v = R(k) /\ v # {} /\ \A l \in j..k - 1 : R(l) = {}
           S == {i \in Nat : i < m => First(m - i, registry[t[m - i]].reliability)}
<1>4. /\ registry[t[m]].reliability = R(m)
      /\ \A j \in 1..m - 1 : registry[t[j]].reliability
           = IF R(j) = {} THEN registry[t[j + 1]].reliability ELSE R(j)
  <2>1. registry[t[m]].reliability = R(m)
    BY <1>3, LinkForm
  <2>2. ASSUME NEW j \in 1..m - 1
        PROVE  registry[t[j]].reliability
                 = IF R(j) = {} THEN registry[t[j + 1]].reliability ELSE R(j)
    <3>1. registry[t[j]] = Layered(merged.caps[t[j]].site, registry[t[j + 1]])
      BY <1>3, LinkForm
    <3> QED BY <3>1, LayeredForm, Zenon
  <2> QED BY <2>1, <2>2
<1> HIDE DEF R
<1>5. 0 \in S
  <2>1. m - 0 = m /\ m..m = {m} /\ m..m - 1 = {}
    OBVIOUS
  <2> QED BY <1>4, <2>1
<1>6. ASSUME NEW i \in Nat, i \in S PROVE i + 1 \in S
  <2> SUFFICES ASSUME i + 1 < m
               PROVE  First(m - (i + 1), registry[t[m - (i + 1)]].reliability)
    OBVIOUS
  <2>1. PICK j \in 1..m - 1 : j = m - (i + 1) /\ m - i = j + 1
    OBVIOUS
  <2>2. First(j + 1, registry[t[j + 1]].reliability)
    BY <1>6, <2>1
  <2>3. First(j, registry[t[j]].reliability)
    <3>1. CASE R(j) # {}
      <4>1. j \in j..m /\ j..j - 1 = {}
        OBVIOUS
      <4> QED BY <1>4, <3>1, <4>1
    <3>2. CASE R(j) = {}
      <4>1. \A k \in j..m : k = j \/ k \in j + 1..m
        OBVIOUS
      <4>2. CASE registry[t[j + 1]].reliability = {} /\ \A k \in j + 1..m : R(k) = {}
        BY <1>4, <3>2, <4>1, <4>2
      <4>3. CASE \E k \in j + 1..m : /\ registry[t[j + 1]].reliability = R(k)
                                      /\ registry[t[j + 1]].reliability # {}
                                      /\ \A l \in j + 1..k - 1 : R(l) = {}
        <5>1. PICK k \in j + 1..m : /\ registry[t[j + 1]].reliability = R(k)
                                    /\ registry[t[j + 1]].reliability # {}
                                    /\ \A l \in j + 1..k - 1 : R(l) = {}
          BY <4>3
        <5>2. k \in j..m /\ \A l \in j..k - 1 : l = j \/ l \in j + 1..k - 1
          OBVIOUS
        <5> QED BY <1>4, <3>2, <5>1, <5>2
      <4> QED BY <2>2, <4>2, <4>3
    <3> QED BY <3>1, <3>2
  <2> QED BY <2>1, <2>3
<1>7. First(1, registry[c].reliability)
  <2>1. m - 1 \in S
    <3> HIDE DEF S
    <3>1. Nat \subseteq S
      BY <1>5, <1>6, Induct
    <3> QED BY <3>1
  <2>2. m - 1 < m /\ m - (m - 1) = 1
    OBVIOUS
  <2>3. t[1] = c
    BY <1>3 DEF Leads
  <2> HIDE DEF First
  <2> QED BY <2>1, <2>2, <2>3
<1> DEFINE r == [i \in DOMAIN t |-> R(i)]
           s == <<own>> \o r
           Set == {i \in DOMAIN s : s[i] # {}}
<1>8. Nearest(own, c) = IF Set = {} THEN {} ELSE s[CHOOSE i \in Set : \A j \in Set : i <= j]
  BY <1>2 DEF Nearest, R
<1>9. DOMAIN s = 1..m + 1 /\ s[1] = own /\ \A i \in 1..m : s[i + 1] = R(i)
  <2>1. r \in Seq({R(i) : i \in 1..m}) /\ Len(r) = m
    BY <1>3
  <2>2. <<own>> \in Seq({own}) /\ Len(<<own>>) = 1
    OBVIOUS
  <2>3. r \in Seq({R(i) : i \in 1..m} \cup {own}) /\ <<own>> \in Seq({R(i) : i \in 1..m} \cup {own})
    BY <2>1, <2>2
  <2>4. \A i \in 1..m : r[i] = R(i)
    BY <1>3
  <2> HIDE DEF r
  <2>5. DOMAIN s = 1..m + 1 /\ s[1] = own /\ \A i \in 1..m : s[i + 1] = r[i]
    BY <2>1, <2>2, <2>3
  <2> QED BY <2>4, <2>5
<1> HIDE DEF s
<1>10. \A i \in Set : (\A j \in Set : i <= j) =>
         (CHOOSE k \in Set : \A j \in Set : k <= j) = i
  <2>1. \A i \in Set : i \in Nat
    BY <1>9
  <2> HIDE DEF Set
  <2>2. \A i, k \in Set : (\A j \in Set : i <= j) /\ (\A j \in Set : k <= j) => i = k
    BY <2>1
  <2> QED BY <2>2
<1>11. CASE own # {}
  <2>1. 1 \in Set /\ \A j \in Set : 1 <= j
    BY <1>9, <1>11
  <2> QED BY <1>8, <1>9, <1>10, <1>11, <2>1
<1>12. CASE own = {} /\ registry[c].reliability = {} /\ \A k \in 1..m : R(k) = {}
  <2>1. ASSUME NEW i \in 1..m + 1 PROVE s[i] = {}
    <3>1. i = 1 \/ (i - 1 \in 1..m /\ i - 1 + 1 = i)
      OBVIOUS
    <3> QED BY <1>9, <1>12, <3>1
  <2>2. Set = {}
    BY <1>9, <2>1
  <2> QED BY <1>8, <1>12, <2>2
<1>13. CASE own = {} /\ \E k \in 1..m : /\ registry[c].reliability = R(k) /\ R(k) # {}
                                       /\ \A l \in 1..k - 1 : R(l) = {}
  <2>1. PICK k \in 1..m : /\ registry[c].reliability = R(k) /\ R(k) # {}
                          /\ \A l \in 1..k - 1 : R(l) = {}
    BY <1>13
  <2>2. k + 1 \in 1..m + 1 /\ s[k + 1] = R(k) /\ k + 1 \in Set
    BY <1>9, <2>1
  <2>3. ASSUME NEW j \in Set PROVE k + 1 <= j
    <3>1. j \in 1..m + 1 /\ s[j] # {}
      BY <1>9
    <3>2. j # 1
      BY <1>9, <1>13, <3>1
    <3>3. j - 1 \in 1..m /\ s[j] = R(j - 1)
      <4>1. j - 1 \in 1..m /\ j - 1 + 1 = j
        BY <3>1, <3>2
      <4> QED BY <1>9, <4>1
    <3>4. j - 1 \notin 1..k - 1
      BY <2>1, <3>1, <3>3
    <3>5. /\ k \in Nat /\ j \in Nat /\ j - 1 \in Nat /\ j - 1 >= 1
      BY <3>1, <3>3
    <3>6. ~(j - 1 <= k - 1)
      BY <3>4, <3>5
    <3> QED BY <3>5, <3>6
  <2>4. (CHOOSE i \in Set : \A j \in Set : i <= j) = k + 1
    BY <1>10, <2>2, <2>3
  <2> QED BY <1>8, <1>13, <2>1, <2>2, <2>4
<1>14. \/ registry[c].reliability = {} /\ \A k \in 1..m : R(k) = {}
       \/ \E k \in 1..m : /\ registry[c].reliability = R(k) /\ R(k) # {}
                          /\ \A l \in 1..k - 1 : R(l) = {}
  BY <1>7
<1> QED BY <1>11, <1>12, <1>13, <1>14

-----------------------------------------------------------------------------
\* A site that refers to a flattened capability, rewritten.
LEMMA InlineForm ==
  \A x, c : /\ Inline(x, c).executor = registry[c].executor
            /\ Inline(x, c).guards = registry[c].guards \o x.guards
            /\ Inline(x, c).reliability
                 = IF x.reliability = {} THEN registry[c].reliability ELSE x.reliability
<1> TAKE x, c
<1>1. PICK p : p = registry[c]
  OBVIOUS
<1>2. PICK l : l = Layered(x, p)
  OBVIOUS
<1>3. PICK y : y = Inline(x, c)
  OBVIOUS
<1>4. y = [l EXCEPT !.executor = p.executor]
  BY <1>1, <1>2, <1>3 DEF Inline
<1>5. l = [executor |-> l.executor, guards |-> l.guards, reliability |-> l.reliability]
  <2>1. PICK e : e = Later(p.executor, x.executor)
    OBVIOUS
  <2>2. PICK g : g = p.guards \o x.guards
    OBVIOUS
  <2>3. PICK r : r = IF x.reliability = {} THEN p.reliability ELSE x.reliability
    OBVIOUS
  <2>4. l = [executor |-> e, guards |-> g, reliability |-> r]
    BY <1>2, <2>1, <2>2, <2>3, SMT DEF Layered
  <2> QED BY <2>4
<1>6. y.executor = p.executor /\ y.guards = l.guards /\ y.reliability = l.reliability
  BY <1>4, <1>5
<1>7. /\ l.guards = p.guards \o x.guards
      /\ l.reliability = IF x.reliability = {} THEN p.reliability ELSE x.reliability
  BY <1>2, LayeredForm, Zenon
<1> QED BY <1>1, <1>3, <1>6, <1>7, Zenon

\* Such a site runs what the capability runs, under its guards and its own.
LEMMA InlineRuns ==
  ASSUME LoadInv, FlatInv, NEW c \in DOMAIN registry, NEW x \in Sites
  PROVE  RunsAs(x, Inline(x, c), c)
<1>1. Stacked(c) = registry[c].guards
  BY GuardsStack
<1>2. registry[c].guards \in Seq(Guards) /\ x.guards \in Seq(Guards)
  BY DEF FlatInv, FlatTyped, Sites
<1>3. PICK a \in Seq(Guards) : a = registry[c].guards
  BY <1>2
<1>4. PICK b \in Seq(Guards) : b = x.guards
  BY <1>2
<1>5. a \o b \in Seq(Guards) /\ <<>> \in Seq(Guards) /\ <<>> \o (a \o b) = a \o b
  OBVIOUS
<1>6. IsSuffix(a \o b, a \o b)
  <2> PICK w \in Seq(Guards) : w = a \o b
    BY <1>5
  <2>1. IsSuffix(w, <<>> \o w)
    BY <1>5, SuffixOf
  <2>2. <<>> \o w = w
    OBVIOUS
  <2> QED BY <2>1, <2>2
<1>7. Inline(x, c).guards = registry[c].guards \o x.guards
  BY InlineForm
<1>8. IsSuffix(Stacked(c) \o x.guards, Inline(x, c).guards)
  BY <1>1, <1>3, <1>4, <1>6, <1>7, Zenon
<1>9. Inline(x, c).reliability = Nearest(x.reliability, c)
  BY PolicyNearest, InlineForm
<1>10. Inline(x, c).executor = registry[c].executor
  BY InlineForm
<1> QED BY <1>8, <1>9, <1>10 DEF RunsAs

\* The capabilities a configuration refers to have been flattened.
LEMMA ReferencesFound ==
  ASSUME LoadInv, References(merged) \subseteq DOMAIN registry
  PROVE  /\ \A i \in DOMAIN merged.expose :
              LET e == merged.expose[i]
              IN  /\ e.capability # None => e.capability \in DOMAIN registry
                  /\ IsRef(e.site.executor) => e.site.executor.capability \in DOMAIN registry
         /\ \A c \in DOMAIN merged.caps :
              LET x == merged.caps[c].site.executor
              IN  IsRef(x) => x.capability \in DOMAIN registry
         /\ \A s \in DOMAIN merged.workflow.states :
              \A n \in DOMAIN merged.workflow.states[s].transitions :
                LET x == merged.workflow.states[s].transitions[n].site.executor
                IN  IsRef(x) => x.capability \in DOMAIN registry
<1> DEFINE m == merged
           A == {e.site : e \in ToSet(m.expose)}
           B == {m.caps[c].site : c \in DOMAIN m.caps}
           C == UNION {{m.workflow.states[s].transitions[n].site :
                          n \in DOMAIN m.workflow.states[s].transitions} :
                        s \in DOMAIN m.workflow.states}
           E == {m.workflow.states[s].onEnter : s \in DOMAIN m.workflow.states} \ {None}
           sites == A \cup B \cup C \cup E
<1>1. References(m) = {x.executor.capability : x \in {y \in sites : IsRef(y.executor)}}
                        \cup ({e.capability : e \in ToSet(m.expose)} \ {None})
  BY DEF References
<1> HIDE DEF sites
<1>2. \A x \in sites : IsRef(x.executor) => x.executor.capability \in DOMAIN registry
  BY <1>1
<1>3. \A e \in ToSet(m.expose) : e.capability # None => e.capability \in DOMAIN registry
  BY <1>1
<1>4. \A i \in DOMAIN m.expose : m.expose[i] \in ToSet(m.expose)
  BY DEF ToSet
<1>5. \A i \in DOMAIN m.expose : m.expose[i].site \in sites
  BY <1>4 DEF sites
<1>6. \A c \in DOMAIN m.caps : m.caps[c].site \in sites
  BY DEF sites
<1>7. \A s \in DOMAIN m.workflow.states : \A n \in DOMAIN m.workflow.states[s].transitions :
        m.workflow.states[s].transitions[n].site \in sites
  BY DEF sites
<1> QED BY <1>2, <1>3, <1>4, <1>5, <1>6, <1>7

\* A transition that refers to a capability.
LEMMA TransitionRuns ==
  ASSUME LoadInv, FlatInv, ResolveInv, phase = "ready", NEW s \in DOMAIN def.states,
         NEW n \in DOMAIN def.states[s].transitions,
         NEW x, x = merged.workflow.states[s].transitions[n].site, IsRef(x.executor)
  PROVE  RunsAs(x, def.states[s].transitions[n].site, x.executor.capability)
<1>1. def = RewrittenWorkflow(merged.workflow) /\ References(merged) \subseteq DOMAIN registry
  BY DefTyped DEF ResolveInv
<1>2. IsDefinition(merged.workflow)
  BY DEF LoadInv, Merged, IsBody
<1>3. /\ s \in DOMAIN merged.workflow.states
      /\ n \in DOMAIN merged.workflow.states[s].transitions
      /\ def.states[s].transitions[n].site = Rewritten(x)
  <2>1. PICK w : w = merged.workflow
    OBVIOUS
  <2>2. PICK W : W = RewrittenWorkflow(w)
    OBVIOUS
  <2>3. IsDefinition(w)
    BY <1>2, <2>1
  <2>4. /\ DOMAIN W.states = DOMAIN w.states
        /\ \A r \in DOMAIN w.states :
             DOMAIN W.states[r].transitions = DOMAIN w.states[r].transitions
    BY <2>2, <2>3, RewrittenTyped
  <2>5. \A r \in DOMAIN w.states : \A o \in DOMAIN w.states[r].transitions :
          W.states[r].transitions[o].site = Rewritten(w.states[r].transitions[o].site)
    BY <2>2, <2>3, RewrittenTyped
  <2>6. def = W
    BY <1>1, <2>1, <2>2
  <2> QED BY <2>1, <2>4, <2>5, <2>6
<1>4. x \in Sites
  BY <1>2, <1>3 DEF IsDefinition
<1>5. x.executor.capability \in DOMAIN registry
  BY <1>1, <1>3, ReferencesFound
<1>6. Rewritten(x) = Inline(x, x.executor.capability)
  BY DEF Rewritten
<1> QED BY <1>3, <1>4, <1>5, <1>6, InlineRuns

\* An exposure that names one: where what comes in is a reference again, it is
\* looked up again, and more guards come before those that are there.
LEMMA ExposureRuns ==
  ASSUME LoadInv, FlatInv, References(merged) \subseteq DOMAIN registry,
         NEW i \in DOMAIN merged.expose, NEW e, e = merged.expose[i], e.capability # None
  PROVE  RunsAs(e.site, RewrittenExposure(e).site, e.capability)
<1>1. PICK c \in DOMAIN registry : c = e.capability
  BY ReferencesFound
<1>2. e = [name |-> e.name, capability |-> c, site |-> e.site] /\ e.site \in Sites
  BY <1>1 DEF LoadInv, Merged, IsBody, IsExposure, ToSet
<1>3. PICK x \in Sites : x = e.site
  BY <1>2
<1>4. PICK z : z = Inline(x, c)
  OBVIOUS
<1>5. RewrittenExposure(e).site = Rewritten(z)
  BY <1>1, <1>2, <1>3, <1>4 DEF RewrittenExposure
<1>6. RunsAs(x, z, c) /\ z.executor = registry[c].executor
  BY <1>4, InlineRuns, InlineForm
<1>7. CASE ~IsRef(registry[c].executor)
  BY <1>1, <1>3, <1>5, <1>6, <1>7 DEF Rewritten
<1>8. CASE IsRef(registry[c].executor)
  <2>1. PICK k : k = z.executor.capability
    OBVIOUS
  <2>2. k \in DOMAIN registry
    <3>1. PICK y \in DOMAIN merged.caps : registry[c].executor = merged.caps[y].site.executor
      BY DEF FlatInv, FlatForm
    <3> QED BY <1>6, <1>8, <2>1, <3>1, ReferencesFound
  <2>3. Rewritten(z) = Inline(z, k)
    BY <1>6, <1>8, <2>1 DEF Rewritten
  <2>4. registry[c].guards \in Seq(Guards) /\ registry[k].guards \in Seq(Guards) /\ x.guards \in Seq(Guards)
    BY <2>2 DEF FlatInv, FlatTyped, Sites
  <2>5. PICK a \in Seq(Guards) : a = registry[c].guards
    BY <2>4
  <2>6. PICK b \in Seq(Guards) : b = x.guards
    BY <2>4
  <2>7. PICK d \in Seq(Guards) : d = registry[k].guards
    BY <2>4
  <2>8. PICK w \in Seq(Guards) : w = a \o b
    <3>1. a \o b \in Seq(Guards)
      OBVIOUS
    <3> QED BY <3>1
  <2>9. IsSuffix(w, d \o w)
    BY SuffixOf
  <2>10. Stacked(c) \o x.guards = w
    BY <2>5, <2>6, <2>8, GuardsStack, Zenon
  <2>11. Inline(z, k).guards = d \o w
    <3>1. z.guards = registry[c].guards \o x.guards
      BY <1>4, InlineForm, Zenon
    <3>2. Inline(z, k).guards = registry[k].guards \o z.guards
      BY InlineForm, Zenon
    <3> QED BY <2>5, <2>6, <2>7, <2>8, <3>1, <3>2, Zenon
  <2>12. IsSuffix(Stacked(c) \o x.guards, Rewritten(z).guards)
    BY <2>3, <2>9, <2>10, <2>11, Zenon
  <2> QED BY <1>1, <1>3, <1>5, <1>8, <2>12 DEF RunsAs
<1> QED BY <1>7, <1>8

\* The transition of an exposure, when no other one and no tool has its name.
LEMMA ProxyFinds ==
  ASSUME LoadInv, ResolveInv, phase = "ready", NEW i \in DOMAIN merged.expose,
         NEW e, e = merged.expose[i],
         \A j \in DOMAIN merged.expose : merged.expose[j].name = e.name => j <= i,
         \A k \in DOMAIN Tools : Tools[k].name # e.name
  PROVE  proxy[e.name] = RewrittenExposure(e).site
<1>1. PICK x : x = config.expose
  OBVIOUS
<1>2. x = [j \in DOMAIN merged.expose |-> RewrittenExposure(merged.expose[j])]
  BY <1>1, ResolutionForm DEF ResolveInv
<1>3. PICK n \in Nat : DOMAIN merged.expose = 1..n
  <2>1. IsSequence(merged.expose)
    BY DEF LoadInv, Merged, IsBody
  <2> QED BY <2>1 DEF IsSequence
<1>4. \A j \in 1..n : x[j] = RewrittenExposure(merged.expose[j]) /\ x[j].name = merged.expose[j].name
  <2> TAKE j \in 1..n
  <2>1. IsExposure(merged.expose[j])
    BY <1>3 DEF LoadInv, Merged, IsBody, ToSet
  <2>2. RewrittenExposure(merged.expose[j]).name = merged.expose[j].name
    BY <2>1 DEF IsExposure, RewrittenExposure
  <2>3. x[j] = RewrittenExposure(merged.expose[j])
    BY <1>2, <1>3
  <2> QED BY <2>2, <2>3
<1>5. PICK all : all = x \o Tools
  OBVIOUS
<1>6. PICK m \in Nat : DOMAIN Tools = 1..m /\ Len(Tools) = m /\ IsSequence(Tools)
  BY TreesAssumption DEF IsSequence
<1>7. /\ DOMAIN all = 1..n + m
      /\ \A j \in 1..n : all[j] = x[j]
      /\ \A j \in 1..m : all[n + j] = Tools[j]
  <2>1. DOMAIN x = 1..n
    BY <1>2, <1>3
  <2>2. PICK S : S = {x[j] : j \in 1..n} \cup ToSet(Tools)
    OBVIOUS
  <2>3. x \in [1..n -> S]
    BY <1>2, <1>3, <2>1, <2>2
  <2>4. x \in Seq(S) /\ Len(x) = n
    BY <2>3
  <2>5. Tools \in Seq(S)
    <3>1. ToSet(Tools) \subseteq S
      BY <2>2
    <3>2. Tools \in Seq(ToSet(Tools))
      BY <1>6 DEF IsSequence
    <3> PICK T : T = ToSet(Tools)
      OBVIOUS
    <3>3. T \subseteq S /\ Tools \in Seq(T)
      BY <3>1, <3>2
    <3> QED BY <3>3
  <2> QED BY <1>5, <1>6, <2>4, <2>5
<1>8. i \in 1..n /\ i \in DOMAIN all /\ all[i].name = e.name /\ all[i] = RewrittenExposure(e)
  BY <1>3, <1>4, <1>7
<1>9. \A j \in DOMAIN all : all[j].name = e.name => j <= i
  <2> SUFFICES ASSUME NEW j \in 1..n + m, all[j].name = e.name PROVE j <= i
    BY <1>7
  <2>1. CASE j \in 1..n
    BY <1>3, <1>4, <1>7, <2>1
  <2>2. CASE j \notin 1..n
    <3>1. j - n \in 1..m /\ n + (j - n) = j
      BY <2>2
    <3>2. all[j] = Tools[j - n]
      BY <1>7, <3>1
    <3> QED BY <1>6, <3>1, <3>2
  <2> QED BY <2>1, <2>2
<1>10. \A k \in DOMAIN all : all[k].name = e.name
         /\ (\A j \in DOMAIN all : all[j].name = e.name => j <= k) => k = i
  <2> TAKE k \in DOMAIN all
  <2>1. k \in Nat /\ i \in Nat
    BY <1>7, <1>8
  <2> QED BY <1>8, <1>9, <2>1
<1>11. (CHOOSE k \in DOMAIN all : all[k].name = e.name
         /\ \A j \in DOMAIN all : all[j].name = e.name => j <= k) = i
  BY <1>8, <1>9, <1>10
<1>12. proxy = ProxyOf(all)
  BY <1>1, <1>5 DEF ResolveInv
<1>13. proxy[e.name] = all[i].site
  BY <1>8, <1>11, <1>12 DEF ProxyOf
<1> QED BY <1>8, <1>13

\* For every configuration, what names a capability is compiled with the guards of the
\* whole `wraps' chain before its own and with the nearest reliability policy,
\* however long the chain and in whatever order capabilities were flattened.
THEOREM PoliciesAreStacked == Spec => []PoliciesStack
<1>1. LoadInv /\ FlatInv /\ ResolveInv => PoliciesStack
  <2> SUFFICES ASSUME LoadInv, FlatInv, ResolveInv, phase = "ready" PROVE PoliciesStack
    BY DEF PoliciesStack
  <2>1. ASSUME NEW s \in DOMAIN def.states, NEW n \in DOMAIN def.states[s].transitions,
               NEW x, x = merged.workflow.states[s].transitions[n].site, IsRef(x.executor)
        PROVE  RunsAs(x, def.states[s].transitions[n].site, x.executor.capability)
    BY <2>1, TransitionRuns
  <2>2. References(merged) \subseteq DOMAIN registry
    BY DEF ResolveInv
  <2>3. ASSUME NEW i \in DOMAIN merged.expose, NEW e, e = merged.expose[i],
               e.capability # None,
               \A j \in DOMAIN merged.expose : merged.expose[j].name = e.name => j <= i,
               \A k \in DOMAIN Tools : Tools[k].name # e.name
        PROVE  RunsAs(e.site, proxy[e.name], e.capability)
    <3>1. RunsAs(e.site, RewrittenExposure(e).site, e.capability)
      BY <2>2, <2>3, ExposureRuns
    <3>2. proxy[e.name] = RewrittenExposure(e).site
      BY <2>3, ProxyFinds
    <3> QED BY <3>1, <3>2
  <2> QED BY <2>1, <2>3 DEF PoliciesStack
<1> QED BY <1>1, LoadInvHolds, FlatInvHolds, ResolveInvHolds, PTL

=============================================================================
