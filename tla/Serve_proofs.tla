---------------------------- MODULE Serve_proofs ----------------------------
(***************************************************************************)
(* Reloads leave the three components together and calls share clients,    *)
(* for any configurations, connections, calls and signals.                 *)
(***************************************************************************)
EXTENDS Serve, TLAPS

\* Replacing a build leaves a sequence of builds of the same length.
LEMMA Replaced ==
  ASSUME NEW S, NEW q \in Seq(S), NEW b \in 1..Len(q), NEW e \in S
  PROVE  /\ [q EXCEPT ![b] = e] \in Seq(S)
         /\ Len([q EXCEPT ![b] = e]) = Len(q)
         /\ \A a \in 1..Len(q) : [q EXCEPT ![b] = e][a] = IF a = b THEN e ELSE q[a]
OBVIOUS

\* One build more.
LEMMA Extended ==
  ASSUME NEW S, NEW q \in Seq(S), NEW e \in S
  PROVE  /\ Append(q, e) \in Seq(S)
         /\ Len(Append(q, e)) = Len(q) + 1
         /\ \A a \in 1..Len(q) : Append(q, e)[a] = q[a]
         /\ Append(q, e)[Len(q) + 1] = e
OBVIOUS

\* A member of a sequence.
LEMMA Members == ASSUME NEW S, NEW q \in Seq(S), NEW b \in 1..Len(q) PROVE q[b] \in S
OBVIOUS

\* The parts of a build.
LEMMA Parts ==
  ASSUME NEW e \in Builds
  PROVE  /\ e.config \in Configs /\ e.imported \subseteq Conns
         /\ \A k \in Conns : e.cache[k] \in Clients \cup {NoClient}
BY DEF Builds

\* No build at all.
LEMMA Nothing == <<>> \in Seq(Builds) /\ Len(<<>>) = 0 /\ 1..0 = {}
OBVIOUS

USE ServeAssumption

\* Points of a call that has its executors.
Bound == {"lookup", "spawn", "insert", "call"}

\* Where the three components stand in each phase.
Swapped ==
  /\ phase \in {"boot", "down"} =>
       builds = <<>> /\ definitions = 0 /\ executors = 0 /\ discovery = 0
  /\ phase \notin {"boot", "down"} => Latest > 0
  /\ phase = "import" =>
       /\ rule > 0
       /\ definitions + 1 = Latest /\ executors + 1 = Latest /\ discovery + 1 = Latest
  /\ phase = "executors" =>
       /\ Latest > 1
       /\ definitions = Latest /\ executors + 1 = Latest /\ discovery + 1 = Latest
  /\ phase = "discovery" =>
       /\ Latest > 1
       /\ definitions = Latest /\ executors = Latest /\ discovery + 1 = Latest
  /\ phase = "idle" =>
       definitions = Latest /\ executors = Latest /\ discovery = Latest

\* Where tools were imported the client is the importer's, and until a build is
\* swapped in its clients all are.
ByImporter ==
  /\ \A b \in 1..Latest : \A k \in builds[b].imported : builds[b].cache[k] = Importer
  /\ phase = "import" => \A k \in Conns : builds[Latest].cache[k] \in {NoClient, Importer}

\* What a call under way holds.
Holds ==
  \A c \in Calls :
    /\ pc[c] \notin {"new", "ended"} => executors > 0 /\ run[c].conn \in Conns
    /\ pc[c] \in Bound => run[c].exec \in 1..executors
    /\ pc[c] = "call" => run[c].client = Cached(c) /\ run[c].client # NoClient

ServeInv == TypeOK /\ Swapped /\ ByImporter /\ Holds

-----------------------------------------------------------------------------
\* A call that holds nothing.
LEMMA IdleRuns == [c \in Calls |-> Idle] \in [Calls -> Runs]
BY DEF Idle, Runs

LEMMA ServeInit == Init => ServeInv
<1> SUFFICES ASSUME Init PROVE ServeInv
  OBVIOUS
<1>1. builds \in Seq(Builds) /\ Latest = 0 /\ 1..Latest = {}
  BY Nothing DEF Init, Latest
<1>2. TypeOK
  <2>1. definitions \in 0..Latest /\ executors \in 0..Latest /\ discovery \in 0..Latest
    BY <1>1 DEF Init
  <2> QED BY <1>1, <2>1, IdleRuns DEF Init, TypeOK, Phases, Points
<1>3. Swapped /\ ByImporter
  BY <1>1 DEF Init, Swapped, ByImporter
<1>4. Holds
  BY DEF Init, Holds, Bound
<1> QED BY <1>2, <1>3, <1>4 DEF ServeInv

\* An empty build.
LEMMA NewBuild ==
  ASSUME NEW g \in Configs
  PROVE  [config |-> g, imported |-> {}, cache |-> [k \in Conns |-> NoClient]] \in Builds
BY DEF Builds

\* A build with one more client or import is a build.
LEMMA Grown ==
  \A b : builds[b] \in Builds =>
    \A k \in Conns, x \in Clients \cup {NoClient}, I \in SUBSET Conns :
      /\ With(b, k, x, I) \in Builds
      /\ With(b, k, x, I).imported = I
      /\ \A j \in Conns :
           With(b, k, x, I).cache[j] = IF j = k THEN x ELSE builds[b].cache[j]
BY DEF Builds, With

\* The end of the process.
LEMMA ExitKeeps == ASSUME ServeInv, Exit PROVE ServeInv'
<1>1. builds' \in Seq(Builds) /\ Latest' = 0 /\ (1..Latest)' = {}
  BY Nothing DEF Exit, Latest
<1>2. TypeOK'
  <2>1. /\ definitions' \in 0..Latest' /\ executors' \in 0..Latest'
        /\ discovery' \in 0..Latest'
    BY <1>1 DEF Exit
  <2> QED BY <1>1, <2>1, IdleRuns DEF ServeInv, TypeOK, Exit, Phases, Points
<1>3. Swapped' /\ ByImporter'
  BY <1>1 DEF Exit, Swapped, ByImporter
<1>4. Holds'
  BY DEF Exit, Holds, Bound
<1> QED BY <1>2, <1>3, <1>4 DEF ServeInv

\* A build is added while the three components are of the one before.
LEMMA BuildKeeps ==
  ASSUME ServeInv, NEW g \in Configs, Build(g),
         phase \in {"boot", "idle"},
         UNCHANGED <<disk, hung, components, hangups, pc, run>>, pending' \in BOOLEAN
  PROVE  ServeInv'
<1> DEFINE e == [config |-> g, imported |-> {}, cache |-> [k \in Conns |-> NoClient]]
<1>1. /\ builds \in Seq(Builds) /\ e \in Builds
      /\ builds' = Append(builds, e) /\ phase' = "import" /\ rule' = 1
  BY NewBuild DEF Build, ServeInv, TypeOK
<1>2. /\ builds' \in Seq(Builds) /\ Latest' = Latest + 1
      /\ \A a \in 1..Latest : builds'[a] = builds[a]
      /\ builds'[Latest + 1] = e
  BY <1>1, Extended DEF Latest
<1>3. Latest \in Nat /\ definitions = Latest /\ executors = Latest /\ discovery = Latest
  <2>1. Len(<<>>) = 0 /\ Len(builds) \in Nat
    BY <1>1
  <2> QED BY <2>1 DEF ServeInv, Swapped, Latest
<1>4. TypeOK'
  BY <1>1, <1>2, <1>3 DEF ServeInv, TypeOK, components, Phases, Latest
<1>5. Swapped'
  BY <1>1, <1>2, <1>3 DEF Swapped, components
<1>6. ByImporter'
  <2>1. \A b \in 1..(Latest + 1) : b \in 1..Latest \/ b = Latest + 1
    BY <1>3
  <2>2. e.imported = {} /\ \A k \in Conns : e.cache[k] = NoClient
    OBVIOUS
  <2> HIDE DEF e
  <2>3. \A b \in 1..(Latest + 1) : \A k \in builds'[b].imported :
          builds'[b].cache[k] = Importer
    BY <1>2, <2>1, <2>2 DEF ServeInv, ByImporter
  <2>4. \A k \in Conns : builds'[Latest'].cache[k] \in {NoClient, Importer}
    BY <1>2, <2>2
  <2> QED BY <1>2, <2>3, <2>4 DEF ByImporter
<1>7. Holds'
  <2>1. \A c \in Calls : pc[c] \in Bound => run[c].exec \in 1..Latest
    BY <1>3 DEF ServeInv, Holds
  <2> QED BY <1>2, <2>1 DEF ServeInv, Holds, Cached, components, Bound
<1> QED BY <1>4, <1>5, <1>6, <1>7 DEF ServeInv

\* An import block.
LEMMA ImportKeeps == ASSUME ServeInv, Import PROVE ServeInv'
<1> DEFINE b == Latest
           k == Imports[builds[b].config][rule]
<1>1. PICK connects \in BOOLEAN, lists \in BOOLEAN :
        /\ lists => connects \/ builds[b].cache[k] # NoClient
        /\ builds' = [builds EXCEPT
             ![b] = With(b, k, IF connects THEN Importer ELSE @.cache[k],
                         IF lists THEN @.imported \cup {k} ELSE @.imported)]
  BY DEF Import
<1>2. /\ b \in 1..Len(builds) /\ builds \in Seq(Builds) /\ builds[b] \in Builds
      /\ Latest \in Nat /\ executors + 1 = Latest
  <2>1. phase = "import" /\ builds \in Seq(Builds) /\ Latest > 0 /\ executors + 1 = Latest
    BY DEF Import, ServeInv, TypeOK, Swapped
  <2>2. Len(builds) \in Nat /\ b = Len(builds)
    BY <2>1 DEF Latest
  <2>3. b \in 1..Len(builds)
    BY <2>1, <2>2
  <2> QED BY <2>1, <2>2, <2>3, Members
<1>3. k \in Conns
  <2>1. Imports[builds[b].config] \in Seq(Conns)
    BY <1>2, Parts
  <2>2. rule \in 1..Len(Imports[builds[b].config])
    BY <2>1 DEF Import, ServeInv, TypeOK, Swapped
  <2> QED BY <2>1, <2>2, Members
<1> HIDE DEF k
<1> DEFINE x == IF connects THEN Importer ELSE builds[b].cache[k]
           I == IF lists THEN builds[b].imported \cup {k} ELSE builds[b].imported
           e == With(b, k, x, I)
<1>4. /\ e \in Builds /\ e.imported = I
      /\ \A j \in Conns : e.cache[j] = IF j = k THEN x ELSE builds[b].cache[j]
  <2>1. x \in Clients \cup {NoClient} /\ I \in SUBSET Conns
    <3>1. /\ builds[b].cache[k] \in Clients \cup {NoClient}
          /\ builds[b].imported \subseteq Conns
      BY <1>2, <1>3, Parts
    <3> QED BY <1>3, <3>1 DEF Clients
  <2>2. builds[b] \in Builds /\ k \in Conns
    BY <1>2, <1>3
  <2> HIDE DEF b, x, I
  <2>3. With(b, k, x, I) \in Builds
    BY <2>1, <2>2, Grown
  <2>4. With(b, k, x, I).imported = I
    BY <2>1, <2>2, Grown
  <2>5. \A j \in Conns : With(b, k, x, I).cache[j] = IF j = k THEN x ELSE builds[b].cache[j]
    BY <2>1, <2>2 DEF With, Builds
  <2> QED BY <2>3, <2>4, <2>5
<1>5. builds' = [builds EXCEPT ![b] = e]
  BY <1>1, <1>2
<1> HIDE DEF e
<1>6. /\ builds' \in Seq(Builds) /\ Latest' = Latest
      /\ \A a \in 1..Latest : builds'[a] = IF a = b THEN e ELSE builds[a]
  BY <1>2, <1>4, <1>5, Replaced DEF Latest
<1>7. /\ phase = "import" /\ phase' = phase /\ rule' = rule + 1
      /\ UNCHANGED <<disk, hung, components, signals, pc, run>>
  BY DEF Import
<1>8. TypeOK'
  BY <1>6, <1>7 DEF ServeInv, TypeOK, components, signals
<1>9. Swapped'
  BY <1>6, <1>7 DEF ServeInv, TypeOK, Swapped, components
<1>10. ByImporter'
  <2>1. /\ \A j \in Conns : e.cache[j] \in {NoClient, Importer}
        /\ \A j \in e.imported : e.cache[j] = Importer
    <3>1. builds[b].imported \subseteq Conns
      BY <1>2, Parts
    <3>2. \A j \in Conns : builds[b].cache[j] \in {NoClient, Importer}
      BY <1>7 DEF ServeInv, ByImporter
    <3>3. \A j \in builds[b].imported : builds[b].cache[j] = Importer
      BY <1>2 DEF ServeInv, ByImporter, Latest
    <3> QED BY <1>1, <1>3, <1>4, <3>1, <3>2, <3>3
  <2> QED BY <1>2, <1>6, <1>7, <2>1 DEF ServeInv, ByImporter
<1>11. Holds'
  <2>1. \A c \in Calls : pc[c] = "call" =>
          run[c].exec \in 1..Latest /\ run[c].exec # b
    <3>1. executors \in Nat
      BY <1>2 DEF ServeInv, TypeOK
    <3> QED BY <1>2, <3>1 DEF ServeInv, Holds, Bound
  <2>2. \A c \in Calls : pc[c] = "call" => Cached(c)' = Cached(c)
    BY <1>6, <1>7, <2>1 DEF Cached
  <2> QED BY <1>7, <2>2 DEF ServeInv, Holds, components
<1> QED BY <1>8, <1>9, <1>10, <1>11 DEF ServeInv

\* The first build is served, and later ones are swapped in.
LEMMA SwapKeeps ==
  ASSUME ServeInv, Serve \/ SwapDefinitions \/ SwapExecutors \/ SwapDiscovery
  PROVE  ServeInv'
<1>1. /\ UNCHANGED <<disk, hung, rule, builds, signals, pc, run>>
      /\ Latest' = Latest /\ Latest \in Nat /\ builds \in Seq(Builds)
      /\ definitions \in 0..Latest /\ executors \in 0..Latest /\ discovery \in 0..Latest
  <2>1. UNCHANGED <<disk, hung, rule, builds, signals, pc, run>>
    BY DEF Serve, SwapDefinitions, SwapExecutors, SwapDiscovery
  <2>2. builds \in Seq(Builds) => Len(builds) \in Nat
    OBVIOUS
  <2> QED BY <2>1, <2>2 DEF ServeInv, TypeOK, Latest
<1>2. /\ phase' \in Phases /\ phase' # "import" /\ Swapped'
      /\ definitions' \in 0..Latest /\ executors' \in 0..Latest /\ discovery' \in 0..Latest
      /\ executors' >= executors
  <2>1. CASE Serve
    BY <1>1, <2>1 DEF ServeInv, Swapped, Serve, Imported, Phases
  <2>2. CASE SwapDefinitions
    BY <1>1, <2>2 DEF ServeInv, Swapped, SwapDefinitions, Imported, Phases
  <2>3. CASE SwapExecutors
    BY <1>1, <2>3 DEF ServeInv, Swapped, SwapExecutors, Phases
  <2>4. CASE SwapDiscovery
    BY <1>1, <2>4 DEF ServeInv, Swapped, SwapDiscovery, Phases
  <2> QED BY <2>1, <2>2, <2>3, <2>4
<1>3. TypeOK'
  BY <1>1, <1>2 DEF ServeInv, TypeOK, signals
<1>4. ByImporter'
  BY <1>1, <1>2 DEF ServeInv, ByImporter
<1>5. Holds'
  <2>1. \A n \in 1..executors : n \in 1..executors'
    BY <1>1, <1>2
  <2>2. executors > 0 => executors' > 0
    BY <1>1, <1>2
  <2> QED BY <1>1, <2>1, <2>2 DEF ServeInv, Holds, Cached
<1> QED BY <1>2, <1>3, <1>4, <1>5 DEF ServeInv

\* A call moves and the builds stay.
LEMMA GotoKeeps ==
  ASSUME ServeInv, UNCHANGED builds,
         NEW c \in Calls, NEW point \in Points, NEW r \in Runs, Goto(c, point, r),
         point \notin {"new", "ended"} => executors > 0 /\ r.conn \in Conns,
         point \in Bound => r.exec \in 1..executors,
         point = "call" => r.client = builds[r.exec].cache[r.conn] /\ r.client # NoClient
  PROVE  ServeInv'
<1>1. /\ pc' = [pc EXCEPT ![c] = point] /\ run' = [run EXCEPT ![c] = r]
      /\ UNCHANGED <<disk, hung, phase, rule, builds, components, signals>>
      /\ pc \in [Calls -> Points] /\ run \in [Calls -> Runs] /\ Latest' = Latest
  BY DEF Goto, ServeInv, TypeOK, Latest
<1>2. TypeOK'
  BY <1>1 DEF ServeInv, TypeOK, components, signals
<1>3. Swapped' /\ ByImporter'
  BY <1>1 DEF ServeInv, Swapped, ByImporter, components
<1>4. Holds'
  <2> SUFFICES ASSUME NEW d \in Calls
      PROVE /\ pc'[d] \notin {"new", "ended"} => executors > 0 /\ run'[d].conn \in Conns
            /\ pc'[d] \in Bound => run'[d].exec \in 1..executors
            /\ pc'[d] = "call" =>
                 /\ run'[d].client = builds[run'[d].exec].cache[run'[d].conn]
                 /\ run'[d].client # NoClient
    BY <1>1 DEF Holds, Cached, components
  <2>1. CASE d = c
    BY <1>1, <2>1
  <2>2. CASE d # c
    BY <1>1, <2>2 DEF ServeInv, Holds, Cached
  <2> QED BY <2>1, <2>2
<1> QED BY <1>2, <1>3, <1>4 DEF ServeInv

\* A call goes through definitions, executors and the cache.
LEMMA BeginKeeps == ASSUME ServeInv, NEW c \in Calls, Begin(c) PROVE ServeInv'
<1>1. executors > 0 /\ run[c] \in Runs /\ Idle \in Runs /\ UNCHANGED builds
  BY DEF Begin, Serving, ServeInv, TypeOK, Swapped, Idle, Runs
<1>2. ASSUME NEW k \in Offered(definitions),
             Goto(c, "dispatch", [run[c] EXCEPT !.conn = k])
      PROVE  ServeInv'
  <2>1. k \in Conns
    <3>1. builds \in Seq(Builds) /\ definitions \in 1..Len(builds)
      <4>1. Len(builds) \in Nat
        BY DEF ServeInv, TypeOK
      <4>2. definitions > 0
        BY <1>1, <4>1 DEF Begin, Serving, ServeInv, TypeOK, Swapped, Phases, Latest
      <4> QED BY <4>1, <4>2 DEF ServeInv, TypeOK, Latest
    <3>2. builds[definitions] \in Builds
      BY <3>1, Members
    <3>3. builds[definitions].config \in Configs /\ builds[definitions].imported \subseteq Conns
      BY <3>2, Parts
    <3> QED BY <1>2, <3>3 DEF Offered
  <2> DEFINE r == [run[c] EXCEPT !.conn = k]
  <2>2. r \in Runs /\ r.conn = k
    BY <1>1, <2>1 DEF Runs
  <2> HIDE DEF r
  <2>3. Goto(c, "dispatch", r)
    BY <1>2 DEF r
  <2> QED BY <1>1, <2>1, <2>2, <2>3, GotoKeeps DEF Points, Bound
<1>3. CASE End(c)
  BY <1>1, <1>3, GotoKeeps DEF End, Points, Bound
<1> QED BY <1>2, <1>3 DEF Begin

LEMMA StepKeeps == ASSUME ServeInv, NEW c \in Calls, Step(c) PROVE ServeInv'
<1>1. /\ run[c] \in Runs /\ Idle \in Runs /\ pc[c] \in Points
      /\ pc[c] \notin {"new", "ended"} => executors > 0 /\ run[c].conn \in Conns
      /\ pc[c] \in Bound => run[c].exec \in 1..executors
      /\ Latest \in Nat /\ executors \in 0..Latest
  <2>1. builds \in Seq(Builds) => Len(builds) \in Nat
    OBVIOUS
  <2> QED BY <2>1 DEF ServeInv, TypeOK, Holds, Idle, Runs, Latest
<1>2. ASSUME End(c), UNCHANGED builds PROVE ServeInv'
  BY <1>1, <1>2, GotoKeeps DEF End, Points, Bound
<1>3. CASE Dispatch(c)
  <2> DEFINE r == [run[c] EXCEPT !.exec = executors]
  <2>1. /\ run[c].conn \in Conns /\ executors > 0 /\ executors \in Nat
        /\ executors \in 1..executors
    BY <1>1, <1>3 DEF Dispatch
  <2>2. r \in Runs /\ r.conn = run[c].conn /\ r.exec = executors
    BY <1>1, <2>1 DEF Runs
  <2>3. Goto(c, "lookup", r) /\ UNCHANGED builds
    BY <1>3 DEF Dispatch
  <2> HIDE DEF r
  <2> QED BY <2>1, <2>2, <2>3, GotoKeeps DEF Points, Bound
<1>4. CASE Lookup(c)
  <2>1. /\ UNCHANGED builds /\ pc[c] = "lookup"
        /\ run[c].exec \in 1..executors /\ run[c].conn \in Conns /\ executors > 0
    BY <1>1, <1>4 DEF Lookup, Bound
  <2>2. ASSUME Cached(c) # NoClient, Goto(c, "call", [run[c] EXCEPT !.client = Cached(c)])
        PROVE  ServeInv'
    <3> DEFINE r == [run[c] EXCEPT !.client = Cached(c)]
    <3>1. Cached(c) \in Clients \cup {NoClient}
      <4>1. builds \in Seq(Builds) /\ run[c].exec \in 1..Len(builds)
        BY <1>1, <2>1 DEF ServeInv, TypeOK, Latest
      <4>2. builds[run[c].exec] \in Builds
        BY <4>1, Members
      <4> QED BY <2>1, <4>2, Parts DEF Cached
    <3>2. r \in Runs /\ r.conn = run[c].conn /\ r.exec = run[c].exec /\ r.client = Cached(c)
      BY <1>1, <3>1 DEF Runs
    <3> HIDE DEF r
    <3>3. Goto(c, "call", r)
      BY <2>2 DEF r
    <3> QED BY <2>1, <2>2, <3>2, <3>3, GotoKeeps DEF Points, Bound, Cached
  <2>3. CASE Goto(c, "spawn", run[c])
    BY <1>1, <2>1, <2>3, GotoKeeps DEF Points, Bound
  <2> QED BY <1>2, <1>4, <2>1, <2>2, <2>3 DEF Lookup
<1>5. CASE Spawn(c)
  <2>1. UNCHANGED builds /\ pc[c] = "spawn"
    BY <1>5 DEF Spawn
  <2>2. CASE Goto(c, "insert", run[c])
    BY <1>1, <2>1, <2>2, GotoKeeps DEF Points, Bound
  <2> QED BY <1>2, <1>5, <2>1, <2>2 DEF Spawn
<1>6. CASE Insert(c)
  <2> DEFINE b == run[c].exec
             k == run[c].conn
             x == IF Cached(c) = NoClient THEN c ELSE Cached(c)
             I == builds[b].imported
             e == With(b, k, x, I)
             r == [run[c] EXCEPT !.client = x]
  <2>1. /\ b \in 1..Latest /\ k \in Conns /\ executors > 0 /\ b \in 1..executors
        /\ builds \in Seq(Builds) /\ b \in 1..Len(builds)
        /\ pc' = [pc EXCEPT ![c] = "call"] /\ run' = [run EXCEPT ![c] = r]
        /\ builds' = [builds EXCEPT ![b] = e]
        /\ UNCHANGED <<disk, hung, phase, rule, components, signals>>
    BY <1>1, <1>6 DEF Insert, Goto, Bound, ServeInv, TypeOK, Latest
  <2>2. builds[b] \in Builds
    BY <2>1, Members
  <2>3. /\ x \in Clients \cup {NoClient} /\ x # NoClient /\ I \in SUBSET Conns
        /\ Cached(c) = builds[b].cache[k]
        /\ Cached(c) # NoClient => x = Cached(c)
    BY <2>1, <2>2, Parts DEF Cached, Clients
  <2>4. r \in Runs /\ r.conn = k /\ r.exec = b /\ r.client = x
    BY <1>1, <2>3 DEF Runs
  <2> HIDE DEF b, k, x, I
  <2>5. /\ e \in Builds /\ e.imported = I
        /\ \A j \in Conns : e.cache[j] = IF j = k THEN x ELSE builds[b].cache[j]
    BY <2>1, <2>2, <2>3, Grown
  <2> HIDE DEF e, r
  <2>6. /\ builds' \in Seq(Builds) /\ Latest' = Latest
        /\ \A a \in 1..Latest : builds'[a] = IF a = b THEN e ELSE builds[a]
    BY <2>1, <2>5, Replaced DEF Latest
  <2>7. TypeOK'
    BY <2>1, <2>4, <2>6 DEF ServeInv, TypeOK, components, signals, Points
  <2>8. Swapped'
    BY <2>1, <2>6 DEF ServeInv, Swapped, components
  <2>9. \A a \in 1..Latest : \A j \in Conns :
          builds[a].cache[j] # NoClient => builds'[a].cache[j] = builds[a].cache[j]
    BY <2>3, <2>5, <2>6
  <2>10. ByImporter'
    <3>1. \A a \in 1..Latest : builds'[a].imported = builds[a].imported
      BY <2>5, <2>6 DEF I
    <3>2. \A a \in 1..Latest : builds[a].imported \subseteq Conns
      <4>1. \A a \in 1..Latest : builds[a] \in Builds
        BY <2>1, Members DEF Latest
      <4> QED BY <4>1, Parts
    <3>3. \A a \in 1..Latest : \A j \in builds'[a].imported : builds'[a].cache[j] = Importer
      <4> SUFFICES ASSUME NEW a \in 1..Latest, NEW j \in builds'[a].imported
                   PROVE  builds'[a].cache[j] = Importer
        OBVIOUS
      <4>1. j \in builds[a].imported /\ j \in Conns
        BY <3>1, <3>2
      <4>2. builds[a].cache[j] = Importer /\ Importer # NoClient
        BY <4>1 DEF ServeInv, ByImporter
      <4> QED BY <2>9, <4>1, <4>2
    <3>4. phase = "import" => b # Latest /\ Latest \in 1..Latest
      BY <1>1, <2>1 DEF ServeInv, Swapped
    <3>5. phase' = "import" =>
            \A j \in Conns : builds'[Latest].cache[j] \in {NoClient, Importer}
      BY <2>1, <2>6, <3>4 DEF ServeInv, ByImporter
    <3> QED BY <2>6, <3>3, <3>5 DEF ByImporter
  <2>11. Holds'
    <3> SUFFICES ASSUME NEW d \in Calls
        PROVE /\ pc'[d] \notin {"new", "ended"} => executors > 0 /\ run'[d].conn \in Conns
              /\ pc'[d] \in Bound => run'[d].exec \in 1..executors
              /\ pc'[d] = "call" =>
                   /\ run'[d].client = builds'[run'[d].exec].cache[run'[d].conn]
                   /\ run'[d].client # NoClient
      BY <2>1 DEF Holds, Cached, components
    <3>1. pc \in [Calls -> Points] /\ run \in [Calls -> Runs]
      BY DEF ServeInv, TypeOK
    <3>2. CASE d = c
      <4>1. pc'[d] = "call" /\ run'[d] = r
        BY <2>1, <3>1, <3>2
      <4> QED BY <2>1, <2>3, <2>4, <2>5, <2>6, <4>1
    <3>3. CASE d # c
      <4>1. pc'[d] = pc[d] /\ run'[d] = run[d]
        BY <2>1, <3>1, <3>3
      <4>2. pc[d] = "call" =>
              /\ run[d].exec \in 1..Latest /\ run[d].conn \in Conns
              /\ builds[run[d].exec].cache[run[d].conn] # NoClient
        BY <1>1 DEF ServeInv, Holds, Cached, Bound
      <4> QED BY <2>9, <4>1, <4>2 DEF ServeInv, Holds, Cached
    <3> QED BY <3>2, <3>3
  <2> QED BY <2>7, <2>8, <2>10, <2>11 DEF ServeInv
<1>7. CASE CallTool(c)
  BY <1>2, <1>7 DEF CallTool
<1> QED BY <1>3, <1>4, <1>5, <1>6, <1>7 DEF Step

-----------------------------------------------------------------------------
\* The file and the signals are nobody's business but the reload loop's.
LEMMA OthersKeep ==
  ASSUME ServeInv, disk' \in Configs \cup {Broken}, pending' \in BOOLEAN, hangups' \in Nat,
         UNCHANGED <<hung, phase, rule, builds, definitions, executors, discovery, pc, run>>
  PROVE  ServeInv'
BY DEF ServeInv, TypeOK, Swapped, ByImporter, Holds, Cached, Latest

LEMMA ServeStep == ServeInv /\ [Next]_vars => ServeInv'
<1> SUFFICES ASSUME ServeInv, [Next]_vars PROVE ServeInv'
  OBVIOUS
<1>1. CASE Boot
  <2>1. CASE disk = Broken
    BY <1>1, <2>1, ExitKeeps DEF Boot
  <2>2. CASE disk # Broken
    <3>1. disk \in Configs /\ Build(disk) /\ pending' \in BOOLEAN
      BY <1>1, <2>2 DEF Boot, ServeInv, TypeOK, signals
    <3> QED BY <1>1, <2>2, <3>1, BuildKeeps DEF Boot, signals
  <2> QED BY <2>1, <2>2
<1>2. CASE Hear
  <2>1. CASE disk = Broken
    <3>1. /\ UNCHANGED <<disk, hung, phase, rule, builds, hangups, pc, run>>
          /\ UNCHANGED <<definitions, executors, discovery>> /\ pending' = FALSE
      BY <1>2, <2>1 DEF Hear, components
    <3> QED BY <3>1, OthersKeep DEF ServeInv, TypeOK
  <2>2. CASE disk # Broken
    <3>1. disk \in Configs
      BY <2>2 DEF ServeInv, TypeOK
    <3> QED BY <1>2, <2>2, <3>1, BuildKeeps DEF Hear
  <2> QED BY <2>1, <2>2
<1>3. CASE Edit \/ Hangup \/ UNCHANGED vars
  <2>1. disk \in Configs \cup {Broken} /\ pending \in BOOLEAN /\ hangups \in Nat
    BY DEF ServeInv, TypeOK
  <2>2. CASE Edit
    BY <2>1, <2>2, OthersKeep DEF Edit, reloader, components, signals
  <2>3. CASE Hangup
    BY <2>1, <2>3, OthersKeep DEF Hangup, reloader, components
  <2>4. CASE UNCHANGED vars
    BY <2>1, <2>4, OthersKeep DEF vars, reloader, components, signals
  <2> QED BY <1>3, <2>2, <2>3, <2>4
<1> QED BY <1>1, <1>2, <1>3, ImportKeeps, SwapKeeps, BeginKeeps, StepKeeps, ExitKeeps
        DEF Next, Reload, Shutdown

\* Every variable keeps its type, whatever is configured, edited, signalled or called.
THEOREM ServeTyped == Spec => []TypeOK
<1>1. ServeInv => TypeOK
  BY DEF ServeInv
<1> QED BY <1>1, ServeInit, ServeStep, PTL DEF Spec

\* Between reloads definitions, executors and discovery are those of the last
\* configuration that loaded.
THEOREM ReloadsStayWhole == Spec => []ReloadsAreWhole
<1>1. ServeInv => ReloadsAreWhole
  BY DEF ServeInv, Swapped, ReloadsAreWhole
<1> QED BY <1>1, ServeInit, ServeStep, PTL DEF Spec

\* During a reload discovery is never ahead of the definitions, and the definitions
\* at most one build ahead of the executors.
THEOREM NeverHalfBehind == Spec => []NoHalfBehind
<1>1. ServeInv => NoHalfBehind
  <2> SUFFICES ASSUME ServeInv PROVE NoHalfBehind
    OBVIOUS
  <2>1. builds \in Seq(Builds) => Len(builds) \in Nat
    OBVIOUS
  <2>2. Latest \in Nat /\ phase \in Phases /\ Swapped
    BY <2>1 DEF ServeInv, TypeOK, Latest
  <2>3. definitions \in Nat /\ executors \in Nat /\ discovery \in Nat
    BY <2>2 DEF ServeInv, TypeOK
  <2> QED BY <2>2, <2>3 DEF Swapped, NoHalfBehind, Phases
<1> QED BY <1>1, ServeInit, ServeStep, PTL DEF Spec

\* Any number of calls that reach a connection through the same executors use one
\* client, the importer's where it imported.
THEOREM ClientsStayShared == Spec => []ClientsAreShared
<1>1. ServeInv => ClientsAreShared
  <2> SUFFICES ASSUME ServeInv, NEW c \in Calls, pc[c] = "call"
      PROVE  /\ run[c].client = Cached(c)
             /\ run[c].conn \in builds[run[c].exec].imported => run[c].client = Importer
    BY DEF ClientsAreShared
  <2>1. run[c].exec \in 1..executors /\ run[c].client = Cached(c)
    BY DEF ServeInv, Holds, Bound
  <2>2. run[c].exec \in 1..Latest
    <3>1. builds \in Seq(Builds) => Len(builds) \in Nat
      OBVIOUS
    <3> QED BY <2>1, <3>1 DEF ServeInv, TypeOK, Latest
  <2> QED BY <2>1, <2>2 DEF ServeInv, ByImporter, Cached
<1> QED BY <1>1, ServeInit, ServeStep, PTL DEF Spec
=============================================================================
