-------------------------------- MODULE Serve --------------------------------
(***************************************************************************)
(* The serving process: startup, reload on SIGHUP, and calls that run      *)
(* through definitions, executors and the cache of MCP clients meanwhile.  *)
(*                                                                         *)
(* Every load of the configuration builds definitions, executors and a     *)
(* discovery index anew, and connects to the MCP servers it imports tools  *)
(* from.  Builds are numbered; `definitions', `executors' and `discovery'  *)
(* are the numbers the three swappable components hold.                    *)
(***************************************************************************)
EXTENDS Naturals, Sequences

CONSTANTS
  Calls,        \* tool calls of the client
  Conns,        \* names of MCP connections
  Configs,      \* configurations that load
  Broken,       \* a file that does not load
  Connections,  \* the connections of kind mcp each configuration declares
  Uses,         \* those the executors of its workflows name
  Imports,      \* those its proxy.import blocks name, in order
  Importer, NoClient, NoConn,
  MayHang,      \* connections whose server may hang
  MaxHangups    \* bound on SIGHUPs

ASSUME ServeAssumption ==
  /\ Broken \notin Configs
  /\ Connections \in [Configs -> SUBSET Conns]
  /\ Uses \in [Configs -> SUBSET Conns]
  /\ Imports \in [Configs -> Seq(Conns)]
  /\ Importer \notin Calls /\ NoClient \notin Calls \cup {Importer}
  /\ NoConn \notin Conns /\ MayHang \subseteq Conns
  /\ MaxHangups \in Nat

VARIABLES
  disk,         \* the configuration file
  hung,         \* the connections whose server accepts a request and never answers
  phase,        \* where startup or the reload loop is
  rule,         \* the import block it is at
  builds,       \* what was built, one after the other
  definitions, executors, discovery,
  pending,      \* a SIGHUP not yet received by the loop
  hangups,      \* SIGHUPs so far
  pc,           \* where each call is
  run           \* its locals

components == <<definitions, executors, discovery>>
signals == <<pending, hangups>>
reloader == <<phase, rule, builds, components>>
vars == <<disk, hung, reloader, signals, pc, run>>

\* Who started a client: a call that found none cached, or the importer.
Clients == Calls \cup {Importer}

\* The configuration, the connections whose tools were imported, and the cache
\* of its MCP executor.
Builds ==
  [config : Configs, imported : SUBSET Conns, cache : [Conns -> Clients \cup {NoClient}]]

\* The build whose executors a call got, its connection and its client.
Runs ==
  [exec : Nat, conn : Conns \cup {NoConn}, client : Clients \cup {NoClient}]

Phases == {"boot", "import", "executors", "discovery", "idle", "down"}
Points == {"new", "dispatch", "lookup", "spawn", "insert", "call", "ended"}

-----------------------------------------------------------------------------
Latest == Len(builds)

Serving == executors # 0 /\ phase # "down"

\* A definition offers its own connections and the imported tools.
Offered(b) == Uses[builds[b].config] \cup builds[b].imported

Declared(b) == Connections[builds[b].config]

\* A build with a client in its cache and tools imported.
With(b, k, client, imported) ==
  [config |-> builds[b].config, imported |-> imported,
   cache |-> [builds[b].cache EXCEPT ![k] = client]]

Cached(c) == builds[run[c].exec].cache[run[c].conn]

Idle == [exec |-> 0, conn |-> NoConn, client |-> NoClient]

Goto(c, point, locals) ==
  /\ pc' = [pc EXCEPT ![c] = point]
  /\ run' = [run EXCEPT ![c] = locals]
  /\ UNCHANGED <<disk, hung, phase, rule, components, signals>>

\* A call returns: a result, an error or a refusal.
End(c) == Goto(c, "ended", Idle)

\* The process ends, and with it the calls in flight.
Exit ==
  /\ phase' = "down" /\ rule' = 0 /\ builds' = <<>>
  /\ definitions' = 0 /\ executors' = 0 /\ discovery' = 0
  /\ pending' = FALSE
  /\ run' = [c \in Calls |-> Idle]
  /\ pc' = [c \in Calls |-> IF pc[c] = "new" THEN "new" ELSE "ended"]
  /\ UNCHANGED <<disk, hung, hangups>>

Build(g) ==
  /\ builds' = Append(builds, [config |-> g, imported |-> {},
                               cache |-> [k \in Conns |-> NoClient]])
  /\ phase' = "import" /\ rule' = 1

-----------------------------------------------------------------------------
(***************************************************************************)
(* Startup and reload.                                                     *)
(***************************************************************************)
Boot ==
  /\ phase = "boot"
  /\ IF disk = Broken
     THEN Exit
     ELSE Build(disk) /\ UNCHANGED <<disk, hung, components, signals, pc, run>>

\* A SIGHUP is received; a file that does not load changes nothing.
Hear ==
  /\ phase = "idle" /\ pending
  /\ pending' = FALSE
  /\ IF disk = Broken THEN UNCHANGED <<phase, rule, builds>> ELSE Build(disk)
  /\ UNCHANGED <<disk, hung, components, hangups, pc, run>>

\* One import block: connect unless connected, then list the tools.  Failures
\* are skipped; a server that hangs is waited for.
Import ==
  LET b == Latest
      k == Imports[builds[b].config][rule]
  IN  /\ phase = "import" /\ rule <= Len(Imports[builds[b].config])
      /\ k \in Declared(b) => k \notin hung
      /\ \E connects, lists \in BOOLEAN :
           /\ connects => k \in Declared(b)
           /\ lists => connects \/ builds[b].cache[k] # NoClient
           /\ builds' = [builds EXCEPT ![b] =
                With(b, k, IF connects THEN Importer ELSE @.cache[k],
                     IF lists THEN @.imported \cup {k} ELSE @.imported)]
      /\ rule' = rule + 1
      /\ UNCHANGED <<disk, hung, phase, components, signals, pc, run>>

Imported == phase = "import" /\ rule > Len(Imports[builds[Latest].config])

\* The first build is served.
Serve ==
  /\ Imported /\ Latest = 1
  /\ definitions' = 1 /\ executors' = 1 /\ discovery' = 1
  /\ phase' = "idle"
  /\ UNCHANGED <<disk, hung, rule, builds, signals, pc, run>>

\* Mutant: the new definitions are given the next number.
SwapDefinitionsPast ==
  /\ Imported /\ Latest > 1
  /\ definitions' = Latest + 1
  /\ phase' = "executors"
  /\ UNCHANGED <<disk, hung, rule, builds, executors, discovery, signals, pc, run>>

\* Mutant: the index is swapped first.
SwapDiscoveryFirst ==
  /\ Imported /\ Latest > 1
  /\ discovery' = Latest
  /\ phase' = "executors"
  /\ UNCHANGED <<disk, hung, rule, builds, executors, definitions, signals, pc, run>>

\* Later ones are swapped in, one component after the other.
SwapDefinitions ==
  /\ Imported /\ Latest > 1
  /\ definitions' = Latest
  /\ phase' = "executors"
  /\ UNCHANGED <<disk, hung, rule, builds, executors, discovery, signals, pc, run>>

\* Mutant: the executors are left out.
SwapNoExecutors ==
  /\ phase = "executors"
  /\ phase' = "discovery"
  /\ UNCHANGED <<disk, hung, rule, builds, components, signals, pc, run>>

SwapExecutors ==
  /\ phase = "executors"
  /\ executors' = Latest
  /\ phase' = "discovery"
  /\ UNCHANGED <<disk, hung, rule, builds, definitions, discovery, signals, pc, run>>

\* Mutant: signals that came during the reload are thought served by it.
SwapDiscoveryForgets ==
  /\ phase = "discovery"
  /\ discovery' = Latest
  /\ phase' = "idle"
  /\ pending' = FALSE
  /\ UNCHANGED <<disk, hung, rule, builds, definitions, executors, hangups, pc, run>>

SwapDiscovery ==
  /\ phase = "discovery"
  /\ discovery' = Latest
  /\ phase' = "idle"
  /\ UNCHANGED <<disk, hung, rule, builds, definitions, executors, signals, pc, run>>

-----------------------------------------------------------------------------
(***************************************************************************)
(* What a tool call does with the three components and the client cache.   *)
(***************************************************************************)
\* start and submit load the definition; a start may be refused in a drain.
Begin(c) ==
  /\ pc[c] = "new" /\ Serving
  /\ \/ \E k \in Offered(definitions) : Goto(c, "dispatch", [run[c] EXCEPT !.conn = k])
     \/ End(c)
  /\ UNCHANGED builds

Dispatch(c) ==
  /\ pc[c] = "dispatch"
  /\ Goto(c, "lookup", [run[c] EXCEPT !.exec = executors])
  /\ UNCHANGED builds

\* Mutant: the cache stays locked while a client is started.
LookupLocked(c) ==
  /\ pc[c] = "lookup"
  /\ \A d \in Calls : pc[d] = "spawn" => run[d].exec # run[c].exec
  /\ \/ /\ Cached(c) # NoClient
        /\ Goto(c, "call", [run[c] EXCEPT !.client = Cached(c)])
     \/ /\ Cached(c) = NoClient /\ run[c].conn \in Declared(run[c].exec)
        /\ Goto(c, "spawn", run[c])
     \/ /\ Cached(c) = NoClient /\ run[c].conn \notin Declared(run[c].exec)
        /\ End(c)
  /\ UNCHANGED builds

\* client_for: the cache is read, and its lock released.
Lookup(c) ==
  /\ pc[c] = "lookup"
  /\ \/ /\ Cached(c) # NoClient
        /\ Goto(c, "call", [run[c] EXCEPT !.client = Cached(c)])
     \/ /\ Cached(c) = NoClient /\ run[c].conn \in Declared(run[c].exec)
        /\ Goto(c, "spawn", run[c])
     \/ /\ Cached(c) = NoClient /\ run[c].conn \notin Declared(run[c].exec)
        /\ End(c)
  /\ UNCHANGED builds

Spawn(c) ==
  /\ pc[c] = "spawn" /\ run[c].conn \notin hung
  /\ Goto(c, "insert", run[c]) \/ End(c)
  /\ UNCHANGED builds

\* Mutant: the last client started replaces the cached one.
InsertOver(c) ==
  /\ pc[c] = "insert"
  /\ builds' = [builds EXCEPT ![run[c].exec].cache[run[c].conn] = c]
  /\ Goto(c, "call", [run[c] EXCEPT !.client = c])

\* Who inserts second takes the cached client and drops its own.
Insert(c) ==
  LET client == IF Cached(c) = NoClient THEN c ELSE Cached(c)
  IN  /\ pc[c] = "insert"
      /\ builds' = [builds EXCEPT ![run[c].exec] =
                       With(run[c].exec, run[c].conn, client, @.imported)]
      /\ Goto(c, "call", [run[c] EXCEPT !.client = client])

CallTool(c) ==
  /\ pc[c] = "call" /\ run[c].conn \notin hung
  /\ End(c)
  /\ UNCHANGED builds

-----------------------------------------------------------------------------
(***************************************************************************)
(* The operator, the supervisor and the client.                            *)
(***************************************************************************)
Edit ==
  /\ phase # "down"
  /\ \E file \in Configs \cup {Broken} : disk' = file
  /\ UNCHANGED <<hung, reloader, signals, pc, run>>

Hangup ==
  /\ Serving /\ hangups < MaxHangups
  /\ pending' = TRUE
  /\ hangups' = hangups + 1
  /\ UNCHANGED <<disk, hung, reloader, pc, run>>

\* The process ends: the client closes the transport, the drain is over, or a signal
\* arrives that has no handler (SIGTERM at any time, SIGHUP before the process serves).
Shutdown == phase # "down" /\ Exit

-----------------------------------------------------------------------------
Init ==
  /\ disk \in Configs \cup {Broken} /\ hung \in SUBSET MayHang
  /\ phase = "boot" /\ rule = 0 /\ builds = <<>>
  /\ definitions = 0 /\ executors = 0 /\ discovery = 0
  /\ pending = FALSE /\ hangups = 0
  /\ pc = [c \in Calls |-> "new"]
  /\ run = [c \in Calls |-> Idle]

Reload == Hear \/ Import \/ SwapDefinitions \/ SwapExecutors \/ SwapDiscovery

Step(c) ==
  \/ Dispatch(c) \/ Lookup(c) \/ Spawn(c) \/ Insert(c) \/ CallTool(c)

Next ==
  \/ Boot \/ Serve \/ Reload
  \/ \E c \in Calls : Begin(c) \/ Step(c)
  \/ Edit \/ Hangup \/ Shutdown

Spec == Init /\ [][Next]_vars

\* The scheduler runs ready tasks.  Servers that do not hang answer.
FairSpec ==
  /\ Spec
  /\ WF_vars(Boot \/ Serve \/ Reload)
  /\ \A c \in Calls : WF_vars(Step(c))

-----------------------------------------------------------------------------
TypeOK ==
  /\ disk \in Configs \cup {Broken} /\ hung \subseteq Conns
  /\ phase \in Phases /\ rule \in Nat
  /\ builds \in Seq(Builds)
  /\ definitions \in 0..Latest /\ executors \in 0..Latest /\ discovery \in 0..Latest
  /\ pending \in BOOLEAN
  /\ hangups \in Nat
  /\ pc \in [Calls -> Points] /\ run \in [Calls -> Runs]

\* Between reloads the three components come from one build, the latest: a load
\* that failed, imports that failed and signals in between leave no mixture.
ReloadsAreWhole ==
  phase = "idle" => definitions = Latest /\ executors = Latest /\ discovery = Latest

\* In the middle of a reload what a search finds is no newer than the definitions
\* a start then loads, so its links can be followed (unless a later reload removed
\* them), and executors are at most one build behind the definitions.
NoHalfBehind == discovery <= definitions /\ definitions <= executors + 1

\* Calls that reach a connection through the same executors share one client,
\* the importer's where it imported, although several may have started one.
ClientsAreShared ==
  \A c \in Calls : pc[c] = "call" =>
    /\ run[c].client = Cached(c)
    /\ run[c].conn \in builds[run[c].exec].imported => run[c].client = Importer

\* A SIGHUP is never lost, not even in the middle of a reload: what the file
\* holds when it arrives is served, unless the file changes again or an import
\* hangs.
Answering == \A g \in Configs : \A i \in DOMAIN Imports[g] : Imports[g][i] \notin hung

LastHangupWins ==
  \A g \in Configs :
    pending /\ disk = g /\ Answering ~>
      \/ disk # g \/ phase = "down"
      \/ phase = "idle" /\ builds[definitions].config = g

\* A server that hangs keeps only the calls that use it: a call to another one
\* through the same executors ends.
OthersGoOn ==
  \A c \in Calls :
    pc[c] = "lookup" /\ run[c].conn \notin hung ~> pc[c] = "ended"
=============================================================================
