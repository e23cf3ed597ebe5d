---------------------------- MODULE Configuration ----------------------------
(***************************************************************************)
(* From configuration files to definitions: the walk over `include'        *)
(* (load_yaml), the flattening of `wraps' chains and the rewriting of      *)
(* capability references (resolve), the tools imported from MCP servers    *)
(* (with_imports), the compilation of proxy.expose (ConfigDefinitionStore) *)
(* and the checks of the result (Validation).                              *)
(*                                                                         *)
(* A document lists the files it includes and has a body: `capabilities' a *)
(* function on the names it defines, the array proxy.expose a sequence,    *)
(* one workflow.  A site is anything an executor is written in: a          *)
(* capability, an exposure, a transition or an onEnter action.  It has an  *)
(* executor, [kind |-> ...] or [capability |-> ...] or None, a sequence of *)
(* guards, which are tokens, and a reliability policy, the set of settings *)
(* it makes, empty where there is none.                                    *)
(***************************************************************************)
EXTENDS Validation, SequencesExt

CONSTANTS
  Files, Root,   \* configuration files, by canonical path, and the one named on the command line
  Caps,          \* names of capabilities, defined or not
  Executors, Guards, Settings,   \* what sites are written with
  Trees,         \* the contents the files may have
  Tools          \* the tools imported from servers, as exposures

Sites == [executor : Executors \cup {None}, guards : Seq(Guards), reliability : SUBSET Settings]

IsFunction(f) == f = [k \in DOMAIN f |-> f[k]]

IsSequence(s) == s \in Seq(ToSet(s))

IsCapability(d) ==
  d = [wraps |-> d.wraps, site |-> d.site] /\ d.wraps \in Caps \cup {None} /\ d.site \in Sites

IsExposure(e) ==
  /\ e = [name |-> e.name, capability |-> e.capability, site |-> e.site]
  /\ e.capability \in Caps \cup {None} /\ e.site \in Sites

IsDefinition(w) ==
  /\ w = [initialState |-> w.initialState, onTimeout |-> w.onTimeout,
          timeoutMs |-> w.timeoutMs, states |-> w.states]
  /\ IsWorkflow(w) /\ IsFunction(w.states)
  /\ \A s \in DOMAIN w.states :
       LET d == w.states[s]
       IN  /\ d = [terminal |-> d.terminal, onEnter |-> d.onEnter, transitions |-> d.transitions]
           /\ d.onEnter \in Sites \cup {None} /\ IsFunction(d.transitions)
           /\ \A n \in DOMAIN d.transitions :
                LET t == d.transitions[n]
                IN  t = [target |-> t.target, branches |-> t.branches, site |-> t.site]
                    /\ t.site \in Sites

IsBody(b) ==
  /\ b = [caps |-> b.caps, expose |-> b.expose, workflow |-> b.workflow]
  /\ IsFunction(b.caps) /\ DOMAIN b.caps \subseteq Caps
  /\ \A c \in DOMAIN b.caps : IsCapability(b.caps[c])
  /\ IsSequence(b.expose) /\ \A e \in ToSet(b.expose) : IsExposure(e)
  /\ IsDefinition(b.workflow)

ASSUME TreesAssumption ==
  /\ None \notin Sites \cup Executors \cup Caps /\ IsFiniteSet(Caps)
  /\ IsSequence(Tools) /\ \A e \in ToSet(Tools) : IsExposure(e)
  /\ \A tree \in Trees : \A f \in Files :
       /\ IsSequence(tree[f].include) /\ ToSet(tree[f].include) \subseteq Files
       /\ IsBody(tree[f].body)

VARIABLES
  disk,          \* [Files -> documents]
  phase,         \* "load", "flatten", "resolve", "compile", "ready" or "failed"
  stack,         \* the calls of load_yaml_inner under way
  visited,
  merged,        \* the configuration load_yaml returns
  order,         \* the files in the order their bodies were merged
  resolving,     \* the calls of flatten_one under way
  registry,      \* `resolved', the flattened capabilities
  config,        \* the configuration resolve returns
  proxy          \* the transitions of proxy_default

loader == <<stack, visited, merged, order>>
resolver == <<resolving, registry, config, proxy>>
vars == <<disk, phase, loader, resolver, def, validation>>

IsRef(x) == x # None /\ "capability" \in DOMAIN x

NoWorkflow ==
  [initialState |-> None, onTimeout |-> None, timeoutMs |-> FALSE, states |-> [s \in {} |-> None]]

NoBody == [caps |-> [c \in {} |-> None], expose |-> <<>>, workflow |-> NoWorkflow]

NoSite == [executor |-> None, guards |-> <<>>, reliability |-> {}]

-----------------------------------------------------------------------------
(***************************************************************************)
(* deep_merge(a, b): maps merge by key, arrays concatenate, of two scalars *)
(* the one of b stays.  An executor is a map too: merging `capability'     *)
(* into an inline one, or the reverse, leaves both keys, and a reference   *)
(* is what such a map is taken for.                                        *)
(***************************************************************************)
Later(a, b) == IF b = None THEN a ELSE b

LaterExecutor(a, b) == IF IsRef(a) /\ ~IsRef(b) THEN a ELSE Later(a, b)

\* The merge of partial functions whose common keys merge by Join.
MergeMaps(a, b, Join(_, _)) ==
  [k \in DOMAIN a \cup DOMAIN b |->
     IF k \notin DOMAIN a THEN b[k] ELSE IF k \notin DOMAIN b THEN a[k] ELSE Join(a[k], b[k])]

MergeSites(a, b) ==
  [executor |-> LaterExecutor(a.executor, b.executor), guards |-> a.guards \o b.guards,
   reliability |-> a.reliability \cup b.reliability]

MergeCaps(a, b) == [wraps |-> Later(a.wraps, b.wraps), site |-> MergeSites(a.site, b.site)]

MergeTransitions(a, b) ==
  [target |-> Later(a.target, b.target), branches |-> a.branches \cup b.branches,
   site |-> MergeSites(a.site, b.site)]

MergeEntries(a, b) == IF a = None THEN b ELSE IF b = None THEN a ELSE MergeSites(a, b)

\* No file says `terminal: false' of a state another one made terminal.
MergeStates(a, b) ==
  [terminal |-> a.terminal \/ b.terminal, onEnter |-> MergeEntries(a.onEnter, b.onEnter),
   transitions |-> MergeMaps(a.transitions, b.transitions, MergeTransitions)]

MergeWorkflows(a, b) ==
  [initialState |-> Later(a.initialState, b.initialState),
   onTimeout |-> Later(a.onTimeout, b.onTimeout), timeoutMs |-> a.timeoutMs \/ b.timeoutMs,
   states |-> MergeMaps(a.states, b.states, MergeStates)]

deep_merge(a, b) ==
  [caps |-> MergeMaps(a.caps, b.caps, MergeCaps), expose |-> a.expose \o b.expose,
   workflow |-> MergeWorkflows(a.workflow, b.workflow)]

-----------------------------------------------------------------------------
(***************************************************************************)
(* load_yaml: depth first, one set of visited files for the whole walk.    *)
(***************************************************************************)
Top == Last(stack)

Includes(f) == disk[f].include

\* The file the walk opens next.
Opens(f) ==
  /\ phase = "load"
  /\ IF stack = <<>> THEN f = Root
     ELSE Top.next <= Len(Includes(Top.file)) /\ f = Includes(Top.file)[Top.next]

OpenFile(f) ==
  /\ Opens(f) /\ f \notin visited /\ disk[f].readable
  /\ visited' = visited \cup {f}
  /\ stack' = Append(stack, [file |-> f, next |-> 1, merged |-> NoBody])
  /\ UNCHANGED <<disk, phase, merged, order, resolver, def, validation>>

\* A file that cannot be read or parsed, or one already visited, which is called a
\* cycle whether it is one or not.
Refuse(f) ==
  /\ Opens(f) /\ (f \in visited \/ ~disk[f].readable)
  /\ phase' = "failed"
  /\ UNCHANGED <<disk, loader, resolver, def, validation>>

\* The value of the file on top, merged into the one that includes it.
Close(result) ==
  /\ phase = "load" /\ stack # <<>> /\ Top.next > Len(Includes(Top.file))
  /\ order' = Append(order, Top.file)
  /\ IF Len(stack) = 1
     THEN merged' = result /\ phase' = "flatten" /\ stack' = <<>>
     ELSE /\ stack' = [i \in 1..Len(stack) - 1 |->
                         IF i < Len(stack) - 1 THEN stack[i]
                         ELSE [stack[i] EXCEPT !.next = @ + 1,
                                               !.merged = deep_merge(@, result)]]
          /\ UNCHANGED <<merged, phase>>
  /\ UNCHANGED <<disk, resolver, def, validation>>

\* Mutant: a file may be included again once it is closed.
CloseAndForget ==
  Close(deep_merge(Top.merged, disk[Top.file].body)) /\ visited' = visited \ {Top.file}

\* All includes are in: the file's own body goes on top of them.
CloseFile == Close(deep_merge(Top.merged, disk[Top.file].body)) /\ UNCHANGED visited

-----------------------------------------------------------------------------
(***************************************************************************)
(* resolve: flatten_capabilities calls flatten_one for every capability.   *)
(***************************************************************************)
\* What a wrapper and the one it wraps, flattened before it, come to.
Layered(own, parent) ==
  [executor |-> Later(parent.executor, own.executor), guards |-> parent.guards \o own.guards,
   reliability |-> IF own.reliability = {} THEN parent.reliability ELSE own.reliability]

\* The capability flatten_one is called with: any, or the one the last call wraps.
Flattens(c) ==
  /\ phase = "flatten" /\ c \notin DOMAIN registry
  /\ IF resolving = <<>> THEN c \in DOMAIN merged.caps
     ELSE c = merged.caps[Last(resolving)].wraps

BeginFlatten(c) ==
  /\ Flattens(c) /\ c \in DOMAIN merged.caps /\ c \notin ToSet(resolving)
  /\ resolving' = Append(resolving, c)
  /\ UNCHANGED <<disk, phase, loader, registry, config, proxy, def, validation>>

\* A `wraps' cycle, or a capability that is not defined.
RefuseFlatten(c) ==
  /\ Flattens(c) /\ (c \notin DOMAIN merged.caps \/ c \in ToSet(resolving))
  /\ phase' = "failed"
  /\ UNCHANGED <<disk, loader, resolver, def, validation>>

\* The last call returns its capability.
EndFlatten ==
  /\ phase = "flatten" /\ resolving # <<>>
  /\ LET c == Last(resolving)
         d == merged.caps[c]
     IN  /\ d.wraps # None => d.wraps \in DOMAIN registry
         /\ IF d.wraps = None /\ d.site.executor = None
            THEN phase' = "failed" /\ UNCHANGED <<resolving, registry>>
            ELSE /\ registry' = MergeMaps(registry,
                      [x \in {c} |-> IF d.wraps = None THEN d.site
                                     ELSE Layered(d.site, registry[d.wraps])], Later)
                 /\ resolving' = Front(resolving)
                 /\ UNCHANGED phase
  /\ UNCHANGED <<disk, loader, config, proxy, def, validation>>

EndFlattening ==
  /\ phase = "flatten" /\ resolving = <<>> /\ DOMAIN registry = DOMAIN merged.caps
  /\ phase' = "resolve"
  /\ UNCHANGED <<disk, loader, resolver, def, validation>>

-----------------------------------------------------------------------------
\* Mutant: the guards of a site replace those of the capability.
InlineOver(x, c) == IF x.guards = <<>> THEN Layered(x, registry[c])
                    ELSE [Layered(x, registry[c]) EXCEPT !.guards = x.guards]

\* A site that refers to capability c, rewritten: the executor of c, its guards
\* before those of the site, its policy unless the site has one.
Inline(x, c) ==
  [Layered(x, registry[c]) EXCEPT !.executor = registry[c].executor]

\* rewrite_executors_in_value: once per site, even when what comes in is a
\* reference again.
Rewritten(x) == IF IsRef(x.executor) THEN Inline(x, x.executor.capability) ELSE x

\* rewrite_exposure, then rewrite_executors_in_value on what it leaves.
RewrittenExposure(e) ==
  [e EXCEPT !.site = Rewritten(IF e.capability = None THEN @ ELSE Inline(@, e.capability)),
            !.capability = None]

RewrittenSteps(ts) == [n \in DOMAIN ts |-> [ts[n] EXCEPT !.site = Rewritten(@)]]

RewrittenState(d) ==
  [d EXCEPT !.onEnter = IF @ = None THEN None ELSE Rewritten(@), !.transitions = RewrittenSteps(@)]

RewrittenWorkflow(w) == [w EXCEPT !.states = [s \in DOMAIN @ |-> RewrittenState(@[s])]]

\* The references of a configuration: to be found in the registry, all of them.
References(m) ==
  LET sites == {e.site : e \in ToSet(m.expose)}
                 \cup {m.caps[c].site : c \in DOMAIN m.caps}
                 \cup (UNION {{m.workflow.states[s].transitions[n].site :
                                 n \in DOMAIN m.workflow.states[s].transitions} :
                               s \in DOMAIN m.workflow.states})
                 \cup ({m.workflow.states[s].onEnter : s \in DOMAIN m.workflow.states} \ {None})
  IN  {x.executor.capability : x \in {y \in sites : IsRef(y.executor)}}
        \cup ({e.capability : e \in ToSet(m.expose)} \ {None})

\* The rewriting passes.  A capability's executor that is itself a reference is
\* looked up again only where an exposure has brought it in.
Resolve ==
  /\ phase = "resolve"
  /\ IF References(merged) \subseteq DOMAIN registry
     THEN /\ config' = [NoBody EXCEPT !.expose = [i \in DOMAIN merged.expose |->
                                                    RewrittenExposure(merged.expose[i])],
                                      !.workflow = RewrittenWorkflow(merged.workflow)]
          /\ phase' = "compile"
     ELSE phase' = "failed" /\ UNCHANGED config
  /\ UNCHANGED <<disk, loader, resolving, registry, proxy, def, validation>>

\* with_imports puts the tools of the servers after the declared exposures;
\* compile_proxy_workflow makes each entry a transition, of the last one of a name.
\* The definitions are then those of the workflows and proxy_default.
Compile ==
  /\ phase = "compile"
  /\ LET all == config.expose \o Tools
         LastOf(n) == CHOOSE i \in DOMAIN all : all[i].name = n
                      /\ \A j \in DOMAIN all : all[j].name = n => j <= i
     IN  proxy' = [n \in {all[i].name : i \in DOMAIN all} |-> all[LastOf(n)].site]
  /\ def' = config.workflow
  /\ phase' = "ready"
  /\ UNCHANGED <<disk, loader, resolving, registry, config, validation>>

-----------------------------------------------------------------------------
Init ==
  /\ disk \in Trees /\ phase = "load"
  /\ stack = <<>> /\ visited = {} /\ merged = NoBody /\ order = <<>>
  /\ resolving = <<>> /\ registry = [c \in {} |-> NoSite] /\ config = NoBody
  /\ proxy = [n \in {} |-> NoSite]
  /\ def = None /\ InitValidation

Load == (\E f \in Files : OpenFile(f) \/ Refuse(f)) \/ CloseFile

Flatten == (\E c \in Caps : BeginFlatten(c) \/ RefuseFlatten(c)) \/ EndFlatten \/ EndFlattening

CheckAndWalk == (Check \/ Walk) /\ UNCHANGED <<disk, phase, loader, resolver>>

Next == Load \/ Flatten \/ Resolve \/ Compile \/ CheckAndWalk

Spec == Init /\ [][Next]_vars

-----------------------------------------------------------------------------
TypeOK ==
  /\ phase \in {"load", "flatten", "resolve", "compile", "ready", "failed"}
  /\ \A i \in DOMAIN stack : stack[i].file \in visited
  /\ visited \subseteq Files
  /\ ToSet(resolving) \subseteq DOMAIN merged.caps \ DOMAIN registry
  /\ DOMAIN registry \subseteq DOMAIN merged.caps
  /\ (phase = "ready" => IsWorkflow(def)) /\ (phase # "ready" => def = None)
  /\ ValidationTypeOK

Loaded == phase \notin {"load", "failed"}

\* The files a file stands for: itself and those it includes, directly or not.
Reach(f) ==
  LET Closed(S) == f \in S /\ \A g \in S : ToSet(Includes(g)) \subseteq S
  IN  {g \in Files : \A S \in SUBSET Files : Closed(S) => g \in S}

\* A configuration that loads is the deep merge of every file the command line's
\* file reaches, each of them once and each after the files it includes, so that
\* what a file says overrides what it includes and no guard of an included file is
\* lost or repeated: load_yaml_inner merges nested values, however they nest.
MergedInOrder ==
  Loaded =>
    /\ IsInjective(order) /\ ToSet(order) = Reach(Root)
    /\ \A i, j \in DOMAIN order : order[i] \in ToSet(Includes(order[j])) => i < j
    /\ merged = FoldLeft(deep_merge, NoBody, [i \in DOMAIN order |-> disk[order[i]].body])

\* The capabilities c is made of: itself, the one it wraps, and so on.
Chain(c) ==
  CHOOSE s \in UNION {[1..n -> DOMAIN merged.caps] : n \in 1..Cardinality(DOMAIN merged.caps)} :
    /\ s[1] = c /\ merged.caps[s[Len(s)]].wraps = None
    /\ \A i \in 1..Len(s) - 1 : s[i + 1] = merged.caps[s[i]].wraps

\* The guards written along the chain, those of the innermost capability first.
Stacked(c) ==
  LET s == Chain(c) IN FlattenSeq([i \in DOMAIN s |-> merged.caps[s[Len(s) + 1 - i]].site.guards])

\* The policy nearest to the site.
Nearest(own, c) ==
  LET s == <<own>> \o [i \in DOMAIN Chain(c) |-> merged.caps[Chain(c)[i]].site.reliability]
      Set == {i \in DOMAIN s : s[i] # {}}
  IN  IF Set = {} THEN {} ELSE s[CHOOSE i \in Set : \A j \in Set : i <= j]

\* x became y, and runs what c runs under every guard of c and its own.
RunsAs(x, y, c) ==
  /\ IsSuffix(Stacked(c) \o x.guards, y.guards)
  /\ ~IsRef(registry[c].executor) =>
       y.executor = registry[c].executor /\ y.reliability = Nearest(x.reliability, c)

\* An exposure or a transition that names a capability is compiled with the guards
\* of the whole `wraps' chain, innermost first, then its own, and with the nearest
\* reliability policy, in whatever order and from whatever file the capabilities
\* were flattened.  An exposure an imported tool has the name of is not compiled.
PoliciesStack ==
  phase = "ready" =>
    /\ \A s \in DOMAIN def.states : \A n \in DOMAIN def.states[s].transitions :
         LET x == merged.workflow.states[s].transitions[n].site
         IN  IsRef(x.executor) =>
               RunsAs(x, def.states[s].transitions[n].site, x.executor.capability)
    /\ \A i \in DOMAIN merged.expose :
         LET e == merged.expose[i]
         IN  /\ e.capability # None
             /\ \A j \in DOMAIN merged.expose : merged.expose[j].name = e.name => j <= i
             /\ \A k \in DOMAIN Tools : Tools[k].name # e.name
             => RunsAs(e.site, proxy[e.name], e.capability)

\* crates/mcp-flowgate/src/main.rs:652-654, "Doesn't touch declared exposures -
\* guards, reliability, etc. on those are preserved": with the imported tools in,
\* the transition of a declared exposure still has the guards declared for it.
DeclaredAreKept ==
  phase = "ready" =>
    \A i \in DOMAIN config.expose :
      LET e == config.expose[i]
      IN  (\A j \in DOMAIN config.expose : config.expose[j].name = e.name => j <= i) =>
            ToSet(e.site.guards) \subseteq ToSet(proxy[e.name].guards)
=============================================================================
