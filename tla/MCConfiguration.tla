---------------------------- MODULE MCConfiguration ----------------------------
(***************************************************************************)
(* Configurations for TLC: every include graph over three files that share *)
(* a capability and a state; every way three capabilities of one file wrap *)
(* and refer to each other, with all kinds of sites that use them; every   *)
(* workflow graph over three states of one file.                           *)
(***************************************************************************)
EXTENDS TLC, Configuration

MCFiles == {"main", "team", "base"}
MCCaps == {"raw", "safe", "audited"}
MCCapNames == MCCaps \cup {"missing"}
MCPlaces == {"open", "wait", "shut", "ghost"}

Ref(c) == [capability |-> c]
Run(k) == [kind |-> k]
MCExecutors == {Run(k) : k \in {"noop", "mcp", "cli", "rest"}} \cup {Ref(c) : c \in MCCapNames}
MCGuards == MCFiles \cup MCCaps
MCSettings == {"retry", "limit"}
Site(x, gs, rel) == [executor |-> x, guards |-> gs, reliability |-> rel]
Step(to, via, site) == [target |-> to, branches |-> via, site |-> site]
State(end, ts) == [terminal |-> end, onEnter |-> None, transitions |-> ts]
Plain == Site(Run("noop"), <<>>, {})

MCTools == <<[name |-> "scan", capability |-> None, site |-> Site(Run("mcp"), <<>>, {})]>>

-----------------------------------------------------------------------------
\* Include graphs: `raw' and the transition "go" are written in all three files, its
\* executor inline in "base", by reference in "team", and not in "main".
RawOf == [f \in MCFiles |->
  CASE f = "base" -> [wraps |-> None, site |-> Site(Run("cli"), <<"base">>, {"retry"})]
    [] f = "team" -> [wraps |-> None, site |-> Site(Run("rest"), <<"team">>, {})]
    [] f = "main" -> [wraps |-> None, site |-> Site(None, <<"main">>, {"limit"})]]

GoOf == [f \in MCFiles |->
  CASE f = "base" -> Step("shut", {}, Plain)
    [] f = "team" -> Step("open", {"shut"}, Site(Ref("raw"), <<"team">>, {}))
    [] f = "main" -> Step(None, {}, Site(None, <<>>, {}))]

ShareOf(f) ==
  [caps |-> [c \in {"raw"} |-> RawOf[f]],
   expose |-> <<[name |-> f, capability |-> "raw", site |-> NoSite]>>,
   workflow |-> [initialState |-> "open", onTimeout |-> None, timeoutMs |-> FALSE,
                 states |-> ("open" :> State(FALSE, "go" :> GoOf[f])) @@ ("shut" :> State(TRUE, <<>>))]]

IncludeTrees ==
  LET Lists == {<<>>} \cup {<<f>> : f \in MCFiles} \cup (MCFiles \X MCFiles)
  IN  {[f \in MCFiles |-> [readable |-> f # torn, include |-> lists[f], body |-> ShareOf(f)]] :
         lists \in [MCFiles -> Lists], torn \in {"none", "base"}}

-----------------------------------------------------------------------------
\* The file on its own: the others are empty.
Alone(body) ==
  [f \in MCFiles |-> [readable |-> TRUE, include |-> <<>>,
                      body |-> IF f = "main" THEN body ELSE NoBody]]

\* Capability graphs: what each wraps and whether its executor is its own, another
\* capability or inherited.
UsesOfCaps ==
  [expose |-> <<[name |-> "pay", capability |-> "audited", site |-> Site(None, <<"main">>, {})],
                [name |-> "scan", capability |-> "raw", site |-> NoSite],
                [name |-> "pay", capability |-> "safe", site |-> Site(None, <<"team">>, {"limit"})],
                [name |-> "sum", capability |-> None, site |-> Site(Ref("safe"), <<>>, {})]>>,
   workflow |->
     [initialState |-> "open", onTimeout |-> None, timeoutMs |-> FALSE,
      states |->
        ("open" :> State(FALSE, "go" :> Step("shut", {}, Site(Ref("audited"), <<"main">>, {}))))
          @@ ("shut" :> [State(TRUE, <<>>) EXCEPT !.onEnter = Site(Ref("safe"), <<>>, {})])]]

CapTrees ==
  {Alone([caps |-> [c \in MCCaps |->
                      [wraps |-> wraps[c],
                       site |-> Site(exec[c], <<c>>, IF c = "raw" THEN {"retry"} ELSE {})]],
          expose |-> UsesOfCaps.expose, workflow |-> UsesOfCaps.workflow]) :
     wraps \in [MCCaps -> MCCaps \cup {"missing", None}],
     exec \in [MCCaps -> {None, Run("cli"), Ref("raw")}]}

-----------------------------------------------------------------------------
\* Workflow graphs: a state has no transition, or one with a target, declared or
\* not or absent, and a branch or none; the rest of the definition varies with it.
MCStateDefs ==
  {State(end, <<>>) : end \in BOOLEAN}
    \cup {State(FALSE, "go" :> Step(to, via, Plain)) :
            to \in MCPlaces \cup {None}, via \in {{}, {"shut"}, {"ghost"}}}

Shut == {State(end, <<>>) : end \in BOOLEAN}
          \cup {State(FALSE, "go" :> Step(to, {}, Plain)) : to \in {"wait", "ghost"}}

GraphTrees ==
  {Alone([NoBody EXCEPT !.workflow =
            [initialState |-> first, onTimeout |-> last, timeoutMs |-> last = "wait",
             states |-> [s \in D |-> IF s = "shut" THEN end ELSE states[s]]]]) :
     first \in {"open", "ghost", None}, last \in {None, "wait", "ghost"},
     D \in {{"open", "shut"}, {"open", "wait", "shut"}},
     states \in [{"open", "wait"} -> MCStateDefs], end \in Shut}

MCTrees == IncludeTrees \cup CapTrees \cup GraphTrees
=============================================================================
