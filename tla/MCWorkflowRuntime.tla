-------------------------- MODULE MCWorkflowRuntime --------------------------
(***************************************************************************)
(* Instances of the runtime for TLC.  The definition "review" has a branch *)
(* into a deterministic chain, a human gate with an evidence quorum, a     *)
(* transition open only after the evidence and one open only before it,    *)
(* guards that read the arguments, an onEnter action, a choice of          *)
(* deterministic transitions and a cycle.  No timeoutMs bounds the         *)
(* executors of "make" and of the onEnter of "review".                     *)
(***************************************************************************)
EXTENDS WorkflowRuntime, TLC

MCStates == {"draft", "review", "build", "pack", "done"}
MCNames == {"go", "ok", "redo", "drop", "make", "fast", "slow"}

Plain == [from |-> "draft", name |-> "go", actor |-> "agent", accepts |-> Args,
          who |-> Principals, needs |-> {}, given |-> Args, quorum |-> NoEvidence,
          bans |-> {}, runs |-> FALSE, bounded |-> TRUE, output |-> {}, emits |-> {},
          target |-> "done", branches |-> <<>>]

ReviewFlow ==
  {[Plain EXCEPT !.accepts = {"good"}, !.runs = TRUE, !.output = {"risk"},
                 !.emits = {"scan"}, !.target = "review",
                 !.branches = <<[key |-> "risk", val |-> "low", target |-> "build"]>>],
   [Plain EXCEPT !.name = "drop", !.given = {"good"}, !.quorum = [k \in Kinds |-> 1]],
   [Plain EXCEPT !.from = "review", !.name = "ok", !.actor = "human",
                 !.quorum = [k \in Kinds |-> 1]],
   [Plain EXCEPT !.from = "review", !.name = "redo", !.given = {"good", "none"},
                 !.target = "draft"],
   [Plain EXCEPT !.from = "review", !.name = "drop", !.bans = {"scan"}],
   [Plain EXCEPT !.from = "build", !.name = "make", !.actor = "deterministic",
                 !.who = {"ann"}, !.runs = TRUE, !.bounded = FALSE, !.output = {"risk"},
                 !.emits = {"scan"}, !.target = "pack"],
   [Plain EXCEPT !.from = "pack", !.name = "fast", !.actor = "deterministic",
                 !.needs = {<<"risk", "low">>}],
   [Plain EXCEPT !.from = "pack", !.name = "slow", !.actor = "deterministic",
                 !.who = {"ann"}, !.target = "build"]}

Review ==
  [initialState |-> "draft", initialContext |-> [k \in Keys |-> NoVal],
   inputs |-> {"good"}, terminal |-> {"done"}, transitions |-> ReviewFlow,
   onEnter |-> {[state |-> "review", bounded |-> FALSE, output |-> {}, emits |-> {"scan"}]},
   timeoutMs |-> FALSE, onTimeout |-> {}, maxChainDepth |-> 2, byGuards |-> TRUE]

\* A shorter one for the runs with reloads and faults, without and with a deadline.
Short ==
  [Review EXCEPT !.transitions =
     {t \in ReviewFlow : t.name \in {"go", "redo"}}
       \cup {[t EXCEPT !.target = "done"] : t \in {u \in ReviewFlow : u.name = "make"}}]

\* Its initial state has an onEnter action too, which start runs after its create.
Timed ==
  [Short EXCEPT !.timeoutMs = TRUE, !.onTimeout = {"done"},
                !.onEnter = @ \cup {[state |-> "draft", bounded |-> TRUE, output |-> {}, emits |-> {}]}]

MCDefinitions ==
  [d \in Defs |-> CASE d = "review" -> Review [] d = "short" -> Short [] d = "timed" -> Timed]

Ask(op, name, who, args) == [op |-> op, name |-> name, who |-> who, args |-> args]

\* A start, and submits of two principals with good and bad arguments.
MCRequests ==
  {Ask("start", "go", "bot", "good"), Ask("get", "go", "ann", "good"),
   Ask("submit", "go", "bot", "good"), Ask("submit", "go", "ann", "good"),
   Ask("submit", "go", "bot", "bad"),
   Ask("submit", "ok", "ann", "good"), Ask("submit", "ok", "bot", "good"),
   Ask("submit", "redo", "bot", "good"), Ask("submit", "redo", "bot", "bad"),
   Ask("submit", "drop", "bot", "good"),
   Ask("submit", "make", "ann", "good")}

\* Fewer requests where reloads, deadlines and faults multiply the states.
FaultRequests ==
  {Ask("start", "go", "bot", "good"), Ask("get", "go", "ann", "good"),
   Ask("submit", "go", "bot", "good")}

LiveRequests ==
  {Ask("start", "go", "bot", "good"), Ask("submit", "go", "bot", "good")}

\* Calls are interchangeable: no definition picks one.
CallSymmetry == Permutations(Calls)
=============================================================================
