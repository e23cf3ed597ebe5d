------------------------ MODULE WorkflowCalls_proofs ------------------------
(***************************************************************************)
(* What one call does to the history, what it is answered and what the     *)
(* audit trail tells of it, for every value of the constants.              *)
(*                                                                         *)
(* The promises are about calls that are done, and say nothing of a call   *)
(* under way.  Four invariants say what they hold on the way, on top of    *)
(* TypeInv and HistoryInv: DeedInv, which commits a call has made at each  *)
(* of its points; WalkInv, which of them are chain steps and out of which  *)
(* states; TaleInv, which of them it has not reported yet; and LinksInv,   *)
(* what the links of an answer stand for.                                  *)
(*                                                                         *)
(* Each is one formula per call.  A step of another call leaves the        *)
(* commits of this one and their entries as they were (Still), so that     *)
(* only the call's own steps need work: those that commit nothing, and the *)
(* saves, which append the entry the call prepared.                        *)
(***************************************************************************)
EXTENDS WorkflowRuntime_proofs, FiniteSetTheorems

\* Points before the first commit of a call.
Early == {"admit", "create", "load", "define", "respond", "gate", "execute",
          "saveTimeout", "saveTransition"}

\* Points after it.
Late == {"evidence", "onEnter", "saveEnter", "entered", "chain", "saveChain", "finish"}

\* Where in the log a call's work begins, and the last version it has reached.
First(c) == IF req[c].op = "start" THEN 1 ELSE req[c].expected + 2

Latest(c) == IF pc[c] \in {"saveEnter", "saveChain"} THEN run[c].inst.version
                                                     ELSE run[c].inst.version + 1

\* Every version was committed by a call that names its workflow.
Owned == \A w \in Workflows : \A i \in DOMAIN log[w] :
           pc[log[w][i].by] # "idle" /\ req[log[w][i].by].wf = w

\* Which operation brings a call to an early point, and with which locals.
Purpose(c) ==
  /\ pc[c] \in {"admit", "create"} => req[c].op = "start"
  /\ pc[c] \in {"load", "define"} => req[c].op # "start"
  /\ pc[c] = "respond" => req[c].op = "get"
  /\ pc[c] \in {"gate", "execute", "saveTransition"} => req[c].op = "submit"
  /\ pc[c] \in {"execute", "saveTransition"} => run[c].via.name = req[c].name

\* An early call has committed nothing.
Untouched(c) == pc[c] \in Early => CommitsOf(c) = {}

\* How the i-th version of a call's work is committed.
Kind(c, i) ==
  IF i # First(c) THEN {"onEnter", "chain"}
  ELSE IF req[c].op = "start" THEN {"create"} ELSE {"transition"}

\* The commits of c: one run of versions, begun by the creation or by the transition
\* the request names.
Worked(c, last) ==
  /\ req[c].op # "get"
  /\ First(c) \in CommitsOf(c) /\ CommitsOf(c) = First(c)..last
  /\ \A i \in CommitsOf(c) : log[Wf(c)][i].how \in Kind(c, i)
  /\ req[c].op = "submit" => log[Wf(c)][First(c)].via.name = req[c].name

Underway(c) == pc[c] \in Late => Worked(c, Latest(c))

\* The three properties, of one call.
OnceOf(c) == Succeeded(c) =>
  LET mine == {i \in CommitsOf(c) : log[Wf(c)][i].how = "transition"}
  IN  /\ mine = {req[c].expected + 2}
      /\ \A i \in mine : log[Wf(c)][i].via.name = req[c].name

ContiguousOf(c) == \A i, j \in CommitsOf(c) : i..j \subseteq CommitsOf(c)

TracelessOf(c) == Answered(c) =>
  /\ reply[c].status = "rejected" \/ reply[c].code \notin {"none", "CHAIN_FAILED"}
       => CommitsOf(c) = {}
  /\ req[c].op = "get" =>
       \A i \in CommitsOf(c) : log[Wf(c)][i].how = "timeout"

Over(c) == pc[c] = "done" => OnceOf(c) /\ ContiguousOf(c) /\ TracelessOf(c)

Deed(c) == Purpose(c) /\ Untouched(c) /\ Underway(c) /\ Over(c)

DeedInv == Owned /\ \A c \in Calls : Deed(c)

-----------------------------------------------------------------------------
\* What a commit of call c adds to the commits of c, and not to those of another.
LEMMA Deposit ==
  ASSUME TypeInv, NEW c \in Calls, pc[c] \in {"create"} \cup Saving, req' = req,
         NEW how \in {"create", "transition", "chain", "onEnter", "timeout"},
         Committed(c, how)
  PROVE  /\ CommitsOf(c)' = CommitsOf(c) \cup {Len(log[Wf(c)]) + 1}
         /\ log'[Wf(c)][Len(log[Wf(c)]) + 1] = Entry(c, how)
         /\ \A i \in CommitsOf(c) : log'[Wf(c)][i] = log[Wf(c)][i]
         /\ Len(log[Wf(c)]) + 1 \notin CommitsOf(c)
         /\ \A b \in Calls : b # c /\ Wf(b) \in Workflows => CommitsOf(b)' = CommitsOf(b)
<1> DEFINE w == Wf(c)
           n == Len(log[w])
           f == Entry(c, how)
<1>1. /\ w \in Workflows /\ log[w] \in Seq(Commits) /\ log'[w] = Append(log[w], f)
      /\ log'[w][n + 1] = f /\ f \in Commits
      /\ \A x \in Workflows : x # w => log'[x] = log[x]
  BY CommitAppends
<1>2. f.by = c
  BY DEF Entry
<1> HIDE DEF f, w
<1>3. /\ DOMAIN log'[w] = DOMAIN log[w] \cup {n + 1} /\ n + 1 \notin DOMAIN log[w]
      /\ \A i \in DOMAIN log[w] : log'[w][i] = log[w][i]
  BY <1>1
<1>4. \A b \in Calls : Wf(b)' = Wf(b)
  BY DEF Wf
<1>5. CommitsOf(c)' = CommitsOf(c) \cup {n + 1}
  BY <1>1, <1>2, <1>3, <1>4 DEF CommitsOf, w
<1>6. n + 1 \notin CommitsOf(c) /\ \A i \in CommitsOf(c) : log'[w][i] = log[w][i]
  BY <1>3 DEF CommitsOf, w
<1>7. ASSUME NEW b \in Calls, b # c, Wf(b) \in Workflows PROVE CommitsOf(b)' = CommitsOf(b)
  <2>1. CASE Wf(b) = w
    BY <1>1, <1>2, <1>3, <1>4, <1>7, <2>1 DEF CommitsOf
  <2>2. CASE Wf(b) # w
    BY <1>1, <1>4, <1>7, <2>2 DEF CommitsOf
  <2> QED BY <2>1, <2>2
<1> QED BY <1>1, <1>5, <1>6, <1>7 DEF w, f

\* A step that leaves a call, its commits and their entries as they were.
Still(b) ==
  /\ pc'[b] = pc[b] /\ run'[b] = run[b] /\ req'[b] = req[b] /\ reply'[b] = reply[b]
  /\ CommitsOf(b)' = CommitsOf(b)
  /\ \A i \in CommitsOf(b) : log'[Wf(b)][i] = log[Wf(b)][i]

\* A call that is not idle names a workflow.
LEMMA Naming ==
  ASSUME TypeInv, NEW c \in Calls, pc[c] # "idle"
  PROVE  req[c] \in CallRequests /\ Wf(c) \in Workflows
BY DEF TypeInv, TypeOK, LocalsOK, Wf, CallRequests

\* A step of one call leaves every other still.
LEMMA OthersStill ==
  ASSUME TypeInv, HistoryInv, NEW c \in Calls, Step(c) \/ Fault(c),
         NEW b \in Calls, b # c, pc[b] # "idle"
  PROVE  Still(b)
<1>1. /\ pc'[b] = pc[b] /\ run'[b] = run[b] /\ req' = req /\ reply'[b] = reply[b]
      /\ Extends /\ Wf(b) \in Workflows
  BY StepFrame, Naming DEF Frame
<1>2. CommitsOf(b)' = CommitsOf(b)
  <2>1. CASE UNCHANGED <<store, log>>
    BY <1>1, <2>1 DEF CommitsOf, Wf
  <2>2. CASE ~UNCHANGED <<store, log>>
    <3>1. Step(c)
      BY <2>2 DEF Fault, shared
    <3>2. PICK how \in {"create", "transition", "chain", "onEnter", "timeout"} :
            pc[c] \in {"create"} \cup Saving /\ Committed(c, how)
      BY <2>2, <3>1, CallWrites DEF save_if_version, How, Saving
    <3> QED BY <1>1, <3>2, Deposit
  <2> QED BY <2>1, <2>2
<1> QED BY <1>1, <1>2 DEF Still, Extends, CommitsOf

\* A call that is left still keeps its invariant.
LEMMA StillKeeps ==
  ASSUME NEW b \in Calls, Deed(b), Still(b)
  PROVE  Deed(b)'
<1>1. /\ First(b)' = First(b) /\ Latest(b)' = Latest(b) /\ Wf(b)' = Wf(b)
      /\ \A i : Kind(b, i)' = Kind(b, i)
  BY DEF Still, First, Latest, Wf, Kind
<1>2. Purpose(b)' /\ Untouched(b)'
  BY DEF Deed, Purpose, Untouched, Still
<1>3. Underway(b)'
  <2> SUFFICES ASSUME pc[b] \in Late PROVE Worked(b, Latest(b))'
    BY DEF Underway, Still
  <2>1. Worked(b, Latest(b))
    BY DEF Deed, Underway
  <2> QED BY <1>1, <2>1 DEF Worked, Still
<1>4. Over(b)'
  <2> SUFFICES ASSUME pc[b] = "done" PROVE (OnceOf(b) /\ ContiguousOf(b) /\ TracelessOf(b))'
    BY DEF Over, Still
  <2>1. OnceOf(b) /\ ContiguousOf(b) /\ TracelessOf(b)
    BY DEF Deed, Over
  <2>2. (Answered(b) <=> Answered(b)') /\ (Succeeded(b) <=> Succeeded(b)')
    BY <1>1 DEF Answered, Succeeded, Still
  <2>3. OnceOf(b)'
    BY <1>1, <2>1, <2>2 DEF OnceOf, Still
  <2>4. ContiguousOf(b)' /\ TracelessOf(b)'
    BY <1>1, <2>1, <2>2 DEF ContiguousOf, TracelessOf, Still
  <2> QED BY <2>3, <2>4
<1> QED BY <1>2, <1>3, <1>4 DEF Deed

\* The versions of a call under way are natural numbers.
LEMMA BoundsType ==
  ASSUME TypeInv, NEW c \in Calls, pc[c] # "idle"
  PROVE  /\ First(c) \in Nat
         /\ pc[c] \in Late => Latest(c) \in Nat /\ run[c].inst.version \in Nat
<1>1. req[c].expected \in Nat
  BY Naming DEF CallRequests
<1>2. pc[c] \in Late => run[c].inst.version \in Nat
  BY Holding DEF Late, Settled, Saving, Instances
<1> QED BY <1>1, <1>2 DEF First, Latest

\* The commits of a call under way are contiguous.
LEMMA Partway ==
  ASSUME TypeInv, NEW c \in Calls, Deed(c), pc[c] \notin {"idle", "done"}
  PROVE  ContiguousOf(c)
<1>1. pc[c] \in Early \/ pc[c] \in Late
  BY DEF TypeInv, TypeOK, Points, Early, Late, Settled, Saving
<1>2. CASE pc[c] \in Early
  BY <1>2 DEF Deed, Untouched, ContiguousOf
<1>3. CASE pc[c] \in Late
  <2>1. CommitsOf(c) = First(c)..Latest(c)
    BY <1>3 DEF Deed, Underway, Worked
  <2>2. First(c) \in Nat /\ Latest(c) \in Nat
    BY <1>3, BoundsType
  <2> HIDE DEF First, Latest, CommitsOf
  <2>3. \A i, j \in First(c)..Latest(c) : i..j \subseteq First(c)..Latest(c)
    BY <2>2
  <2> QED BY <2>1, <2>3 DEF ContiguousOf
<1> QED BY <1>1, <1>2, <1>3

\* What a step that leaves the logs and the requests alone does to the commits of a
\* call: nothing.
LEMMA Steady ==
  ASSUME NEW c \in Calls, UNCHANGED log, req' = req
  PROVE  /\ CommitsOf(c)' = CommitsOf(c) /\ First(c)' = First(c) /\ Wf(c)' = Wf(c)
         /\ \A i : Kind(c, i)' = Kind(c, i)
BY DEF CommitsOf, First, Wf, Kind

\* The invariant of the call that steps, by where it goes.  First, the steps that
\* commit nothing: from an early point to another,
LEMMA EarlyMoves ==
  ASSUME NEW c \in Calls, Deed(c), pc[c] \in Early, pc'[c] \in Early, Purpose(c)',
         UNCHANGED log, req' = req
  PROVE  Deed(c)'
BY Steady DEF Deed, Untouched, Underway, Over, Early, Late

\* from a late point to another,
LEMMA LateMoves ==
  ASSUME NEW c \in Calls, Deed(c), pc[c] \in Late, pc'[c] \in Late,
         UNCHANGED log, req' = req, Latest(c)' = Latest(c)
  PROVE  Deed(c)'
<1>1. Worked(c, Latest(c))
  BY DEF Deed, Underway
<1>2. Worked(c, Latest(c))'
  BY <1>1, Steady DEF Worked
<1> QED BY <1>2 DEF Deed, Purpose, Untouched, Underway, Over, Early, Late

\* into an error,
LEMMA ErrorEnds ==
  ASSUME TypeInv, NEW c \in Calls, Deed(c), pc[c] \notin {"idle", "done"},
         pc'[c] = "done", reply'[c].status = "error", UNCHANGED log, req' = req
  PROVE  Deed(c)'
<1>1. ContiguousOf(c)'
  BY Partway, Steady DEF ContiguousOf
<1> QED BY <1>1 DEF Deed, Purpose, Untouched, Underway, Over, OnceOf, TracelessOf,
                    Succeeded, Answered, Early, Late

\* into the answer of a get or a refused submit,
LEMMA RefusalEnds ==
  ASSUME TypeInv, NEW c \in Calls, Deed(c), pc[c] \in Early, pc'[c] = "done",
         UNCHANGED log, req' = req, reply'[c].code # "none" \/ req[c].op # "submit"
  PROVE  Deed(c)'
<1>1. CommitsOf(c)' = {}
  BY Steady DEF Deed, Untouched
<1> QED BY <1>1 DEF Deed, Purpose, Untouched, Underway, Over, OnceOf, ContiguousOf, TracelessOf,
                    Succeeded, Early, Late

\* and into the answer of a call that did its work.
LEMMA WorkEnds ==
  ASSUME TypeInv, NEW c \in Calls, Deed(c), pc[c] \in Late, pc'[c] = "done",
         UNCHANGED log, req' = req, reply'[c].code \in {"none", "CHAIN_FAILED"},
         reply'[c].status # "rejected"
  PROVE  Deed(c)'
<1>1. Worked(c, Latest(c))
  BY DEF Deed, Underway
<1>2. ContiguousOf(c)'
  <2>1. pc[c] \notin {"idle", "done"}
    BY DEF Late
  <2> QED BY <2>1, Partway, Steady DEF ContiguousOf
<1>3. TracelessOf(c)'
  BY <1>1 DEF TracelessOf, Worked
<1>4. OnceOf(c)'
  <2> SUFFICES ASSUME req[c].op = "submit" PROVE OnceOf(c)'
    BY DEF OnceOf, Succeeded
  <2> DEFINE how(i) == log[Wf(c)][i].how
  <2>1. First(c) = req[c].expected + 2 /\ First(c) \in CommitsOf(c)
    BY <1>1 DEF First, Worked
  <2>2. /\ how(First(c)) = "transition"
        /\ \A i \in CommitsOf(c) : how(i) = "transition" => i = First(c)
    BY <1>1, <2>1 DEF Worked, Kind
  <2>3. log[Wf(c)][First(c)].via.name = req[c].name
    BY <1>1 DEF Worked
  <2>4. {i \in CommitsOf(c) : how(i) = "transition"} = {First(c)}
    BY <2>1, <2>2
  <2>5. CommitsOf(c)' = CommitsOf(c) /\ Wf(c)' = Wf(c)
    BY Steady
  <2> QED BY <2>1, <2>3, <2>4, <2>5 DEF OnceOf
<1> QED BY <1>2, <1>3, <1>4 DEF Deed, Purpose, Untouched, Underway, Over, Early, Late

\* Then the steps that commit.  The first commit of a call: its creation or the
\* transition it names.
LEMMA FirstCommit ==
  ASSUME TypeInv, NEW c \in Calls, Deed(c), pc[c] \in {"create", "saveTransition"},
         NEW how \in {"create", "transition"}, Committed(c, how),
         how = "create" <=> pc[c] = "create", Len(log[Wf(c)]) + 1 = First(c),
         run[c].inst.version + 1 = First(c), req' = req,
         run'[c].inst = run[c].inst, pc'[c] \in {"evidence", "onEnter"}
  PROVE  Deed(c)'
<1>1. /\ CommitsOf(c)' = CommitsOf(c) \cup {First(c)}
      /\ log'[Wf(c)][First(c)] = Entry(c, how)
  BY Deposit DEF Saving
<1>2. CommitsOf(c)' = {First(c)} /\ First(c)' = First(c) /\ Wf(c)' = Wf(c) /\ First(c) \in Nat
  BY <1>1, BoundsType DEF Deed, Untouched, Early, First, Wf
<1>3. Latest(c)' = First(c)
  BY DEF Latest
<1>4. /\ pc[c] = "create" => req[c].op = "start"
      /\ pc[c] = "saveTransition" => req[c].op = "submit" /\ run[c].via.name = req[c].name
  BY DEF Deed, Purpose
<1>5. Worked(c, Latest(c))'
  <2>1. CommitsOf(c)' = First(c)'..Latest(c)'
    BY <1>2, <1>3
  <2>2. \A i \in CommitsOf(c)' : log'[Wf(c)'][i].how \in Kind(c, i)'
    BY <1>1, <1>2, <1>4 DEF Kind, Entry
  <2>3. req'[c].op = "submit" => log'[Wf(c)'][First(c)'].via.name = req'[c].name
    BY <1>1, <1>2, <1>4 DEF Entry
  <2> QED BY <1>2, <1>4, <2>1, <2>2, <2>3 DEF Worked
<1> QED BY <1>5 DEF Deed, Purpose, Untouched, Underway, Over, Early, Late

\* A later one: it finds the call's latest version in the store.
LEMMA LaterCommit ==
  ASSUME TypeInv, HistoryInv, NEW c \in Calls, Deed(c), pc[c] \in {"saveEnter", "saveChain"},
         save_if_version(c, run[c].inst.version - 1, How(pc[c])), req' = req,
         run'[c].inst = run[c].inst, pc'[c] \in {"evidence", "entered"}
  PROVE  Deed(c)'
<1> DEFINE n == run[c].inst.version
<1>1. Committed(c, How(pc[c])) /\ How(pc[c]) \in {"onEnter", "chain"}
  BY DEF save_if_version, How
<1>2. Len(log[Wf(c)]) = n
  BY SaveHistory DEF Saving
<1>3. /\ CommitsOf(c)' = CommitsOf(c) \cup {n + 1}
      /\ log'[Wf(c)][n + 1] = Entry(c, How(pc[c]))
      /\ \A i \in CommitsOf(c) : log'[Wf(c)][i] = log[Wf(c)][i]
  BY <1>1, <1>2, Deposit DEF Saving
<1>4. Worked(c, n) /\ First(c) \in Nat /\ n \in Nat
  BY BoundsType DEF Deed, Underway, Latest, Late
<1>5. /\ First(c)' = First(c) /\ Wf(c)' = Wf(c) /\ Latest(c)' = n + 1
      /\ \A i : Kind(c, i)' = Kind(c, i)
  BY DEF First, Latest, Wf, Kind
<1> HIDE DEF n, First, Latest, CommitsOf, Kind
<1>6. CommitsOf(c) = First(c)..n /\ First(c) \in CommitsOf(c)
  BY <1>4 DEF Worked
<1>7. CommitsOf(c)' = First(c)..(n + 1) /\ First(c) \in CommitsOf(c)' /\ n + 1 # First(c)
  BY <1>3, <1>4, <1>6
<1>8. ASSUME NEW i \in CommitsOf(c)' PROVE log'[Wf(c)][i].how \in Kind(c, i)
  <2>1. CASE i = n + 1
    BY <1>1, <1>3, <1>7, <2>1 DEF Entry, Kind
  <2>2. CASE i \in CommitsOf(c)
    BY <1>3, <1>4, <2>2 DEF Worked
  <2> QED BY <1>3, <2>1, <2>2
<1>9. Worked(c, Latest(c))'
  BY <1>3, <1>4, <1>5, <1>6, <1>7, <1>8 DEF Worked
<1> QED BY <1>9 DEF Deed, Purpose, Untouched, Underway, Over, Early, Late

\* The timeout, which is the only commit of its call.
LEMMA TimeoutCommit ==
  ASSUME TypeInv, NEW c \in Calls, Deed(c), pc[c] = "saveTimeout",
         Committed(c, "timeout"), req' = req, pc'[c] = "done",
         reply'[c].code = "none", reply'[c].status # "rejected"
  PROVE  Deed(c)'
<1> DEFINE n == Len(log[Wf(c)]) + 1
<1>1. /\ CommitsOf(c)' = CommitsOf(c) \cup {n} /\ log'[Wf(c)][n] = Entry(c, "timeout")
      /\ Wf(c)' = Wf(c) /\ log[Wf(c)] \in Seq(Commits)
  BY Deposit, CommitAppends DEF Saving, Wf
<1>2. n \in Nat
  BY <1>1
<1> HIDE DEF n
<1>3. CommitsOf(c)' = {n} /\ log'[Wf(c)'][n].how = "timeout"
  BY <1>1 DEF Deed, Untouched, Early, Entry
<1>4. ContiguousOf(c)'
  BY <1>2, <1>3 DEF ContiguousOf
<1>5. ~Succeeded(c)' /\ TracelessOf(c)'
  BY <1>3 DEF Succeeded, TracelessOf
<1> QED BY <1>4, <1>5 DEF Deed, Purpose, Untouched, Underway, Over, OnceOf, Early, Late

-----------------------------------------------------------------------------
\* What a log holds are commits.
LEMMA EntryType ==
  ASSUME TypeInv, NEW w \in Workflows, NEW i \in DOMAIN log[w]
  PROVE  log[w][i] \in Commits /\ log[w][i].by \in Calls /\ i \in Nat \ {0}
<1>1. log[w] \in Seq(Commits)
  BY DEF TypeInv, TypeOK
<1>2. log[w][i] \in Commits /\ i \in Nat \ {0}
  BY <1>1
<1> QED BY <1>2 DEF Commits

\* A step keeps every version owned: the call that commits one names its workflow.
LEMMA OwnedStep ==
  ASSUME TypeInv, HistoryInv, Owned, [Next]_vars
  PROVE  Owned'
<1>0. \A b \in Calls : pc[b] # "idle" => pc'[b] # "idle" /\ req'[b].wf = req[b].wf
  <2>1. ASSUME NEW c \in Calls, Step(c) \/ Fault(c), NEW b \in Calls, pc[b] # "idle"
        PROVE  pc'[b] # "idle" /\ req'[b].wf = req[b].wf
    BY <2>1, StepFrame DEF Frame
  <2>2. ASSUME NEW c \in Calls, Issue(c), NEW b \in Calls, pc[b] # "idle"
        PROVE  pc'[b] # "idle" /\ req'[b].wf = req[b].wf
    BY <2>2 DEF Issue, TypeInv, TypeOK
  <2>3. CASE Crash
    BY <2>3 DEF Crash
  <2>4. CASE \/ begin_drain \/ Reload \/ (\E w \in Workflows : Expire(w)) \/ Quiescent
             \/ UNCHANGED vars
    BY <2>4 DEF begin_drain, Reload, Expire, Quiescent, vars
  <2> QED BY <2>1, <2>2, <2>3, <2>4 DEF Next, World
<1>1. CASE UNCHANGED <<store, log>>
  BY <1>0, <1>1, EntryType DEF Owned
<1>2. CASE ~UNCHANGED <<store, log>>
  <2>1. PICK c \in Calls, how \in {"create", "transition", "chain", "onEnter", "timeout"} :
          pc[c] \in {"create"} \cup Saving /\ Committed(c, how)
    BY <1>2, WritesAreSaves DEF save_if_version, How, Saving
  <2>2. /\ log'[Wf(c)] = Append(log[Wf(c)], Entry(c, how)) /\ Wf(c) \in Workflows
        /\ log[Wf(c)] \in Seq(Commits) /\ Entry(c, how) \in Commits
        /\ \A x \in Workflows : x # Wf(c) => log'[x] = log[x]
    BY <2>1, CommitAppends
  <2>3. Entry(c, how).by = c /\ pc[c] # "idle"
    BY <2>1 DEF Entry, Saving
  <2> SUFFICES ASSUME NEW w \in Workflows, NEW i \in DOMAIN log'[w]
               PROVE  pc'[log'[w][i].by] # "idle" /\ req'[log'[w][i].by].wf = w
    BY DEF Owned
  <2>4. ASSUME i \in DOMAIN log[w], log'[w][i] = log[w][i]
        PROVE  pc'[log'[w][i].by] # "idle" /\ req'[log'[w][i].by].wf = w
    <3>1. log[w][i].by \in Calls
      BY <2>4, EntryType
    <3> QED BY <1>0, <2>4, <3>1 DEF Owned
  <2>5. CASE w # Wf(c)
    BY <2>2, <2>4, <2>5
  <2>6. CASE w = Wf(c)
    <3>1. CASE i = Len(log[Wf(c)]) + 1
      <4>1. log'[w][i] = Entry(c, how)
        BY <2>2, <2>6, <3>1
      <4> QED BY <1>0, <2>3, <2>6, <4>1 DEF Wf
    <3>2. CASE i # Len(log[Wf(c)]) + 1
      <4>1. i \in DOMAIN log[w] /\ log'[w][i] = log[w][i]
        BY <2>2, <2>6, <3>2
      <4> QED BY <2>4, <4>1
    <3> QED BY <3>1, <3>2
  <2> QED BY <2>5, <2>6
<1> QED BY <1>1, <1>2

\* A call begins, with nothing committed; or it is lost in a crash.
Issued(c) ==
  /\ pc'[c] = IF req'[c].op = "start" THEN "admit" ELSE "load"
  /\ CommitsOf(c)' = {}

Lost(c) ==
  /\ pc[c] \notin {"idle", "done"} /\ pc'[c] = "done" /\ reply'[c].status = "error"
  /\ UNCHANGED <<store, log, audit>> /\ req' = req

\* What a step of the system can be to one call.
LEMMA StepOf ==
  ASSUME TypeInv, HistoryInv, Owned, [Next]_vars, NEW b \in Calls
  PROVE  \/ Step(b) \/ Fault(b)
         \/ pc[b] # "idle" /\ Still(b) /\ Extends
         \/ pc'[b] = "idle"
         \/ Issued(b) \/ Lost(b)
<1>1. ASSUME NEW c \in Calls, c # b, Step(c) \/ Fault(c)
      PROVE  IF pc[b] = "idle" THEN pc'[b] = "idle" ELSE Still(b) /\ Extends
  BY <1>1, OthersStill, StepFrame DEF Frame
<1>2. ASSUME Issue(b) PROVE Issued(b)
  <2>1. PICK q \in Requests, w \in Workflows, v \in Quoted :
          /\ req' = [req EXCEPT ![b] =
                       [op |-> q.op, name |-> q.name, who |-> q.who, args |-> q.args,
                        wf |-> w, expected |-> IF q.op = "submit" THEN v ELSE 0]]
          /\ pc' = [pc EXCEPT ![b] = IF q.op = "start" THEN "admit" ELSE "load"]
    BY <1>2 DEF Issue
  <2>2. /\ pc[b] = "idle" /\ UNCHANGED log
        /\ pc \in [Calls -> Points] /\ req \in [Calls -> CallRequests \cup {NoRequest}]
    BY <1>2 DEF Issue, shared, TypeInv, TypeOK
  <2>3. /\ req'[b].wf = w /\ req'[b].op = q.op
        /\ pc'[b] = IF q.op = "start" THEN "admit" ELSE "load"
    BY <2>1, <2>2
  <2>4. CommitsOf(b)' = {}
    <3> SUFFICES ASSUME NEW i \in DOMAIN log[w], log[w][i].by = b PROVE FALSE
      BY <2>2, <2>3 DEF CommitsOf, Wf
    <3> QED BY <2>2 DEF Owned
  <2> QED BY <2>3, <2>4 DEF Issued
<1>3. ASSUME NEW c \in Calls, c # b, Issue(c)
      PROVE  IF pc[b] = "idle" THEN pc'[b] = "idle" ELSE Still(b) /\ Extends
  <2>1. /\ UNCHANGED <<store, log>> /\ pc'[b] = pc[b] /\ run'[b] = run[b] /\ req'[b] = req[b]
        /\ reply'[b] = reply[b]
    BY <1>3 DEF Issue, shared, TypeInv, TypeOK
  <2> QED BY <2>1, StoreUntouched DEF Still, CommitsOf, Wf
<1>4. ASSUME Crash PROVE IF pc[b] \in {"idle", "done"} THEN pc'[b] = pc[b] /\ Still(b) /\ Extends
                                                      ELSE Lost(b)
  <2>1. /\ UNCHANGED <<store, log, audit, req>>
        /\ IF pc[b] \in {"idle", "done"}
           THEN pc'[b] = pc[b] /\ run'[b] = run[b] /\ reply'[b] = reply[b]
           ELSE pc'[b] = "done" /\ reply'[b].status = "error"
    BY <1>4 DEF Crash
  <2> QED BY <2>1, Steady, StoreUntouched DEF Still, Lost
<1>5. ASSUME \/ begin_drain \/ Reload \/ (\E w \in Workflows : Expire(w)) \/ Quiescent
             \/ UNCHANGED vars
      PROVE  pc'[b] = pc[b] /\ Still(b) /\ Extends
  <2>1. UNCHANGED <<store, log, pc, req, run, reply>>
    BY <1>5 DEF begin_drain, Reload, Expire, Quiescent, vars, shared
  <2> QED BY <2>1, Steady, StoreUntouched DEF Still
<1> QED BY <1>1, <1>2, <1>3, <1>4, <1>5 DEF Next, World

-----------------------------------------------------------------------------
\* A save that fails its version check ends in an error.
LEMMA ConflictEnds ==
  ASSUME TypeInv, NEW c \in Calls, Deed(c), pc[c] \in Saving, NEW expected,
         SaveConflict(c, expected)
  PROVE  Deed(c)'
<1>1. pc[c] \notin {"idle", "done"} /\ UNCHANGED log
      /\ Answer(c, [status |-> "error", code |-> "conflict"])
  BY DEF SaveConflict, Bail, Saving, shared
<1>2. pc'[c] = "done" /\ reply'[c].status = "error" /\ req' = req
  BY <1>1, AnswerAlone DEF Alone
<1> QED BY <1>1, <1>2, ErrorEnds

\* Admitting a start and creating its instance keep the invariant of the call.
LEMMA StartDeed ==
  ASSUME TypeInv, HistoryInv, NEW c \in Calls, Deed(c), Admit(c) \/ Create(c)
  PROVE  Deed(c)'
<1>1. CASE Admit(c)
  <2>1. pc[c] = "admit" /\ UNCHANGED log
    BY <1>1 DEF Admit, shared
  <2>2. ASSUME NEW code, Bail(c, code) PROVE Deed(c)'
    BY <2>1, <2>2, AnswerAlone, ErrorEnds DEF Bail, Alone
  <2>3. ASSUME NEW locals, Goto(c, "create", locals) PROVE Deed(c)'
    <3>1. pc'[c] = "create" /\ req' = req
      BY <2>1, <2>3, GotoAlone
    <3>2. Purpose(c)'
      BY <2>1, <3>1 DEF Deed, Purpose
    <3> QED BY <2>1, <3>1, <3>2, EarlyMoves DEF Early
  <2> QED BY <1>1, <2>2, <2>3 DEF Admit
<1>2. CASE Create(c)
  <2>1. pc[c] = "create" /\ Committed(c, "create") /\ Goto(c, "onEnter", run[c])
    BY <1>2 DEF Create
  <2>2. pc'[c] = "onEnter" /\ run'[c] = run[c] /\ req' = req
    BY <2>1, GotoAlone
  <2>3. store[Wf(c)] = NoInstance /\ run[c].inst.version = 0
    <3>1. Starting(c)
      BY DEF HistoryInv, CallInv
    <3>2. store[Wf(c)] = NoInstance /\ run[c].inst = Fresh(run[c].def)
      BY <2>1, <3>1 DEF Starting
    <3> QED BY <3>2 DEF Fresh
  <2>4. log[Wf(c)] = <<>>
    <3> SUFFICES ASSUME log[Wf(c)] # <<>> PROVE FALSE
      OBVIOUS
    <3>1. Wf(c) \in Workflows /\ log[Wf(c)] \in Seq(Commits)
      BY <2>1, Holding DEF TypeInv, TypeOK
    <3>2. store[Wf(c)] = log[Wf(c)][Len(log[Wf(c)])].inst
      BY <3>1 DEF HistoryInv, LinearHistory
    <3>3. log[Wf(c)][Len(log[Wf(c)])] \in Commits
      BY <3>1, <3>2
    <3> QED BY <2>3, <3>2, <3>3, AbsentAssumption DEF Commits
  <2>5. First(c) = 1
    BY <2>1 DEF Deed, Purpose, First
  <2>6. Len(log[Wf(c)]) + 1 = First(c) /\ run[c].inst.version + 1 = First(c)
    BY <2>3, <2>4, <2>5
  <2> QED BY <2>1, <2>2, <2>6, FirstCommit
<1> QED BY <1>1, <1>2

\* So do loading the instance and the definition, the lazy timeout and get.
LEMMA LoadDeed ==
  ASSUME TypeInv, HistoryInv, NEW c \in Calls, Deed(c),
         LoadInstance(c) \/ LoadDefinition(c) \/ SaveTimeout(c) \/ Get(c)
  PROVE  Deed(c)'
<1>1. CASE LoadInstance(c)
  <2>1. pc[c] = "load" /\ UNCHANGED log /\ pc'[c] = "define" /\ req' = req
    BY <1>1, GotoAlone DEF LoadInstance, shared
  <2>2. Purpose(c)'
    BY <2>1 DEF Deed, Purpose
  <2> QED BY <2>1, <2>2, EarlyMoves DEF Early
<1>2. CASE LoadDefinition(c)
  <2>1. pc[c] = "define" /\ UNCHANGED log
    BY <1>2 DEF LoadDefinition, shared
  <2>2. PICK point \in {"saveTimeout", "respond", "gate"} :
          /\ \E locals : Goto(c, point, locals)
          /\ point = "respond" => req[c].op = "get"
          /\ point = "gate" => req[c].op # "get"
    BY <1>2 DEF LoadDefinition
  <2>3. pc'[c] = point /\ req' = req
    <3>1. PICK locals : Goto(c, point, locals)
      BY <2>2
    <3> QED BY <2>1, <2>2, <3>1, GotoAlone
  <2>4. point = "gate" => req[c].op = "submit"
    BY <2>1, <2>2, Naming DEF Deed, Purpose, CallRequests
  <2>5. Purpose(c)'
    BY <2>2, <2>3, <2>4 DEF Purpose
  <2> QED BY <2>1, <2>3, <2>5, EarlyMoves DEF Early
<1>3. CASE SaveTimeout(c)
  <2>1. pc[c] = "saveTimeout"
    BY <1>3 DEF SaveTimeout
  <2>2. CASE SaveConflict(c, run[c].inst.version - 1)
    BY <2>1, <2>2, ConflictEnds DEF Saving
  <2>3. ASSUME save_if_version(c, run[c].inst.version - 1, "timeout"),
               Answer(c, response(c, "timed_out", "none", {}))
        PROVE  Deed(c)'
    <3>1. /\ pc'[c] = "done" /\ req' = req
          /\ reply'[c] = response(c, "timed_out", "none", {})
      BY <2>1, <2>3, AnswerAlone DEF Alone
    <3>2. reply'[c].code = "none" /\ reply'[c].status # "rejected"
      BY <3>1 DEF response
    <3> QED BY <2>1, <2>3, <3>1, <3>2, TimeoutCommit DEF save_if_version
  <2> QED BY <1>3, <2>2, <2>3 DEF SaveTimeout
<1>4. CASE Get(c)
  <2>1. pc[c] = "respond" /\ UNCHANGED log /\ pc'[c] = "done" /\ req' = req
    BY <1>4, AnswerAlone DEF Get, shared, Alone
  <2>2. req[c].op = "get"
    BY <2>1 DEF Deed, Purpose
  <2> QED BY <2>1, <2>2, RefusalEnds DEF Early
<1> QED BY <1>1, <1>2, <1>3, <1>4

\* So do the gates of submit and its executor.
LEMMA GateDeed ==
  ASSUME TypeInv, HistoryInv, NEW c \in Calls, Deed(c),
         Gate(c) \/ ExecuteFails(c) \/ Execute(c)
  PROVE  Deed(c)'
<1>0. pc[c] \in {"gate", "execute"} /\ UNCHANGED log /\ run[c] \in Runs /\ req[c].op = "submit"
  <2>1. pc[c] \in {"gate", "execute"} /\ UNCHANGED log
    BY DEF Gate, Refuse, ExecuteFails, Execute, shared
  <2> QED BY <2>1, Holding DEF Settled, Deed, Purpose
<1>1. ASSUME NEW status, NEW code, code # "none", Answer(c, response(c, status, code, {}))
      PROVE  Deed(c)'
  <2>1. pc'[c] = "done" /\ req' = req /\ reply'[c] = response(c, status, code, {})
    BY <1>0, <1>1, AnswerAlone DEF Alone
  <2>2. reply'[c].code # "none"
    BY <1>1, <2>1 DEF response
  <2> QED BY <1>0, <2>1, <2>2, RefusalEnds DEF Early
<1>2. CASE Gate(c)
  <2>1. ASSUME NEW t \in Named(c), Goto(c, "execute", [run[c] EXCEPT !.via = t]) PROVE Deed(c)'
    <3>1. pc'[c] = "execute" /\ req' = req /\ run'[c] = [run[c] EXCEPT !.via = t]
      BY <1>0, <2>1, GotoAlone
    <3>2. run'[c].via.name = req[c].name
      BY <1>0, <3>1 DEF Runs, Named, transition_definition
    <3>3. Purpose(c)'
      BY <1>0, <3>1, <3>2 DEF Purpose
    <3> QED BY <1>0, <3>1, <3>3, EarlyMoves DEF Early
  <2> QED BY <1>1, <1>2, <2>1 DEF Gate, Refuse
<1>3. CASE ExecuteFails(c)
  BY <1>1, <1>3 DEF ExecuteFails
<1>4. CASE Execute(c)
  <2>1. PICK out : Goto(c, "saveTransition",
                        [run[c] EXCEPT !.inst = Successor(@, out),
                                       !.acc = AddEvidence(@, Emitted(run[c].via))])
    BY <1>4 DEF Execute
  <2>2. /\ pc'[c] = "saveTransition" /\ req' = req
        /\ run'[c] = [run[c] EXCEPT !.inst = Successor(@, out),
                                    !.acc = AddEvidence(@, Emitted(run[c].via))]
    BY <1>0, <2>1, GotoAlone
  <2>3. run'[c].via = run[c].via /\ pc[c] = "execute"
    BY <1>0, <1>4, <2>2 DEF Runs, Execute
  <2>4. Purpose(c)'
    BY <1>0, <2>2, <2>3 DEF Deed, Purpose
  <2> QED BY <1>0, <2>2, <2>4, EarlyMoves DEF Early
<1> QED BY <1>2, <1>3, <1>4

\* So do saving a transition and recording its evidence.
LEMMA CommitDeed ==
  ASSUME TypeInv, HistoryInv, NEW c \in Calls, Deed(c),
         SaveTransition(c) \/ RecordEvidence(c)
  PROVE  Deed(c)'
<1>1. CASE SaveTransition(c)
  <2>1. pc[c] = "saveTransition" /\ How(pc[c]) = "transition" /\ req[c].op = "submit"
    BY <1>1 DEF SaveTransition, How, Deed, Purpose
  <2>2. CASE SaveConflict(c, req[c].expected)
    BY <2>1, <2>2, ConflictEnds DEF Saving
  <2>3. ASSUME save_if_version(c, req[c].expected, "transition"), Goto(c, "evidence", run[c])
        PROVE  Deed(c)'
    <3>1. pc'[c] = "evidence" /\ req' = req /\ run'[c] = run[c]
      BY <2>1, <2>3, GotoAlone
    <3>2. req[c].expected = run[c].inst.version - 1
      BY <2>1, ExpectedIsBase
    <3>3. Len(log[Wf(c)]) = run[c].inst.version
      BY <2>1, <2>3, <3>2, SaveHistory DEF Saving
    <3>4. run[c].inst.version \in Nat
      BY <2>1, Holding DEF Saving, Instances
    <3>5. First(c) = run[c].inst.version + 1
      BY <2>1, <3>2, <3>4 DEF First
    <3> QED BY <2>1, <2>3, <3>1, <3>3, <3>5, FirstCommit DEF save_if_version
  <2> QED BY <1>1, <2>2, <2>3 DEF SaveTransition
<1>2. CASE RecordEvidence(c)
  <2>1. pc[c] = "evidence" /\ UNCHANGED log /\ run[c] \in Runs
    BY <1>2, Holding DEF RecordEvidence, Settled
  <2>2. PICK locals \in {run[c], [run[c] EXCEPT !.acc = NoEvidence]} : Goto(c, "onEnter", locals)
    BY <1>2 DEF RecordEvidence
  <2>3. pc'[c] = "onEnter" /\ req' = req /\ run'[c] = locals /\ locals.inst = run[c].inst
    BY <2>1, <2>2, GotoAlone DEF Runs
  <2> QED BY <2>1, <2>3, LateMoves DEF Late, Latest
<1> QED BY <1>1, <1>2

\* So does run_on_enter.
LEMMA EnterDeed ==
  ASSUME TypeInv, HistoryInv, NEW c \in Calls, Deed(c),
         SkipOnEnter(c) \/ OnEnterFails(c) \/ OnEnter(c) \/ SaveOnEnter(c) \/ Entered(c)
  PROVE  Deed(c)'
<1>1. CASE SkipOnEnter(c) \/ Entered(c)
  <2>1. pc[c] \in {"onEnter", "entered"} /\ UNCHANGED log /\ run[c] \in Runs
    BY <1>1, Holding DEF SkipOnEnter, Entered, Settled, shared
  <2>2. PICK locals \in {run[c], [run[c] EXCEPT !.caller = "chain"]} :
          \E point \in {"entered", "chain", "finish"} : Goto(c, point, locals)
    BY <1>1 DEF SkipOnEnter, Entered
  <2>3. /\ pc'[c] \in {"entered", "chain", "finish"} /\ req' = req /\ run'[c] = locals
        /\ locals.inst = run[c].inst
    BY <2>1, <2>2, GotoAlone DEF Runs
  <2> QED BY <2>1, <2>3, LateMoves DEF Late, Latest
<1>2. CASE OnEnterFails(c)
  <2>1. pc[c] = "onEnter" /\ UNCHANGED log
        /\ Answer(c, [status |-> "error", code |-> "onEnter"])
    BY <1>2 DEF OnEnterFails, Bail, shared
  <2>2. pc'[c] = "done" /\ reply'[c].status = "error" /\ req' = req
    BY <2>1, AnswerAlone DEF Alone
  <2> QED BY <2>1, <2>2, ErrorEnds
<1>3. CASE OnEnter(c)
  <2>1. pc[c] = "onEnter" /\ UNCHANGED log /\ run[c] \in Runs
    BY <1>3, Holding DEF OnEnter, Settled
  <2>2. PICK out : Goto(c, "saveEnter", [run[c] EXCEPT !.inst = Successor(run[c].inst, out)])
    BY <1>3 DEF OnEnter
  <2>3. /\ pc'[c] = "saveEnter" /\ req' = req
        /\ run'[c] = [run[c] EXCEPT !.inst = Successor(run[c].inst, out)]
    BY <2>1, <2>2, GotoAlone
  <2>4. run'[c].inst.version = run[c].inst.version + 1
    BY <2>1, <2>3 DEF Runs, Successor
  <2> QED BY <2>1, <2>3, <2>4, LateMoves DEF Late, Latest
<1>4. CASE SaveOnEnter(c)
  <2>1. pc[c] = "saveEnter" /\ How(pc[c]) = "onEnter"
    BY <1>4 DEF SaveOnEnter, How
  <2>2. CASE SaveConflict(c, run[c].inst.version - 1)
    BY <2>1, <2>2, ConflictEnds DEF Saving
  <2>3. ASSUME save_if_version(c, run[c].inst.version - 1, "onEnter"), Goto(c, "entered", run[c])
        PROVE  Deed(c)'
    <3>1. pc'[c] = "entered" /\ req' = req /\ run'[c] = run[c]
      BY <2>1, <2>3, GotoAlone
    <3> QED BY <2>1, <2>3, <3>1, LaterCommit
  <2> QED BY <1>4, <2>2, <2>3 DEF SaveOnEnter
<1> QED BY <1>1, <1>2, <1>3, <1>4

\* So do the deterministic chain and the answer after it.
LEMMA ChainDeed ==
  ASSUME TypeInv, HistoryInv, NEW c \in Calls, Deed(c),
         \/ SelectionFails(c) \/ ChainStepFails(c) \/ ChainStep(c) \/ SaveChainStep(c)
         \/ Finish(c)
  PROVE  Deed(c)'
<1>1. CASE SelectionFails(c) \/ ChainStepFails(c) \/ Finish(c)
  <2>1. pc[c] \in {"chain", "finish"} /\ UNCHANGED log
    BY <1>1 DEF SelectionFails, ChainStepFails, Finish, shared
  <2>2. PICK status \in {"started", "executed", "failed"}, code \in {"none", "CHAIN_FAILED"} :
          \E recovery : Answer(c, response(c, status, code, recovery))
    BY <1>1 DEF SelectionFails, ChainStepFails, ChainFailed, Finish
  <2>3. PICK recovery : Answer(c, response(c, status, code, recovery))
    BY <2>2
  <2>4. /\ pc'[c] = "done" /\ req' = req
        /\ reply'[c] = response(c, status, code, recovery)
    BY <2>1, <2>3, AnswerAlone DEF Alone
  <2>5. reply'[c].code \in {"none", "CHAIN_FAILED"} /\ reply'[c].status # "rejected"
    BY <2>4 DEF response
  <2> QED BY <2>1, <2>4, <2>5, WorkEnds DEF Late
<1>2. CASE ChainStep(c)
  <2>1. pc[c] = "chain" /\ UNCHANGED log /\ run[c] \in Runs
    BY <1>2, Holding DEF ChainStep, Settled, shared
  <2>2. PICK t, out : Goto(c, "saveChain", [run[c] EXCEPT !.inst = Successor(@, out), !.via = t,
                                                          !.acc = AddEvidence(@, Emitted(t))])
    BY <1>2 DEF ChainStep
  <2>3. /\ pc'[c] = "saveChain" /\ req' = req
        /\ run'[c] = [run[c] EXCEPT !.inst = Successor(@, out), !.via = t,
                                    !.acc = AddEvidence(@, Emitted(t))]
    BY <2>1, <2>2, GotoAlone
  <2>4. run'[c].inst.version = run[c].inst.version + 1
    BY <2>1, <2>3 DEF Runs, Successor
  <2> QED BY <2>1, <2>3, <2>4, LateMoves DEF Late, Latest
<1>3. CASE SaveChainStep(c)
  <2>1. pc[c] = "saveChain" /\ How(pc[c]) = "chain" /\ run[c] \in Runs
    BY <1>3, Holding DEF SaveChainStep, How, Saving
  <2>2. CASE SaveConflict(c, run[c].inst.version - 1)
    BY <2>1, <2>2, ConflictEnds DEF Saving
  <2>3. ASSUME save_if_version(c, run[c].inst.version - 1, "chain"),
               Goto(c, "evidence", [run[c] EXCEPT !.steps = @ + 1])
        PROVE  Deed(c)'
    <3>1. pc'[c] = "evidence" /\ req' = req /\ run'[c] = [run[c] EXCEPT !.steps = @ + 1]
      BY <2>1, <2>3, GotoAlone
    <3>2. run'[c].inst = run[c].inst
      BY <2>1, <3>1 DEF Runs
    <3> QED BY <2>1, <2>3, <3>1, <3>2, LaterCommit
  <2> QED BY <1>3, <2>2, <2>3 DEF SaveChainStep
<1> QED BY <1>1, <1>2, <1>3

\* Every step of a call keeps its invariant.
LEMMA OwnDeed ==
  ASSUME TypeInv, HistoryInv, NEW c \in Calls, Deed(c), Step(c) \/ Fault(c)
  PROVE  Deed(c)'
<1>1. CASE Fault(c)
  <2>1. pc[c] \notin {"idle", "done"} /\ UNCHANGED log
        /\ Answer(c, [status |-> "error", code |-> "fault"])
    BY <1>1 DEF Fault, Bail, shared
  <2>2. pc'[c] = "done" /\ reply'[c].status = "error" /\ req' = req
    BY <2>1, AnswerAlone DEF Alone
  <2> QED BY <2>1, <2>2, ErrorEnds
<1>2. CASE Step(c)
  BY <1>2, StartDeed, LoadDeed, GateDeed, CommitDeed, EnterDeed, ChainDeed DEF Step
<1> QED BY <1>1, <1>2

\* An idle call has done nothing.
LEMMA IdleDeed ==
  ASSUME NEW c \in Calls, pc[c] = "idle"
  PROVE  Deed(c)
BY DEF Deed, Purpose, Untouched, Underway, Over, Early, Late

\* A call just issued has the invariant, and so has one lost in a crash.
LEMMA IssueDeed ==
  ASSUME NEW c \in Calls, Issued(c)
  PROVE  Deed(c)'
BY DEF Issued, Deed, Purpose, Untouched, Underway, Over, Early, Late

\* DeedInv is inductive on top of TypeInv and HistoryInv.
LEMMA DeedStep == TypeInv /\ HistoryInv /\ DeedInv /\ [Next]_vars => DeedInv'
<1> SUFFICES ASSUME TypeInv, HistoryInv, DeedInv, [Next]_vars, NEW b \in Calls
             PROVE  Deed(b)'
  BY OwnedStep DEF DeedInv
<1>0. Deed(b) /\ Owned
  BY DEF DeedInv
<1>1. CASE Step(b) \/ Fault(b)
  BY <1>0, <1>1, OwnDeed
<1>2. CASE pc[b] # "idle" /\ Still(b)
  BY <1>0, <1>2, StillKeeps
<1>3. CASE pc'[b] = "idle"
  BY <1>3 DEF Deed, Purpose, Untouched, Underway, Over, Early, Late
<1>4. CASE Issued(b)
  BY <1>4, IssueDeed
<1>5. CASE Lost(b)
  BY <1>0, <1>5, ErrorEnds DEF Lost
<1> QED BY <1>0, <1>1, <1>2, <1>3, <1>4, <1>5, StepOf

\* DeedInv holds initially.
LEMMA DeedInit == Init => DeedInv
<1> SUFFICES ASSUME Init PROVE DeedInv
  OBVIOUS
<1>1. Owned
  BY DEF Init, Owned
<1>2. \A c \in Calls : Deed(c)
  BY IdleDeed DEF Init
<1> QED BY <1>1, <1>2 DEF DeedInv

\* The three invariants hold in every reachable state.
LEMMA DeedsHold == Spec => [](TypeInv /\ HistoryInv /\ DeedInv)
BY TypeInit, TypeStep, HistoryInit, HistoryStep, DeedInit, DeedStep, PTL DEF Spec

\* A submit answered without error has committed the transition it named, once, as
\* the version right after the one it quoted, however many clients race it.
THEOREM SubmitsExecuteOnce == Spec => []ExecutedOnce
<1>1. ASSUME DeedInv, TypeInv, NEW c \in Calls PROVE OnceOf(c)
  <2>1. pc[c] = "done" => OnceOf(c)
    BY <1>1 DEF DeedInv, Deed, Over
  <2> QED BY <2>1 DEF OnceOf, Succeeded, Answered
<1>2. DeedInv /\ TypeInv => ExecutedOnce
  BY <1>1 DEF ExecutedOnce, OnceOf
<1> QED BY <1>2, DeedsHold, PTL

\* No call commits between two commits of another: when one intervenes, the first
\* call commits nothing more.
THEOREM NoInterleavedCommits == Spec => []CallsAreContiguous
<1>1. ASSUME DeedInv, TypeInv, NEW c \in Calls, pc[c] # "idle" PROVE ContiguousOf(c)
  <2>1. CASE pc[c] = "done"
    BY <1>1, <2>1 DEF DeedInv, Deed, Over
  <2>2. CASE pc[c] # "done"
    BY <1>1, <2>2, Partway DEF DeedInv
  <2> QED BY <2>1, <2>2
<1>2. DeedInv /\ TypeInv => CallsAreContiguous
  BY <1>1 DEF CallsAreContiguous, ContiguousOf
<1> QED BY <1>2, DeedsHold, PTL

\* A submit refused by a gate, or whose executor failed, has committed nothing, and
\* a get nothing but a timeout.
THEOREM RefusalsLeaveNoTrace == Spec => []RefusedLeaveNoTrace
<1>1. ASSUME DeedInv, NEW c \in Calls PROVE TracelessOf(c)
  <2>1. pc[c] = "done" => TracelessOf(c)
    BY <1>1 DEF DeedInv, Deed, Over
  <2> QED BY <2>1 DEF TracelessOf, Answered
<1>2. DeedInv => RefusedLeaveNoTrace
  BY <1>1 DEF RefusedLeaveNoTrace, TracelessOf
<1> QED BY <1>2, DeedsHold, PTL

-----------------------------------------------------------------------------
\* What an answer links to beyond the guarded links: a transition of the chain that
\* failed.
Recovers(c, code, recovery) ==
  \A n \in recovery : /\ code = "CHAIN_FAILED"
                      /\ \E t \in Outgoing(run[c].def, run[c].inst.state) : t.name = n

\* A call that answers without error answers from the instance it holds, loaded or
\* saved, which is committed.
LEMMA Answering ==
  ASSUME TypeInv, HistoryInv, NEW c \in Calls, Step(c), pc'[c] = "done",
         reply'[c].status # "error"
  PROVE  /\ \E status, code, recovery :
              reply'[c] = response(c, status, code, recovery) /\ Recovers(c, code, recovery)
         /\ pc[c] \in Settled \cup Saving
         /\ run[c].inst.version + 1 \in DOMAIN log'[Wf(c)]
         /\ log'[Wf(c)][run[c].inst.version + 1].inst = run[c].inst
<1>1. ASSUME pc[c] \in Settled, UNCHANGED log, NEW status, NEW code, NEW recovery,
             Recovers(c, code, recovery), Answer(c, response(c, status, code, recovery))
      PROVE  /\ reply'[c] = response(c, status, code, recovery)
             /\ run[c].inst.version + 1 \in DOMAIN log'[Wf(c)]
             /\ log'[Wf(c)][run[c].inst.version + 1].inst = run[c].inst
  <2>1. pc[c] # "idle" /\ Snapshot(c)
    BY <1>1 DEF Settled, HistoryInv, CallInv
  <2> QED BY <1>1, <2>1, AnswerAlone DEF Snapshot
<1>0. \A code : Recovers(c, code, {})
  BY DEF Recovers
<1>2. CASE Get(c) \/ ExecuteFails(c) \/ SelectionFails(c) \/ ChainStepFails(c) \/ Finish(c)
  <2>1. pc[c] \in Settled /\ UNCHANGED log
    BY <1>2 DEF Get, ExecuteFails, SelectionFails, ChainStepFails, Finish, Settled, shared
  <2>2. PICK status, code, recovery : /\ Answer(c, response(c, status, code, recovery))
                                      /\ Recovers(c, code, recovery)
    <3>1. CASE ChainStepFails(c)
      <4>1. PICK t \in Selected(c) : Answer(c, response(c, "failed", "CHAIN_FAILED", {t.name}))
        BY <3>1 DEF ChainStepFails, ChainFailed
      <4>2. t \in Outgoing(run[c].def, run[c].inst.state)
        BY DEF Selected, select_deterministic_transition, Viable
      <4>3. Recovers(c, "CHAIN_FAILED", {t.name})
        BY <4>2 DEF Recovers
      <4> QED BY <4>1, <4>3
    <3>2. CASE Get(c) \/ ExecuteFails(c) \/ SelectionFails(c) \/ Finish(c)
      BY <1>0, <3>2 DEF Get, ExecuteFails, SelectionFails, ChainFailed, Finish
    <3> QED BY <1>2, <3>1, <3>2
  <2> QED BY <1>1, <2>1, <2>2
<1>3. ASSUME NEW point, point # "done", pc[c] # "idle", NEW locals, Goto(c, point, locals)
      PROVE  FALSE
  BY <1>3 DEF Goto, TypeInv, TypeOK
<1>4. ASSUME pc[c] # "idle", NEW code, Bail(c, code) PROVE FALSE
  BY <1>4, AnswerAlone DEF Bail
<1>5. CASE Gate(c)
  <2>1. pc[c] = "gate"
    BY <1>5 DEF Gate
  <2>2. \E code : Refuse(c, code)
    BY <1>3, <1>5, <2>1 DEF Gate
  <2> QED BY <1>0, <1>1, <2>1, <2>2 DEF Refuse, Settled
<1>6. CASE SaveTimeout(c)
  <2>1. /\ pc[c] = "saveTimeout" /\ How(pc[c]) = "timeout"
        /\ save_if_version(c, run[c].inst.version - 1, "timeout")
        /\ Answer(c, response(c, "timed_out", "none", {}))
    BY <1>4, <1>6 DEF SaveTimeout, SaveConflict, How
  <2> QED BY <1>0, <2>1, SaveHistory, AnswerAlone DEF Saving
<1>7. CASE \/ Admit(c) \/ Create(c) \/ LoadInstance(c) \/ LoadDefinition(c) \/ Execute(c)
           \/ SaveTransition(c) \/ RecordEvidence(c)
  BY <1>3, <1>4, <1>7 DEF Admit, Create, LoadInstance, LoadDefinition, Execute,
                          SaveTransition, SaveConflict, RecordEvidence
<1>8. CASE \/ SkipOnEnter(c) \/ OnEnterFails(c) \/ OnEnter(c) \/ SaveOnEnter(c) \/ Entered(c)
           \/ ChainStep(c) \/ SaveChainStep(c)
  BY <1>3, <1>4, <1>8 DEF SkipOnEnter, OnEnterFails, OnEnter, SaveOnEnter, Entered, ChainStep,
                          SaveChainStep, SaveConflict
<1> QED BY <1>2, <1>5, <1>6, <1>7, <1>8 DEF Step

\* The answer of call c describes a committed version.
AnswerTrue(c) == Answered(c) =>
  /\ reply[c].version + 1 \in DOMAIN log[Wf(c)]
  /\ log[Wf(c)][reply[c].version + 1].inst.state = reply[c].state

\* What no step can do to a call that is done.
LEMMA DoneStays ==
  ASSUME TypeInv, HistoryInv, [Next]_vars, NEW b \in Calls
  PROVE  /\ Extends
         /\ pc[b] = "done" => pc'[b] = "done" /\ req'[b] = req[b] /\ reply'[b] = reply[b]
         /\ pc[b] # "done" /\ pc'[b] = "done" /\ reply'[b].status # "error" =>
              Step(b) /\ req' = req
<1>1. ASSUME NEW c \in Calls, Step(c) \/ Fault(c)
      PROVE  /\ Extends
             /\ pc[b] = "done" => pc'[b] = "done" /\ req'[b] = req[b] /\ reply'[b] = reply[b]
             /\ pc[b] # "done" /\ pc'[b] = "done" /\ reply'[b].status # "error" =>
                  Step(b) /\ req' = req
  <2>1. Frame(c) /\ pc[c] # "done"
    <3>1. CASE Fault(c)
      BY <3>1, StepFrame DEF Fault
    <3>2. CASE Step(c)
      BY <3>2, StepFrame
         DEF Step, Admit, Create, LoadInstance, LoadDefinition, SaveTimeout, Get, Gate,
             ExecuteFails, Execute, SaveTransition, RecordEvidence, SkipOnEnter, OnEnterFails,
             OnEnter, SaveOnEnter, Entered, SelectionFails, ChainStepFails, ChainStep,
             SaveChainStep, Finish
    <3> QED BY <1>1, <3>1, <3>2
  <2>2. Fault(c) => reply'[c].status = "error"
    BY <2>1, AnswerAlone DEF Fault, Bail
  <2> QED BY <1>1, <2>1, <2>2 DEF Frame
<1>2. ASSUME NEW c \in Calls, Issue(c)
      PROVE  /\ Extends
             /\ pc'[b] = "done" => pc[b] = "done"
             /\ pc[b] = "done" => pc'[b] = "done" /\ req'[b] = req[b] /\ reply'[b] = reply[b]
  BY <1>2, StoreUntouched DEF Issue, TypeInv, TypeOK, shared
<1>3. CASE Crash
  BY <1>3, StoreUntouched DEF Crash
<1>4. CASE \/ begin_drain \/ Reload \/ (\E w \in Workflows : Expire(w)) \/ Quiescent
           \/ UNCHANGED vars
  <2>1. UNCHANGED <<store, log, pc, req, run, reply>>
    BY <1>4 DEF begin_drain, Reload, Expire, Quiescent, vars, shared
  <2> QED BY <2>1, StoreUntouched
<1> QED BY <1>1, <1>2, <1>3, <1>4 DEF Next, World

\* An answer describes a committed version, and that version stays.
LEMMA AnswerStaysTrue ==
  TypeInv /\ HistoryInv /\ AnswersAreCommitted /\ [Next]_vars => AnswersAreCommitted'
<1> SUFFICES ASSUME TypeInv, HistoryInv, AnswersAreCommitted, [Next]_vars, NEW b \in Calls
             PROVE  AnswerTrue(b)'
  BY DEF AnswersAreCommitted, AnswerTrue
<1> SUFFICES ASSUME Answered(b)' PROVE AnswerTrue(b)'
  BY DEF AnswerTrue
<1>1. pc'[b] = "done" /\ reply'[b].status # "error"
  BY DEF Answered
<1>2. CASE pc[b] = "done"
  <2>1. Extends /\ req'[b] = req[b] /\ reply'[b] = reply[b] /\ Wf(b) \in Workflows
    BY <1>2, DoneStays, Naming
  <2>2. AnswerTrue(b) /\ Answered(b)
    BY <1>1, <1>2, <2>1 DEF AnswersAreCommitted, AnswerTrue, Answered
  <2> QED BY <2>1, <2>2 DEF AnswerTrue, Extends, Wf
<1>3. CASE pc[b] # "done"
  <2>1. Step(b) /\ req' = req
    BY <1>1, <1>3, DoneStays
  <2>2. PICK status, code, recovery : reply'[b] = response(b, status, code, recovery)
    BY <1>1, <2>1, Answering
  <2>3. reply'[b].version = run[b].inst.version /\ reply'[b].state = run[b].inst.state
    BY <2>2 DEF response
  <2>4. /\ run[b].inst.version + 1 \in DOMAIN log'[Wf(b)]
        /\ log'[Wf(b)][run[b].inst.version + 1].inst = run[b].inst
    BY <1>1, <2>1, Answering
  <2> QED BY <2>1, <2>3, <2>4 DEF AnswerTrue, Wf
<1> QED BY <1>2, <1>3

\* Every answer describes a version that was committed, with its state, although a
\* call answers from the instance it holds and not from the store.
THEOREM AnswersDescribeHistory == Spec => []AnswersAreCommitted
<1>1. Init => AnswersAreCommitted
  BY DEF Init, AnswersAreCommitted, Answered
<1> QED BY <1>1, TypeInit, TypeStep, HistoryInit, HistoryStep, AnswerStaysTrue, PTL DEF Spec

-----------------------------------------------------------------------------
\* The chain steps among the commits of c.
ChainOf(c) == {i \in CommitsOf(c) : log[Wf(c)][i].how = "chain"}

\* Call c may take a chain step under definition d from version i.
Open(c, d, i) ==
  Automatic(d, log[Wf(c)][i].inst.state) /\ ~is_terminal(d, log[Wf(c)][i].inst.state)

\* Each of its chain steps left a state that the chain walks through, and they are
\* no more than the definition's maxChainDepth.
BoundedOf(c) ==
  \A i \in ChainOf(c) :
    /\ Open(c, log[Wf(c)][i].def, i - 1)
    /\ Cardinality(ChainOf(c)) <= Definitions[log[Wf(c)][i].def].maxChainDepth

\* The loop counts its steps, and has checked that it may take the next one.
Counted(c) ==
  /\ pc[c] \in Early \ {"admit", "load"} => run[c].steps = 0
  /\ pc[c] \in Late =>
       /\ Cardinality(ChainOf(c)) = run[c].steps
       /\ run[c].steps <= Def(c).maxChainDepth
       /\ \A i \in ChainOf(c) : log[Wf(c)][i].def = run[c].def
       /\ pc[c] = "saveChain" =>
            run[c].steps < Def(c).maxChainDepth /\ Open(c, run[c].def, Latest(c))

Walk(c) == Counted(c) /\ (pc[c] # "idle" => BoundedOf(c))

WalkInv == \A c \in Calls : Walk(c)

\* The version before a chain step is in the log, and the chain steps are finitely many.
LEMMA ChainsFinite ==
  ASSUME TypeInv, HistoryInv, NEW c \in Calls, pc[c] # "idle"
  PROVE  /\ IsFiniteSet(ChainOf(c)) /\ Cardinality(ChainOf(c)) \in Nat
         /\ \A i \in ChainOf(c) : i - 1 \in DOMAIN log[Wf(c)]
<1>1. Wf(c) \in Workflows /\ log[Wf(c)] \in Seq(Commits)
  BY Naming DEF TypeInv, TypeOK
<1>2. ChainOf(c) \subseteq 1..Len(log[Wf(c)]) /\ Len(log[Wf(c)]) \in Nat
  BY <1>1 DEF ChainOf, CommitsOf
<1>3. IsFiniteSet(1..Len(log[Wf(c)]))
  BY <1>2, FS_Interval
<1>4. IsFiniteSet(ChainOf(c))
  BY <1>2, <1>3, FS_Subset
<1>5. ASSUME NEW i \in ChainOf(c) PROVE i - 1 \in DOMAIN log[Wf(c)]
  <2>1. i \in DOMAIN log[Wf(c)] /\ log[Wf(c)][i].how = "chain"
    BY DEF ChainOf, CommitsOf
  <2>2. i # 1
    BY <1>1, <2>1 DEF HistoryInv, LinearHistory
  <2> QED BY <1>1, <2>1, <2>2
<1> QED BY <1>4, <1>5, FS_CardinalityType

\* A call that is left still keeps its walk,
LEMMA StillWalks ==
  ASSUME TypeInv, HistoryInv, NEW b \in Calls, Walk(b), Still(b), Extends, pc[b] # "idle"
  PROVE  Walk(b)'
<1>1. /\ ChainOf(b)' = ChainOf(b) /\ Wf(b)' = Wf(b) /\ Def(b)' = Def(b) /\ Latest(b)' = Latest(b)
      /\ Wf(b) \in Workflows
  BY Naming DEF ChainOf, Still, Wf, Def, Latest
<1>2. \A i \in ChainOf(b) : log'[Wf(b)][i] = log[Wf(b)][i]
  BY DEF ChainOf, Still
<1>3. \A d, i : i \in DOMAIN log[Wf(b)] => (Open(b, d, i) <=> Open(b, d, i)')
  BY <1>1 DEF Open, Extends
<1>4. BoundedOf(b)'
  BY <1>1, <1>2, <1>3, ChainsFinite DEF Walk, BoundedOf
<1>5. pc[b] = "saveChain" => Latest(b) \in DOMAIN log[Wf(b)]
  BY DEF HistoryInv, CallInv, Prepared, Latest, Saving
<1>6. Counted(b)'
  BY <1>1, <1>2, <1>3, <1>5 DEF Walk, Counted, Still
<1> QED BY <1>4, <1>6 DEF Walk

\* A step that leaves the logs and the requests alone leaves the chain steps bounded.
LEMMA SteadyWalk ==
  ASSUME NEW c \in Calls, UNCHANGED log, req' = req
  PROVE  /\ ChainOf(c)' = ChainOf(c) /\ \A d, i : Open(c, d, i)' <=> Open(c, d, i)
         /\ BoundedOf(c) => BoundedOf(c)'
<1>1. /\ ChainOf(c)' = ChainOf(c) /\ Wf(c)' = Wf(c)
      /\ \A d, i : Open(c, d, i)' <=> Open(c, d, i)
  BY Steady DEF ChainOf, Open
<1> QED BY <1>1 DEF BoundedOf

\* as does a call on its way to an answer, between early points, or between late
\* points under the same definition and count.
LEMMA WalkMoves ==
  ASSUME NEW c \in Calls, Walk(c), pc[c] # "idle", UNCHANGED log, req' = req,
         \/ pc'[c] \in {"done", "admit", "load"}
         \/ pc'[c] \in Early /\ run'[c].steps = 0
         \/ /\ pc[c] \in Late /\ pc'[c] \in Late
            /\ run'[c].steps = run[c].steps /\ run'[c].def = run[c].def
            /\ pc'[c] = "saveChain" =>
                 /\ run[c].steps < Def(c).maxChainDepth
                 /\ Open(c, run[c].def, Latest(c)')
  PROVE  Walk(c)'
<1>1. BoundedOf(c)'
  BY SteadyWalk DEF Walk
<1>2. CASE pc'[c] \in {"done", "admit", "load"}
  BY <1>1, <1>2 DEF Walk, Counted, Early, Late
<1>3. CASE pc'[c] \in Early /\ run'[c].steps = 0
  BY <1>1, <1>3 DEF Walk, Counted, Early, Late
<1>4. CASE /\ pc[c] \in Late /\ pc'[c] \in Late
           /\ run'[c].steps = run[c].steps /\ run'[c].def = run[c].def
           /\ pc'[c] = "saveChain" =>
                run[c].steps < Def(c).maxChainDepth /\ Open(c, run[c].def, Latest(c)')
  <2>1. Def(c)' = Def(c) /\ Wf(c)' = Wf(c)
    BY <1>4 DEF Def, Wf
  <2>2. Counted(c)
    BY DEF Walk
  <2>3. pc'[c] = "saveChain" =>
          run[c].steps < Def(c).maxChainDepth /\ Open(c, run[c].def, Latest(c))'
    BY <1>4, <2>1 DEF Open
  <2>4. Counted(c)'
    BY <1>4, <2>1, <2>2, <2>3, SteadyWalk DEF Counted, Early, Late
  <2> QED BY <1>1, <2>4 DEF Walk
<1> QED BY <1>2, <1>3, <1>4

\* A commit that is no chain step adds none; the first commit of a call is none.
LEMMA OtherCommit ==
  ASSUME TypeInv, HistoryInv, NEW c \in Calls, Walk(c), Deed(c), req' = req,
         pc[c] \in {"create"} \cup Saving, NEW how \in {"create", "transition", "onEnter", "timeout"},
         Committed(c, how)
  PROVE  /\ ChainOf(c)' = ChainOf(c) /\ BoundedOf(c)'
         /\ \A i \in ChainOf(c) : log'[Wf(c)][i] = log[Wf(c)][i]
         /\ pc[c] \in Early => ChainOf(c)' = {}
<1>1. /\ CommitsOf(c)' = CommitsOf(c) \cup {Len(log[Wf(c)]) + 1}
      /\ log'[Wf(c)][Len(log[Wf(c)]) + 1] = Entry(c, how)
      /\ \A i \in CommitsOf(c) : log'[Wf(c)][i] = log[Wf(c)][i]
      /\ Extends /\ Wf(c)' = Wf(c) /\ Wf(c) \in Workflows /\ pc[c] # "idle"
  BY Deposit, CommitAppends DEF Wf, Saving
<1>2. ChainOf(c)' = ChainOf(c)
  BY <1>1 DEF ChainOf, Entry
<1>3. \A i \in ChainOf(c) : log'[Wf(c)][i] = log[Wf(c)][i] /\ log'[Wf(c)][i - 1] = log[Wf(c)][i - 1]
  BY <1>1, ChainsFinite DEF ChainOf, Extends
<1>4. BoundedOf(c)'
  BY <1>1, <1>2, <1>3 DEF Walk, BoundedOf, Open
<1>5. pc[c] \in Early => ChainOf(c) = {}
  BY DEF Deed, Untouched, ChainOf
<1> QED BY <1>2, <1>3, <1>4, <1>5

\* A chain step that is saved is counted, and was open where it started.
LEMMA ChainCommit ==
  ASSUME TypeInv, HistoryInv, NEW c \in Calls, Walk(c), Deed(c), req' = req,
         pc[c] = "saveChain", save_if_version(c, run[c].inst.version - 1, "chain"),
         pc'[c] = "evidence", run'[c].steps = run[c].steps + 1, run'[c].def = run[c].def
  PROVE  Walk(c)'
<1> DEFINE w == Wf(c)
           n == run[c].inst.version
           f == Entry(c, "chain")
<1>1. Committed(c, "chain") /\ How(pc[c]) = "chain" /\ pc[c] \in Saving
  BY DEF save_if_version, How, Saving
<1>2. Len(log[w]) = n /\ n \in Nat /\ n \in DOMAIN log[w]
  <2>1. Len(log[w]) = n
    BY <1>1, SaveHistory
  <2>2. n \in DOMAIN log[w]
    BY <1>1 DEF HistoryInv, CallInv, Prepared
  <2> QED BY <1>1, <2>1, <2>2, Holding DEF Instances
<1>3. /\ CommitsOf(c)' = CommitsOf(c) \cup {n + 1} /\ n + 1 \notin CommitsOf(c)
      /\ log'[w][n + 1] = f
      /\ \A i \in CommitsOf(c) : log'[w][i] = log[w][i]
      /\ Extends /\ Wf(c)' = w /\ w \in Workflows /\ pc[c] # "idle"
  BY <1>1, <1>2, Deposit, CommitAppends DEF Wf, Saving
<1>4. f.how = "chain" /\ f.def = run[c].def
  BY DEF Entry
<1>5. ChainOf(c)' = ChainOf(c) \cup {n + 1} /\ n + 1 \notin ChainOf(c)
  BY <1>3, <1>4 DEF ChainOf
<1>6. /\ Cardinality(ChainOf(c)) = run[c].steps /\ run[c].steps < Def(c).maxChainDepth
      /\ \A i \in ChainOf(c) : log[w][i].def = run[c].def
      /\ Open(c, run[c].def, n)
  BY DEF Walk, Counted, Late, Latest
<1>7. Cardinality(ChainOf(c)') = run[c].steps + 1 /\ run[c].steps \in Nat
  <2>1. IsFiniteSet(ChainOf(c)) /\ Cardinality(ChainOf(c)) \in Nat
    BY <1>3, ChainsFinite
  <2>2. Cardinality(ChainOf(c) \cup {n + 1}) = Cardinality(ChainOf(c)) + 1
    BY <1>5, <2>1, FS_AddElement
  <2> QED BY <1>5, <1>6, <2>1, <2>2
<1>8. Def(c)' = Def(c) /\ Def(c).maxChainDepth \in Nat
  BY <1>1, Holding, DefinitionType DEF Def
<1>9. run[c].steps + 1 <= Def(c).maxChainDepth
  BY <1>6, <1>7, <1>8
<1> HIDE DEF w, n, f
<1>10. ASSUME NEW i \in ChainOf(c)'
       PROVE  log'[w][i].def = run[c].def /\ Open(c, run[c].def, i - 1)'
  <2>1. CASE i = n + 1
    <3>1. log'[w][i - 1] = log[w][n] /\ i - 1 = n
      BY <1>2, <1>3, <2>1 DEF Extends
    <3> QED BY <1>3, <1>4, <1>6, <2>1, <3>1 DEF Open, w
  <2>2. CASE i \in ChainOf(c)
    <3>1. log'[w][i] = log[w][i] /\ log'[w][i - 1] = log[w][i - 1]
      BY <1>3, <2>2, ChainsFinite DEF ChainOf, Extends, w
    <3>2. Open(c, log[w][i].def, i - 1)
      BY <1>3, <2>2 DEF Walk, BoundedOf, w
    <3> QED BY <1>3, <1>6, <2>2, <3>1, <3>2 DEF Open, w
  <2> QED BY <1>5, <2>1, <2>2
<1>11. BoundedOf(c)'
  BY <1>3, <1>7, <1>8, <1>9, <1>10 DEF BoundedOf, Def, w
<1>12. Counted(c)'
  BY <1>3, <1>7, <1>8, <1>9, <1>10 DEF Counted, Early, Late, w
<1> QED BY <1>11, <1>12 DEF Walk

\* Every step of a call keeps its walk.
LEMMA OwnWalk ==
  ASSUME TypeInv, HistoryInv, NEW c \in Calls, Deed(c), Walk(c), Step(c) \/ Fault(c)
  PROVE  Walk(c)'
<1>0. ASSUME pc[c] # "idle", UNCHANGED log, NEW r, Answer(c, r) PROVE Walk(c)'
  BY <1>0, AnswerAlone, WalkMoves DEF Alone
<1>1. ASSUME pc[c] \in Saving, NEW expected, SaveConflict(c, expected) PROVE Walk(c)'
  BY <1>0, <1>1 DEF SaveConflict, Bail, shared, Saving
<1>2. CASE Admit(c) \/ LoadInstance(c)
  <2>1. pc[c] \in {"admit", "load"} /\ UNCHANGED log
    BY <1>2 DEF Admit, LoadInstance, shared
  <2>2. ASSUME NEW locals, NEW point \in {"create", "define"}, Goto(c, point, locals),
               locals.steps = 0
        PROVE  Walk(c)'
    <3>1. pc'[c] = point /\ run'[c] = locals /\ req' = req
      BY <2>1, <2>2, GotoAlone
    <3> QED BY <2>1, <2>2, <3>1, WalkMoves DEF Early
  <2> QED BY <1>0, <1>2, <2>1, <2>2 DEF Admit, LoadInstance, Bail
<1>3. CASE LoadDefinition(c)
  <2>1. pc[c] = "define" /\ UNCHANGED log /\ run[c] \in Runs /\ run[c].steps = 0
    BY <1>3 DEF LoadDefinition, shared, TypeInv, TypeOK, LocalsOK, Walk, Counted, Early
  <2> DEFINE Loads(locals) == \/ locals = [run[c] EXCEPT !.def = live]
                              \/ \E inst : locals = [run[c] EXCEPT !.def = live, !.inst = inst]
  <2>2. PICK point \in {"saveTimeout", "respond", "gate"} :
          \E locals : Goto(c, point, locals) /\ Loads(locals)
    BY <1>3 DEF LoadDefinition
  <2>3. PICK locals : Goto(c, point, locals) /\ Loads(locals)
    BY <2>2
  <2>4. locals.steps = 0
    BY <2>1, <2>3 DEF Runs
  <2>5. pc'[c] = point /\ req' = req /\ run'[c] = locals
    BY <2>1, <2>2, <2>3, GotoAlone
  <2> QED BY <2>1, <2>2, <2>4, <2>5, WalkMoves DEF Early
<1>4. CASE Get(c) \/ ExecuteFails(c) \/ SelectionFails(c) \/ ChainStepFails(c) \/ Finish(c)
             \/ OnEnterFails(c) \/ Fault(c)
  <2>1. pc[c] # "idle" /\ UNCHANGED log
    BY <1>4 DEF Get, ExecuteFails, SelectionFails, ChainStepFails, Finish, OnEnterFails, Fault,
                shared
  <2>2. \E r : Answer(c, r)
    BY <1>4 DEF Get, ExecuteFails, SelectionFails, ChainStepFails, ChainFailed, Finish,
                OnEnterFails, Fault, Bail
  <2> QED BY <1>0, <2>1, <2>2
<1>5. CASE Gate(c) \/ Execute(c)
  <2>1. pc[c] \in {"gate", "execute"} /\ UNCHANGED log /\ run[c] \in Runs /\ run[c].steps = 0
    <3>1. pc[c] \in {"gate", "execute"} /\ UNCHANGED log
      BY <1>5 DEF Gate, Refuse, Execute, shared
    <3> QED BY <3>1, Holding DEF Settled, Walk, Counted, Early
  <2>2. ASSUME NEW point \in {"execute", "saveTransition"}, NEW locals, locals.steps = 0,
               Goto(c, point, locals)
        PROVE  Walk(c)'
    <3>1. pc'[c] = point /\ req' = req /\ run'[c].steps = 0
      BY <2>1, <2>2, GotoAlone
    <3> QED BY <2>1, <3>1, WalkMoves DEF Early
  <2>3. CASE Gate(c)
    <3>1. \A t : [run[c] EXCEPT !.via = t].steps = 0
      BY <2>1 DEF Runs
    <3> QED BY <1>0, <2>1, <2>2, <2>3, <3>1 DEF Gate, Refuse
  <2>4. CASE Execute(c)
    <3>1. PICK locals, inst, acc : Goto(c, "saveTransition", locals)
                                    /\ locals = [run[c] EXCEPT !.inst = inst, !.acc = acc]
      BY <2>4 DEF Execute
    <3>2. locals.steps = 0
      BY <2>1, <3>1 DEF Runs
    <3> QED BY <2>2, <3>1, <3>2
  <2> QED BY <1>5, <2>3, <2>4
<1>6. CASE Create(c) \/ SaveTransition(c)
  <2>1. pc[c] \in {"create", "saveTransition"} /\ run[c].steps = 0 /\ run[c].def \in Defs
    BY <1>6, Holding DEF Create, SaveTransition, Saving, Walk, Counted, Early
  <2>2. ASSUME NEW how \in {"create", "transition"}, Committed(c, how),
               NEW point \in {"evidence", "onEnter"}, Goto(c, point, run[c])
        PROVE  Walk(c)'
    <3>1. pc'[c] = point /\ run'[c] = run[c] /\ req' = req
      BY <2>1, <2>2, GotoAlone
    <3>2. ChainOf(c)' = {} /\ BoundedOf(c)'
      BY <2>1, <2>2, <3>1, OtherCommit DEF Early, Saving
    <3>3. 0 <= Def(c).maxChainDepth /\ Def(c)' = Def(c)
      BY <2>1, <3>1, DefinitionType DEF Def
    <3>4. Counted(c)'
      BY <2>1, <2>2, <3>1, <3>2, <3>3, FS_EmptySet DEF Counted, Early, Late
    <3> QED BY <3>2, <3>4 DEF Walk
  <2> QED BY <1>1, <1>6, <2>1, <2>2 DEF Create, SaveTransition, save_if_version, Saving
<1>7. CASE SaveTimeout(c)
  <2>1. pc[c] = "saveTimeout"
    BY <1>7 DEF SaveTimeout
  <2>2. ASSUME Committed(c, "timeout"), NEW r, Answer(c, r) PROVE Walk(c)'
    <3>1. pc'[c] = "done" /\ req' = req
      BY <2>1, <2>2, AnswerAlone DEF Alone
    <3>2. BoundedOf(c)'
      BY <2>1, <2>2, <3>1, OtherCommit DEF Saving
    <3> QED BY <3>1, <3>2 DEF Walk, Counted, Early, Late
  <2> QED BY <1>1, <1>7, <2>1, <2>2 DEF SaveTimeout, save_if_version, Saving
<1>8. CASE RecordEvidence(c) \/ SkipOnEnter(c) \/ OnEnter(c) \/ Entered(c)
  <2>1. pc[c] \in {"evidence", "onEnter", "entered"} /\ UNCHANGED log /\ run[c] \in Runs
    <3>1. pc[c] \in {"evidence", "onEnter", "entered"} /\ UNCHANGED log
      BY <1>8 DEF RecordEvidence, SkipOnEnter, OnEnter, Entered, shared
    <3> QED BY <3>1, Holding DEF Settled
  <2> DEFINE Kept(locals) ==
        \/ locals \in {run[c], [run[c] EXCEPT !.acc = NoEvidence],
                       [run[c] EXCEPT !.caller = "chain"]}
        \/ \E inst : locals = [run[c] EXCEPT !.inst = inst]
  <2>2. PICK point \in {"onEnter", "entered", "saveEnter", "chain", "finish"} :
          \E locals : Goto(c, point, locals) /\ Kept(locals)
    BY <1>8 DEF RecordEvidence, SkipOnEnter, OnEnter, Entered
  <2>3. PICK locals : Goto(c, point, locals) /\ Kept(locals)
    BY <2>2
  <2>4. locals.steps = run[c].steps /\ locals.def = run[c].def
    BY <2>1, <2>3 DEF Runs
  <2>5. pc'[c] = point /\ run'[c] = locals /\ req' = req
    BY <2>1, <2>2, <2>3, GotoAlone
  <2> QED BY <2>1, <2>2, <2>4, <2>5, WalkMoves DEF Late
<1>9. CASE SaveOnEnter(c)
  <2>1. pc[c] = "saveEnter" /\ Counted(c)
    BY <1>9 DEF SaveOnEnter, Walk
  <2>2. ASSUME Committed(c, "onEnter"), Goto(c, "entered", run[c]) PROVE Walk(c)'
    <3>1. pc'[c] = "entered" /\ run'[c] = run[c] /\ req' = req
      BY <2>1, <2>2, GotoAlone
    <3>2. /\ ChainOf(c)' = ChainOf(c) /\ BoundedOf(c)' /\ Wf(c)' = Wf(c) /\ Def(c)' = Def(c)
          /\ \A i \in ChainOf(c) : log'[Wf(c)][i] = log[Wf(c)][i]
      BY <2>1, <2>2, <3>1, OtherCommit DEF Saving, Wf, Def
    <3>3. Counted(c)'
      BY <2>1, <3>1, <3>2 DEF Counted, Early, Late
    <3> QED BY <3>2, <3>3 DEF Walk
  <2> QED BY <1>1, <1>9, <2>1, <2>2 DEF SaveOnEnter, save_if_version, Saving
<1>10. CASE ChainStep(c)
  <2>1. pc[c] = "chain" /\ ~ChainStops(c) /\ UNCHANGED log /\ run[c] \in Runs /\ run[c].def \in Defs
    BY <1>10, Holding DEF ChainStep, Settled, shared
  <2>2. PICK t, out : Goto(c, "saveChain", [run[c] EXCEPT !.inst = Successor(@, out), !.via = t,
                                                          !.acc = AddEvidence(@, Emitted(t))])
    BY <1>10 DEF ChainStep
  <2>3. /\ pc'[c] = "saveChain" /\ req' = req
        /\ run'[c] = [run[c] EXCEPT !.inst = Successor(@, out), !.via = t,
                                    !.acc = AddEvidence(@, Emitted(t))]
    BY <2>1, <2>2, GotoAlone
  <2>4. /\ run'[c].inst.version = run[c].inst.version + 1
        /\ run'[c].steps = run[c].steps /\ run'[c].def = run[c].def
    BY <2>1, <2>3 DEF Runs, Successor
  <2>5. Latest(c)' = run[c].inst.version + 1
    BY <2>3, <2>4 DEF Latest
  <2>6. log[Wf(c)][run[c].inst.version + 1].inst = run[c].inst
    BY <2>1 DEF HistoryInv, CallInv, Snapshot, Settled
  <2>7. run[c].steps < Def(c).maxChainDepth
    BY <2>1, DefinitionType DEF ChainStops, Runs, Def
  <2>8. Open(c, run[c].def, Latest(c)')
    BY <2>1, <2>5, <2>6 DEF ChainStops, Open
  <2> QED BY <2>1, <2>3, <2>4, <2>7, <2>8, WalkMoves DEF Late
<1>11. CASE SaveChainStep(c)
  <2>1. pc[c] = "saveChain" /\ run[c] \in Runs
    BY <1>11, Holding DEF SaveChainStep, Saving
  <2>2. ASSUME save_if_version(c, run[c].inst.version - 1, "chain"),
               Goto(c, "evidence", [run[c] EXCEPT !.steps = @ + 1])
        PROVE  Walk(c)'
    <3>1. /\ pc'[c] = "evidence" /\ req' = req
          /\ run'[c].steps = run[c].steps + 1 /\ run'[c].def = run[c].def
      BY <2>1, <2>2, GotoAlone DEF Runs
    <3> QED BY <2>1, <2>2, <3>1, ChainCommit
  <2> QED BY <1>1, <1>11, <2>1, <2>2 DEF SaveChainStep, Saving
<1> QED BY <1>2, <1>3, <1>4, <1>5, <1>6, <1>7, <1>8, <1>9, <1>10, <1>11 DEF Step

\* WalkInv is inductive on top of the others.
LEMMA WalkStep == TypeInv /\ HistoryInv /\ DeedInv /\ WalkInv /\ [Next]_vars => WalkInv'
<1> SUFFICES ASSUME TypeInv, HistoryInv, DeedInv, WalkInv, [Next]_vars, NEW b \in Calls
             PROVE  Walk(b)'
  BY DEF WalkInv
<1>0. Walk(b) /\ Deed(b) /\ Owned
  BY DEF WalkInv, DeedInv
<1>1. CASE Step(b) \/ Fault(b)
  BY <1>0, <1>1, OwnWalk
<1>2. CASE pc[b] # "idle" /\ Still(b) /\ Extends
  BY <1>0, <1>2, StillWalks
<1>3. CASE pc'[b] = "idle"
  BY <1>3 DEF Walk, Counted, Early, Late
<1>4. CASE Issued(b)
  <2>1. ChainOf(b)' = {}
    BY <1>4 DEF Issued, ChainOf
  <2> QED BY <1>4, <2>1 DEF Issued, Walk, Counted, BoundedOf, Early, Late
<1>5. CASE Lost(b)
  BY <1>0, <1>5, WalkMoves DEF Lost
<1> QED BY <1>0, <1>1, <1>2, <1>3, <1>4, <1>5, StepOf

\* The deterministic chain of a call walks only through states all of whose transitions
\* are deterministic, out of no terminal state, and takes at most maxChainDepth steps,
\* under the one definition it loaded, whatever is reloaded or committed meanwhile.
THEOREM ChainsAreBounded == Spec => []ChainWithinBounds
<1>1. Init => WalkInv
  BY DEF Init, WalkInv, Walk, Counted, Early, Late
<1>2. WalkInv => ChainWithinBounds
  BY DEF WalkInv, Walk, BoundedOf, ChainWithinBounds, ChainOf, Open
<1> QED BY <1>1, <1>2, TypeInit, TypeStep, HistoryInit, HistoryStep, DeedInit, DeedStep,
           WalkStep, PTL DEF Spec

-----------------------------------------------------------------------------
\* An event of call c reports its commit i; the sink took it, unless it is about a
\* chain step.
Told(c, i) ==
  \E e \in audit[Wf(c)] : /\ e.type = "transitioned" /\ e.by = c
                          /\ e.state = log[Wf(c)][i].inst.state
                          /\ e.version \in {i - 1, i}
                          /\ e.taken \/ log[Wf(c)][i].how = "chain"

\* The transitions and chain steps of c are reported, those in rest excepted.
ToldBut(c, rest) ==
  \A i \in CommitsOf(c) :
    log[Wf(c)][i].how \in {"transition", "chain"} => i \in rest \/ Told(c, i)

\* The commit not yet reported: submit reports its transition after run_on_enter, a
\* chain step is reported when its evidence is recorded.
Untold(c) ==
  IF pc[c] = "evidence" /\ run[c].caller = "chain" THEN {Latest(c)}
  ELSE IF run[c].caller = "submit" THEN {First(c)} ELSE {}

\* Which function called run_on_enter, by where the call is.
CallerOf(c) ==
  /\ pc[c] = "create" => run[c].caller = "start"
  /\ pc[c] \in Early \ {"admit", "load", "create"} => run[c].caller = "submit"
  /\ pc[c] = "evidence" => run[c].caller # "start"
  /\ pc[c] \in {"chain", "saveChain", "finish"} => run[c].caller = "chain"

\* Until submit reports its transition the call is still in the state it led to, at
\* its version or, after the onEnter action, the next.  A chain reports right after
\* the save of its step.
Standing(c) ==
  /\ pc[c] \in Late /\ run[c].caller = "submit" =>
       /\ log[Wf(c)][First(c)].inst.state = run[c].inst.state
       /\ Latest(c) = First(c) \/ (pc[c] = "entered" /\ Latest(c) = First(c) + 1)
  /\ pc[c] = "evidence" /\ run[c].caller = "chain" =>
       log[Wf(c)][run[c].inst.version + 1].how = "chain"

\* What is reported of a call, under way and answered.
Tale(c) ==
  /\ CallerOf(c)
  /\ pc[c] \in Late => ToldBut(c, Untold(c))
  /\ Standing(c)
  /\ Answered(c) => ToldBut(c, {})

\* Every event of a workflow is about a committed version.
Reported(w) ==
  \A e \in audit[w] : /\ e.version + 1 \in DOMAIN log[w]
                      /\ log[w][e.version + 1].inst.state = e.state

\* The events a workflow's trail has lost are paid for by faults.
Losses(w) ==
  IsFiniteSet(audit[w]) /\ Cardinality({e \in audit[w] : ~e.taken}) <= faults

TaleInv == (\A w \in Workflows : Reported(w) /\ Losses(w)) /\ \A c \in Calls : Tale(c)

\* The step of c records an event about the version it holds, or loses it to a fault.
Records(c, type, taken) ==
  /\ audit' = [audit EXCEPT ![Wf(c)] = @ \cup {Event(c, type, run[c].inst, taken)}]
  /\ ~taken => faults' = faults + 1

LEMMA RecordsOrLoses ==
  ASSUME NEW c, NEW type, AuditedIfItCan(c, type, run[c].inst)
  PROVE  \E taken \in BOOLEAN : Records(c, type, taken)
BY DEF AuditedIfItCan, Audited, Records

\* What a step of a call audits is the version it holds, which is committed.
LEMMA Auditing ==
  ASSUME TypeInv, HistoryInv, NEW c \in Calls, Step(c)
  PROVE  \/ UNCHANGED audit
         \/ /\ \E type : \E taken \in BOOLEAN : Records(c, type, taken)
            /\ run[c].inst.version + 1 \in DOMAIN log'[Wf(c)]
            /\ log'[Wf(c)][run[c].inst.version + 1].inst = run[c].inst
<1>1. ASSUME pc[c] \in Settled, UNCHANGED log
      PROVE  /\ run[c].inst.version + 1 \in DOMAIN log'[Wf(c)]
             /\ log'[Wf(c)][run[c].inst.version + 1].inst = run[c].inst
  BY <1>1 DEF HistoryInv, CallInv, Snapshot
<1>2. CASE Gate(c) \/ ExecuteFails(c) \/ RecordEvidence(c) \/ Entered(c) \/ Finish(c)
  <2>1. pc[c] \in Settled /\ UNCHANGED log
    BY <1>2 DEF Gate, Refuse, ExecuteFails, RecordEvidence, Entered, Finish, Settled, shared
  <2>2. \/ UNCHANGED audit
        \/ \E type : \/ Audited(c, type, run[c].inst)
                      \/ AuditedIfItCan(c, type, run[c].inst)
    BY <1>2 DEF Gate, Refuse, ExecuteFails, RecordEvidence, Entered, Finish, shared
  <2>3. UNCHANGED audit \/ \E type : \E taken \in BOOLEAN : Records(c, type, taken)
    BY <2>2, RecordsOrLoses DEF Audited, Records
  <2> QED BY <1>1, <2>1, <2>3
<1>3. CASE SaveTimeout(c)
  <2>1. CASE SaveConflict(c, run[c].inst.version - 1)
    BY <2>1 DEF SaveConflict, shared
  <2>2. CASE save_if_version(c, run[c].inst.version - 1, "timeout")
             /\ AuditedIfItCan(c, "timed_out", run[c].inst)
    <3>1. pc[c] \in Saving /\ How(pc[c]) = "timeout"
      BY <1>3 DEF SaveTimeout, Saving, How
    <3> QED BY <2>2, <3>1, SaveHistory, RecordsOrLoses
  <2> QED BY <1>3, <2>1, <2>2 DEF SaveTimeout
<1>4. CASE Create(c)
  <2>1. pc[c] = "create" /\ Audited(c, "started", run[c].inst) /\ Goto(c, "onEnter", run[c])
    BY <1>4 DEF Create
  <2>2. pc'[c] = "onEnter" /\ run'[c] = run[c] /\ req' = req
    BY <2>1, GotoAlone
  <2>3. CallInv(c)'
    BY <1>4, StartKeeps
  <2>4. Records(c, "started", TRUE)
    BY <2>1 DEF Audited, Records
  <2> QED BY <2>2, <2>3, <2>4 DEF CallInv, Snapshot, Settled, Wf
<1>5. CASE \/ Admit(c) \/ LoadInstance(c) \/ LoadDefinition(c) \/ Get(c) \/ Execute(c)
           \/ SaveTransition(c) \/ SkipOnEnter(c) \/ OnEnterFails(c) \/ OnEnter(c)
           \/ SaveOnEnter(c)
  BY <1>5 DEF Admit, LoadInstance, LoadDefinition, Get, Execute, SaveTransition, SaveConflict,
              SkipOnEnter, OnEnterFails, OnEnter, SaveOnEnter, shared
<1>6. CASE SelectionFails(c) \/ ChainStepFails(c) \/ ChainStep(c) \/ SaveChainStep(c)
  BY <1>6 DEF SelectionFails, ChainStepFails, ChainStep, SaveChainStep, SaveConflict, shared
<1> QED BY <1>2, <1>3, <1>4, <1>5, <1>6 DEF Step

\* Faults are counted and never forgotten.
LEMMA FaultsGrow ==
  ASSUME TypeInv, [Next]_vars
  PROVE  faults \in Nat /\ faults' \in Nat /\ faults <= faults'
<1>1. faults \in Nat
  BY RuntimeAssumption DEF TypeInv, TypeOK
<1>2. faults' = faults \/ faults' = faults + 1
  <2>1. ASSUME NEW c \in Calls, Step(c) PROVE faults' = faults \/ faults' = faults + 1
    <3>1. CASE \/ SaveTimeout(c) \/ Gate(c) \/ RecordEvidence(c) \/ SelectionFails(c)
      BY <3>1 DEF SaveTimeout, Gate, Refuse, RecordEvidence, SelectionFails, AuditedIfItCan
    <3>2. CASE \/ Admit(c) \/ Create(c) \/ LoadInstance(c) \/ LoadDefinition(c) \/ Get(c)
               \/ ExecuteFails(c) \/ Execute(c) \/ SaveTransition(c)
      BY <3>2 DEF Admit, Create, LoadInstance, LoadDefinition, Get, ExecuteFails, Execute,
                  SaveTransition, world
    <3>3. CASE \/ SkipOnEnter(c) \/ OnEnterFails(c) \/ OnEnter(c) \/ SaveOnEnter(c)
               \/ Entered(c)
      BY <3>3 DEF SkipOnEnter, OnEnterFails, OnEnter, SaveOnEnter, Entered, world
    <3>4. CASE ChainStepFails(c) \/ ChainStep(c) \/ SaveChainStep(c) \/ Finish(c)
      BY <3>4 DEF ChainStepFails, ChainStep, SaveChainStep, Finish, world
    <3> QED BY <2>1, <3>1, <3>2, <3>3, <3>4 DEF Step
  <2> QED BY <2>1 DEF Next, World, Issue, Fault, Crash, begin_drain, Reload, Expire, Quiescent,
                      world, vars
<1> QED BY <1>1, <1>2

\* Events are never taken back, each is about a committed version, and one that is
\* lost costs a fault.
LEMMA ReportedStep ==
  ASSUME TypeInv, HistoryInv, [Next]_vars, NEW w \in Workflows
  PROVE  /\ audit[w] \subseteq audit'[w]
         /\ Reported(w) => Reported(w)'
         /\ Losses(w) => Losses(w)'
<1>1. Extends
  <2>1. CASE Calls = {}
    BY <2>1, StoreUntouched
       DEF Next, World, Crash, begin_drain, Reload, Expire, Quiescent, vars, shared
  <2>2. CASE Calls # {}
    BY <2>2, DoneStays
  <2> QED BY <2>1, <2>2
<1>2. CASE UNCHANGED audit
  <2>1. Losses(w) => Losses(w)'
    <3>1. ASSUME IsFiniteSet(audit[w])
          PROVE  Cardinality({e \in audit[w] : ~e.taken}) \in Nat
      BY <3>1, FS_Subset, FS_CardinalityType
    <3> QED BY <1>2, <3>1, FaultsGrow DEF Losses
  <2> QED BY <1>1, <1>2, <2>1 DEF Reported, Extends
<1>3. CASE ~UNCHANGED audit
  <2>1. PICK c \in Calls : Step(c)
    BY <1>3 DEF Next, World, Issue, Fault, Crash, begin_drain, Reload, Expire, Quiescent, vars,
                shared
  <2>2. PICK type : \E taken \in BOOLEAN : Records(c, type, taken)
    BY <1>3, <2>1, Auditing
  <2>3. PICK taken \in BOOLEAN : Records(c, type, taken)
    BY <2>2
  <2>4. /\ run[c].inst.version + 1 \in DOMAIN log'[Wf(c)]
        /\ log'[Wf(c)][run[c].inst.version + 1].inst = run[c].inst
    BY <1>3, <2>1, Auditing
  <2> DEFINE e == Event(c, type, run[c].inst, taken)
  <2>5. audit' = [audit EXCEPT ![Wf(c)] = @ \cup {e}] /\ audit \in [Workflows -> SUBSET Events]
    BY <2>3 DEF Records, TypeInv, TypeOK
  <2>6. audit'[w] = IF w = Wf(c) THEN audit[w] \cup {e} ELSE audit[w]
    BY <2>5
  <2>7. /\ e.version + 1 \in DOMAIN log'[Wf(c)]
        /\ log'[Wf(c)][e.version + 1].inst.state = e.state
        /\ e.taken = taken
    BY <2>4 DEF Event
  <2> HIDE DEF e
  <2>8. ASSUME Losses(w) PROVE Losses(w)'
    <3> DEFINE lost == {x \in audit[w] : ~x.taken}
               now == {x \in audit'[w] : ~x.taken}
    <3>1. /\ IsFiniteSet(audit[w]) /\ IsFiniteSet(audit'[w])
          /\ IsFiniteSet(lost) /\ Cardinality(lost) \in Nat
      BY <2>6, <2>8, FS_AddElement, FS_Subset, FS_CardinalityType DEF Losses
    <3>2. faults \in Nat /\ faults' \in Nat /\ faults <= faults' /\ Cardinality(lost) <= faults
      BY <2>8, FaultsGrow DEF Losses
    <3>3. CASE now = lost
      BY <3>1, <3>2, <3>3 DEF Losses
    <3>4. CASE now # lost
      <4>1. ~taken /\ now = lost \cup {e} /\ e \notin lost
        BY <2>6, <2>7, <3>4
      <4>2. faults' = faults + 1
        BY <2>3, <4>1 DEF Records
      <4> HIDE DEF now, lost
      <4>3. Cardinality(now) = Cardinality(lost) + 1
        BY <3>1, <4>1, FS_AddElement
      <4>4. Cardinality(now) <= faults'
        BY <3>1, <3>2, <4>2, <4>3
      <4> QED BY <3>1, <4>4 DEF Losses, now
    <3> QED BY <3>3, <3>4
  <2> QED BY <1>1, <2>6, <2>7, <2>8 DEF Reported, Extends
<1> QED BY <1>2, <1>3

\* What is told stays told while the log stands still,
LEMMA ToldStays ==
  ASSUME NEW c \in Calls, NEW rest, ToldBut(c, rest), CommitsOf(c)' = CommitsOf(c),
         \A i \in CommitsOf(c) : log'[Wf(c)][i] = log[Wf(c)][i], req'[c] = req[c],
         audit[Wf(c)] \subseteq audit'[Wf(c)]
  PROVE  \A more : rest \subseteq more => ToldBut(c, more)'
<1>1. Wf(c)' = Wf(c)
  BY DEF Wf
<1>2. \A i \in CommitsOf(c) : Told(c, i) => Told(c, i)'
  BY <1>1 DEF Told
<1> QED BY <1>1, <1>2 DEF ToldBut

\* and when the call commits another version.
LEMMA ToldCommit ==
  ASSUME TypeInv, NEW c \in Calls, pc[c] \in {"create"} \cup Saving, req' = req,
         NEW how \in {"create", "transition", "chain", "onEnter", "timeout"},
         Committed(c, how), NEW rest, ToldBut(c, rest),
         audit[Wf(c)] \subseteq audit'[Wf(c)]
  PROVE  \A more : rest \subseteq more
                   /\ (how \in {"transition", "chain"} => Len(log[Wf(c)]) + 1 \in more)
                     => ToldBut(c, more)'
<1> DEFINE n == Len(log[Wf(c)]) + 1
<1>1. /\ CommitsOf(c)' = CommitsOf(c) \cup {n} /\ log'[Wf(c)][n] = Entry(c, how)
      /\ \A i \in CommitsOf(c) : log'[Wf(c)][i] = log[Wf(c)][i]
  BY Deposit
<1>2. Wf(c)' = Wf(c)
  BY DEF Wf
<1>3. \A i \in CommitsOf(c) : Told(c, i) => Told(c, i)'
  BY <1>1, <1>2 DEF Told
<1> SUFFICES ASSUME NEW more, rest \subseteq more,
                    how \in {"transition", "chain"} => n \in more,
                    NEW i \in CommitsOf(c)', log'[Wf(c)][i].how \in {"transition", "chain"}
             PROVE  i \in more \/ Told(c, i)'
  BY <1>2 DEF ToldBut
<1> HIDE DEF n
<1>4. CASE i = n
  BY <1>1, <1>4 DEF Entry
<1>5. CASE i \in CommitsOf(c)
  BY <1>1, <1>3, <1>5 DEF ToldBut
<1> QED BY <1>1, <1>4, <1>5

\* An event about the version a call holds tells the commit it belongs to.
LEMMA ToldNow ==
  ASSUME TypeInv, NEW c \in Calls, Wf(c) \in Workflows, req' = req, UNCHANGED log,
         NEW taken \in BOOLEAN, Records(c, "transitioned", taken), NEW i,
         taken \/ log[Wf(c)][i].how = "chain",
         log[Wf(c)][i].inst.state = run[c].inst.state, run[c].inst.version \in {i - 1, i}
  PROVE  Told(c, i)'
<1> DEFINE e == Event(c, "transitioned", run[c].inst, taken)
<1>1. audit' = [audit EXCEPT ![Wf(c)] = @ \cup {e}] /\ audit \in [Workflows -> SUBSET Events]
  BY DEF Records, TypeInv, TypeOK
<1>2. e \in audit'[Wf(c)]
  BY <1>1
<1>3. /\ e.type = "transitioned" /\ e.by = c /\ e.state = log[Wf(c)][i].inst.state
      /\ e.version \in {i - 1, i} /\ e.taken = taken
  BY DEF Event
<1>4. Wf(c)' = Wf(c)
  BY DEF Wf
<1> HIDE DEF e
<1> QED BY <1>2, <1>3, <1>4 DEF Told

\* The tale of the call that steps, by where it goes: to an early point,
LEMMA EarlyTale ==
  ASSUME NEW c \in Calls, pc'[c] \in Early, CallerOf(c)'
  PROVE  Tale(c)'
BY DEF Tale, Standing, Early, Late, Answered

\* from a late point to another,
LEMMA LateTale ==
  ASSUME TypeInv, NEW c \in Calls, Tale(c), pc[c] \in Late, pc'[c] \in Late, UNCHANGED log,
         req' = req, audit[Wf(c)] \subseteq audit'[Wf(c)], CallerOf(c)', Standing(c)',
         \A i \in Untold(c) : i \in Untold(c)' \/ Told(c, i)'
  PROVE  Tale(c)'
<1>1. PICK rest : rest = Untold(c)
  OBVIOUS
<1>2. ToldBut(c, rest) /\ CommitsOf(c)' = CommitsOf(c) /\ Wf(c)' = Wf(c)
  BY <1>1, Steady DEF Tale
<1>3. ToldBut(c, rest)'
  BY <1>2, ToldStays
<1>4. ToldBut(c, Untold(c))'
  BY <1>1, <1>3 DEF ToldBut
<1> QED BY <1>4 DEF Tale, Answered, Late

\* by a commit,
LEMMA CommitTale ==
  ASSUME TypeInv, NEW c \in Calls, Deed(c), Tale(c), pc[c] \in {"create"} \cup Saving,
         NEW how \in {"create", "transition", "chain", "onEnter", "timeout"},
         Committed(c, how), req' = req, audit[Wf(c)] \subseteq audit'[Wf(c)],
         pc'[c] \in Late, CallerOf(c)', Standing(c)',
         how \in {"transition", "chain"} => Len(log[Wf(c)]) + 1 \in Untold(c)',
         pc[c] \in Late => Untold(c) \subseteq Untold(c)'
  PROVE  Tale(c)'
<1>1. PICK rest : ToldBut(c, rest) /\ rest \subseteq Untold(c)'
  <2>1. CASE pc[c] \in Late
    BY <2>1 DEF Tale
  <2>2. CASE pc[c] \notin Late
    <3>1. CommitsOf(c) = {}
      BY <2>2 DEF Deed, Untouched, Early, Late, Saving
    <3>2. ToldBut(c, {})
      BY <3>1 DEF ToldBut
    <3> QED BY <3>2
  <2> QED BY <2>1, <2>2
<1>2. PICK more : more = Untold(c)'
  OBVIOUS
<1>3. ToldBut(c, more)'
  BY <1>1, <1>2, ToldCommit
<1>4. ToldBut(c, Untold(c))'
  BY <1>2, <1>3 DEF ToldBut
<1> QED BY <1>4 DEF Tale, Answered, Late

\* into an error, into the answer of a call that committed nothing, and into the
\* answer of one that has reported all it did.
LEMMA EndTale ==
  ASSUME TypeInv, NEW c \in Calls, Deed(c), Tale(c), pc'[c] = "done", UNCHANGED log,
         req' = req, audit[Wf(c)] \subseteq audit'[Wf(c)],
         \/ reply'[c].status = "error" \/ pc[c] \in Early \/ pc[c] \in {"chain", "finish"}
  PROVE  Tale(c)'
<1>1. CallerOf(c)' /\ Standing(c)'
  BY DEF CallerOf, Standing, Early, Late
<1>2. Answered(c)' => ToldBut(c, {})'
  <2>1. CASE reply'[c].status = "error"
    BY <2>1 DEF Answered
  <2>2. CASE pc[c] \in Early
    BY <2>2, Steady DEF Deed, Untouched, ToldBut
  <2>3. CASE pc[c] \in {"chain", "finish"}
    <3>1. Untold(c) = {} /\ ToldBut(c, Untold(c))
      BY <2>3 DEF Tale, CallerOf, Untold, Late
    <3>2. CommitsOf(c)' = CommitsOf(c)
      BY Steady
    <3> QED BY <3>1, <3>2, ToldStays
  <2> QED BY <2>1, <2>2, <2>3
<1> QED BY <1>1, <1>2 DEF Tale, Late

\* Each step of a call keeps its tale.  A refusal, a conflict and an error,
LEMMA AnswerTale ==
  ASSUME TypeInv, NEW c \in Calls, Deed(c), Tale(c), audit[Wf(c)] \subseteq audit'[Wf(c)],
         UNCHANGED log, pc[c] # "idle", NEW r, Answer(c, r),
         r.status = "error" \/ pc[c] \in Early \/ pc[c] \in {"chain", "finish"}
  PROVE  Tale(c)'
<1>1. pc'[c] = "done" /\ req' = req /\ reply'[c] = r
  BY AnswerAlone DEF Alone
<1> QED BY <1>1, EndTale

\* the steps before the first commit,
LEMMA OpeningTale ==
  ASSUME TypeInv, NEW c \in Calls, Deed(c), Tale(c), audit[Wf(c)] \subseteq audit'[Wf(c)],
         \/ Admit(c) \/ LoadInstance(c) \/ LoadDefinition(c) \/ Get(c) \/ Gate(c)
         \/ ExecuteFails(c) \/ Execute(c)
  PROVE  Tale(c)'
<1>1. pc[c] \in Early /\ pc[c] # "idle" /\ UNCHANGED log
  BY DEF Admit, LoadInstance, LoadDefinition, Get, Gate, Refuse, ExecuteFails, Execute, Early,
         shared
<1>2. ASSUME NEW r, Answer(c, r) PROVE Tale(c)'
  BY <1>1, <1>2, AnswerTale
<1>3. ASSUME NEW point \in Early, NEW locals, Goto(c, point, locals),
             point \in {"create"} => locals.caller = "start",
             point \in Early \ {"admit", "load", "create"} => locals.caller = "submit"
      PROVE  Tale(c)'
  <2>1. pc'[c] = point /\ run'[c] = locals
    BY <1>1, <1>3, GotoAlone DEF Early
  <2>2. CallerOf(c)'
    BY <1>3, <2>1 DEF CallerOf, Early
  <2> QED BY <1>3, <2>1, <2>2, EarlyTale
<1>4. CASE Admit(c) \/ LoadInstance(c)
  BY <1>2, <1>3, <1>4 DEF Admit, LoadInstance, Bail, Early
<1>5. CASE Get(c) \/ ExecuteFails(c)
  BY <1>2, <1>5 DEF Get, ExecuteFails
<1>6. CASE LoadDefinition(c)
  <2>1. run[c] \in Runs /\ run[c].caller = "submit"
    BY <1>6 DEF LoadDefinition, TypeInv, TypeOK, LocalsOK, Tale, CallerOf, Early
  <2> DEFINE Loads(locals) == \/ locals = [run[c] EXCEPT !.def = live]
                              \/ \E inst : locals = [run[c] EXCEPT !.def = live, !.inst = inst]
  <2>2. PICK point \in {"saveTimeout", "respond", "gate"} :
          \E locals : Goto(c, point, locals) /\ Loads(locals)
    BY <1>6 DEF LoadDefinition
  <2>3. PICK locals : Goto(c, point, locals) /\ Loads(locals)
    BY <2>2
  <2>4. locals.caller = "submit"
    BY <2>1, <2>3 DEF Runs
  <2> QED BY <1>3, <2>2, <2>3, <2>4 DEF Early
<1>7. CASE Gate(c)
  <2>1. run[c] \in Runs /\ run[c].caller = "submit"
    BY <1>7, Holding DEF Gate, Settled, Tale, CallerOf, Early
  <2>2. ASSUME NEW t, Goto(c, "execute", [run[c] EXCEPT !.via = t]) PROVE Tale(c)'
    <3>1. [run[c] EXCEPT !.via = t].caller = "submit"
      BY <2>1 DEF Runs
    <3> QED BY <1>3, <2>2, <3>1 DEF Early
  <2> QED BY <1>2, <1>7, <2>2 DEF Gate, Refuse
<1>8. CASE Execute(c)
  <2>1. run[c] \in Runs /\ run[c].caller = "submit"
    BY <1>8, Holding DEF Execute, Settled, Tale, CallerOf, Early
  <2>2. PICK locals, inst, acc : Goto(c, "saveTransition", locals)
                                  /\ locals = [run[c] EXCEPT !.inst = inst, !.acc = acc]
    BY <1>8 DEF Execute
  <2>3. locals.caller = "submit"
    BY <2>1, <2>2 DEF Runs
  <2> QED BY <1>3, <2>2, <2>3 DEF Early
<1> QED BY <1>4, <1>5, <1>6, <1>7, <1>8

\* the saves,
LEMMA SavingTale ==
  ASSUME TypeInv, HistoryInv, NEW c \in Calls, Deed(c), Deed(c)', Tale(c),
         audit[Wf(c)] \subseteq audit'[Wf(c)],
         \/ Create(c) \/ SaveTimeout(c) \/ SaveTransition(c) \/ SaveOnEnter(c)
         \/ SaveChainStep(c)
  PROVE  Tale(c)'
<1>1. ASSUME pc[c] \in Saving, NEW expected, SaveConflict(c, expected) PROVE Tale(c)'
  BY <1>1, AnswerTale DEF SaveConflict, Bail, Saving, shared
<1>2. CASE Create(c)
  <2>1. pc[c] = "create" /\ Committed(c, "create") /\ Goto(c, "onEnter", run[c])
        /\ run[c].caller = "start"
    BY <1>2 DEF Create, Tale, CallerOf
  <2>2. pc'[c] = "onEnter" /\ run'[c] = run[c] /\ req' = req
    BY <2>1, GotoAlone
  <2>3. CallerOf(c)' /\ Standing(c)'
    BY <2>1, <2>2 DEF CallerOf, Standing, Early
  <2> QED BY <2>1, <2>2, <2>3, CommitTale DEF Late
<1>3. CASE SaveTimeout(c)
  <2>1. pc[c] = "saveTimeout" /\ CommitsOf(c) = {}
    BY <1>3 DEF SaveTimeout, Deed, Untouched, Early
  <2>2. ASSUME Committed(c, "timeout"), NEW r, Answer(c, r) PROVE Tale(c)'
    <3>1. pc'[c] = "done" /\ req' = req
      BY <2>1, <2>2, AnswerAlone DEF Alone
    <3>2. ToldBut(c, {})
      BY <2>1 DEF ToldBut
    <3>3. ToldBut(c, {})'
      BY <2>1, <2>2, <3>1, <3>2, ToldCommit DEF Saving
    <3> QED BY <3>1, <3>3 DEF Tale, CallerOf, Standing, Early, Late
  <2> QED BY <1>1, <1>3, <2>1, <2>2 DEF SaveTimeout, save_if_version, Saving
<1>4. CASE SaveTransition(c)
  <2>1. /\ pc[c] = "saveTransition" /\ run[c].caller = "submit" /\ How(pc[c]) = "transition"
        /\ req[c].expected = run[c].inst.version - 1 /\ run[c].inst.version \in Nat
        /\ req[c].op = "submit"
    BY <1>4, ExpectedIsBase, Holding
       DEF SaveTransition, Tale, CallerOf, Early, How, Saving, Instances, Deed, Purpose
  <2>2. ASSUME save_if_version(c, req[c].expected, "transition"), Goto(c, "evidence", run[c])
        PROVE  Tale(c)'
    <3>1. pc'[c] = "evidence" /\ run'[c] = run[c] /\ req' = req
      BY <2>1, <2>2, GotoAlone
    <3>2. /\ Len(log[Wf(c)]) = run[c].inst.version
          /\ log'[Wf(c)][run[c].inst.version + 1].inst = run[c].inst
      BY <2>1, <2>2, SaveHistory DEF Saving
    <3>3. First(c)' = run[c].inst.version + 1 /\ Latest(c)' = First(c)'
      BY <2>1, <3>1 DEF First, Latest
    <3>4. CallerOf(c)' /\ Standing(c)' /\ Untold(c)' = {run[c].inst.version + 1}
      BY <2>1, <3>1, <3>2, <3>3 DEF CallerOf, Standing, Untold, Early, Wf
    <3> QED BY <2>1, <2>2, <3>1, <3>2, <3>4, CommitTale DEF save_if_version, Saving, Late
  <2> QED BY <1>1, <1>4, <2>1, <2>2 DEF SaveTransition, Saving
<1>5. CASE SaveOnEnter(c)
  <2>1. pc[c] = "saveEnter" /\ How(pc[c]) = "onEnter" /\ run[c].inst.version \in Nat
    BY <1>5, Holding DEF SaveOnEnter, How, Saving, Instances
  <2>2. ASSUME save_if_version(c, run[c].inst.version - 1, "onEnter"), Goto(c, "entered", run[c])
        PROVE  Tale(c)'
    <3>1. pc'[c] = "entered" /\ run'[c] = run[c] /\ req' = req
      BY <2>1, <2>2, GotoAlone
    <3>2. /\ First(c)' = First(c) /\ Wf(c)' = Wf(c) /\ Latest(c)' = Latest(c) + 1
          /\ Untold(c)' = Untold(c)
      BY <2>1, <3>1 DEF First, Wf, Latest, Untold
    <3>3. \A i \in CommitsOf(c) : log'[Wf(c)][i] = log[Wf(c)][i]
      BY <2>1, <2>2, <3>1, Deposit DEF save_if_version, Saving
    <3>4. First(c) \in CommitsOf(c)
      BY <2>1 DEF Deed, Underway, Worked, Late
    <3>5. Standing(c)'
      BY <2>1, <3>1, <3>2, <3>3, <3>4 DEF Tale, Standing, Late
    <3>6. CallerOf(c)'
      BY <3>1 DEF CallerOf, Early
    <3> QED BY <2>1, <2>2, <3>1, <3>2, <3>5, <3>6, CommitTale DEF save_if_version, Saving, Late
  <2> QED BY <1>1, <1>5, <2>1, <2>2 DEF SaveOnEnter, Saving
<1>6. CASE SaveChainStep(c)
  <2>1. /\ pc[c] = "saveChain" /\ How(pc[c]) = "chain" /\ run[c].inst.version \in Nat
        /\ run[c] \in Runs /\ run[c].caller = "chain"
    BY <1>6, Holding DEF SaveChainStep, How, Saving, Instances, Tale, CallerOf
  <2>2. ASSUME save_if_version(c, run[c].inst.version - 1, "chain"),
               Goto(c, "evidence", [run[c] EXCEPT !.steps = @ + 1])
        PROVE  Tale(c)'
    <3>1. /\ pc'[c] = "evidence" /\ req' = req /\ run'[c].inst = run[c].inst
          /\ run'[c].caller = "chain"
      BY <2>1, <2>2, GotoAlone DEF Runs
    <3>2. Len(log[Wf(c)]) = run[c].inst.version
      BY <2>1, <2>2, SaveHistory DEF Saving
    <3>3. Untold(c)' = {run[c].inst.version + 1} /\ Untold(c) = {}
      BY <2>1, <3>1 DEF Untold, Latest
    <3>4. log'[Wf(c)][run[c].inst.version + 1].how = "chain"
      <4>1. log'[Wf(c)][Len(log[Wf(c)]) + 1] = Entry(c, "chain")
        BY <2>1, <2>2, <3>1, Deposit DEF save_if_version, Saving
      <4>2. Entry(c, "chain").how = "chain"
        BY DEF Entry
      <4> QED BY <3>2, <4>1, <4>2
    <3>5. CallerOf(c)' /\ Standing(c)'
      BY <3>1, <3>4 DEF CallerOf, Standing, Early, Wf
    <3> QED BY <2>1, <2>2, <3>1, <3>2, <3>3, <3>5, CommitTale DEF save_if_version, Saving, Late
  <2> QED BY <1>1, <1>6, <2>1, <2>2 DEF SaveChainStep, Saving
<1> QED BY <1>2, <1>3, <1>4, <1>5, <1>6

\* recording evidence and run_on_enter,
LEMMA EnteringTale ==
  ASSUME TypeInv, HistoryInv, NEW c \in Calls, Deed(c), Tale(c),
         audit[Wf(c)] \subseteq audit'[Wf(c)],
         RecordEvidence(c) \/ SkipOnEnter(c) \/ OnEnter(c) \/ Entered(c)
  PROVE  Tale(c)'
<1>1. /\ pc[c] \in {"evidence", "onEnter", "entered"} /\ UNCHANGED log
      /\ run[c] \in Runs /\ Wf(c) \in Workflows /\ pc[c] # "idle"
      /\ run[c].inst.version \in Nat
  <2>1. pc[c] \in {"evidence", "onEnter", "entered"} /\ UNCHANGED log
    BY DEF RecordEvidence, SkipOnEnter, OnEnter, Entered, shared
  <2> QED BY <2>1, Holding DEF Settled, Instances
<1>2. /\ First(c) \in Nat
      /\ log[Wf(c)][run[c].inst.version + 1].inst = run[c].inst
  BY <1>1, BoundsType DEF HistoryInv, CallInv, Snapshot, Settled
<1>3. CASE RecordEvidence(c)
  <2>1. pc[c] = "evidence" /\ Latest(c) = run[c].inst.version + 1
    BY <1>3 DEF RecordEvidence, Latest
  <2>2. CASE run[c].caller = "chain"
    <3>1. Goto(c, "onEnter", run[c]) /\ AuditedIfItCan(c, "transitioned", run[c].inst)
      BY <1>3, <2>2 DEF RecordEvidence
    <3>2. PICK taken \in BOOLEAN : Records(c, "transitioned", taken)
      BY <3>1, RecordsOrLoses
    <3>3. pc'[c] = "onEnter" /\ run'[c] = run[c] /\ req' = req
      BY <1>1, <3>1, GotoAlone
    <3>4. Told(c, Latest(c))'
      <4>1. PICK n : n = run[c].inst.version + 1
        OBVIOUS
      <4>2. log[Wf(c)][n].how = "chain"
        BY <2>1, <2>2, <4>1 DEF Tale, Standing
      <4>3. Told(c, n)'
        BY <1>1, <1>2, <3>2, <3>3, <4>1, <4>2, ToldNow
      <4> QED BY <3>3, <4>1, <4>3 DEF Latest
    <3>5. CallerOf(c)' /\ Standing(c)' /\ Untold(c) = {Latest(c)} /\ Latest(c)' = Latest(c)
      BY <2>1, <2>2, <3>3 DEF CallerOf, Standing, Early, Untold, Latest
    <3>6. \A i \in Untold(c) : Told(c, i)'
      BY <3>4, <3>5
    <3> QED BY <1>1, <3>3, <3>5, <3>6, LateTale DEF Late
  <2>3. CASE run[c].caller # "chain"
    <3>1. Goto(c, "onEnter", [run[c] EXCEPT !.acc = NoEvidence])
      BY <1>3, <2>3 DEF RecordEvidence
    <3>2. /\ pc'[c] = "onEnter" /\ req' = req /\ run'[c].inst = run[c].inst
          /\ run'[c].caller = run[c].caller
      BY <1>1, <3>1, GotoAlone DEF Runs
    <3>3. /\ First(c)' = First(c) /\ Wf(c)' = Wf(c) /\ Latest(c)' = Latest(c)
          /\ Untold(c)' = Untold(c)
      BY <2>1, <2>3, <3>2 DEF First, Wf, Latest, Untold
    <3>4. CallerOf(c)' /\ Standing(c)'
      BY <1>1, <2>1, <3>2, <3>3 DEF Tale, CallerOf, Standing, Early, Late
    <3> QED BY <1>1, <3>2, <3>3, <3>4, LateTale DEF Late
  <2> QED BY <2>2, <2>3
<1>4. CASE SkipOnEnter(c) \/ OnEnter(c)
  <2>1. pc[c] = "onEnter"
    BY <1>4 DEF SkipOnEnter, OnEnter
  <2>2. /\ req' = req /\ run'[c].inst.state = run[c].inst.state
        /\ run'[c].caller = run[c].caller /\ pc'[c] \in {"entered", "saveEnter"}
        /\ run'[c].inst.version = run[c].inst.version + (IF pc'[c] = "entered" THEN 0 ELSE 1)
    <3>1. CASE SkipOnEnter(c)
      <4>1. Goto(c, "entered", run[c])
        BY <3>1 DEF SkipOnEnter
      <4> QED BY <1>1, <4>1, GotoAlone
    <3>2. CASE OnEnter(c)
      <4>1. PICK new : Goto(c, "saveEnter", [run[c] EXCEPT !.inst = Successor(run[c].inst,
                               [state |-> run[c].inst.state, context |-> new])])
        BY <3>2 DEF OnEnter
      <4> QED BY <1>1, <4>1, GotoAlone DEF Runs, Successor
    <3> QED BY <1>4, <3>1, <3>2
  <2>3. /\ First(c)' = First(c) /\ Wf(c)' = Wf(c) /\ Latest(c)' = Latest(c)
        /\ Untold(c)' = Untold(c)
    BY <1>1, <2>1, <2>2 DEF First, Wf, Latest, Untold
  <2>4. CallerOf(c)' /\ Standing(c)'
    BY <1>1, <2>1, <2>2, <2>3 DEF Tale, CallerOf, Standing, Early, Late
  <2> QED BY <1>1, <2>2, <2>3, <2>4, LateTale DEF Late
<1>5. CASE Entered(c)
  <2>1. pc[c] = "entered" /\ Latest(c) = run[c].inst.version + 1
    BY <1>5 DEF Entered, Latest
  <2>2. PICK point \in {"chain", "finish"} : Goto(c, point, [run[c] EXCEPT !.caller = "chain"])
    BY <1>5 DEF Entered
  <2>3. /\ pc'[c] = point /\ req' = req /\ run'[c].caller = "chain"
    BY <1>1, <2>2, GotoAlone DEF Runs
  <2>4. CallerOf(c)' /\ Standing(c)'
    BY <2>2, <2>3 DEF CallerOf, Standing, Early
  <2>5. ASSUME NEW i \in Untold(c) PROVE Told(c, i)'
    <3>1. run[c].caller = "submit" /\ i = First(c)
      BY <2>1, <2>5 DEF Untold
    <3>2. /\ log[Wf(c)][First(c)].inst.state = run[c].inst.state
          /\ Latest(c) = First(c) \/ Latest(c) = First(c) + 1
      BY <2>1, <3>1 DEF Tale, Standing, Late
    <3>3. run[c].inst.version \in {i - 1, i}
      BY <1>1, <1>2, <2>1, <3>1, <3>2
    <3>4. Records(c, "transitioned", TRUE)
      BY <1>5, <3>1 DEF Entered, Audited, Records
    <3> QED BY <1>1, <2>3, <3>1, <3>2, <3>3, <3>4, ToldNow
  <2> QED BY <1>1, <2>1, <2>2, <2>3, <2>4, <2>5, LateTale DEF Late
<1> QED BY <1>3, <1>4, <1>5

\* and the deterministic chain and the answer after it.
LEMMA ChainTale ==
  ASSUME TypeInv, NEW c \in Calls, Deed(c), Tale(c), audit[Wf(c)] \subseteq audit'[Wf(c)],
         SelectionFails(c) \/ ChainStepFails(c) \/ ChainStep(c) \/ Finish(c)
  PROVE  Tale(c)'
<1>1. CASE SelectionFails(c) \/ ChainStepFails(c) \/ Finish(c)
  <2>1. pc[c] \in {"chain", "finish"} /\ UNCHANGED log
    BY <1>1 DEF SelectionFails, ChainStepFails, Finish, shared
  <2>2. \E r : Answer(c, r)
    BY <1>1 DEF SelectionFails, ChainStepFails, ChainFailed, Finish
  <2> QED BY <2>1, <2>2, AnswerTale
<1>2. CASE ChainStep(c)
  <2>1. pc[c] = "chain" /\ UNCHANGED log /\ run[c] \in Runs
    BY <1>2, Holding DEF ChainStep, Settled, shared
  <2>2. run[c].caller = "chain"
    BY <2>1 DEF Tale, CallerOf
  <2>3. PICK t, out : Goto(c, "saveChain", [run[c] EXCEPT !.inst = Successor(@, out), !.via = t,
                                                          !.acc = AddEvidence(@, Emitted(t))])
    BY <1>2 DEF ChainStep
  <2>4. pc'[c] = "saveChain" /\ req' = req /\ run'[c].caller = "chain"
    <3>1. /\ pc'[c] = "saveChain" /\ req' = req
          /\ run'[c] = [run[c] EXCEPT !.inst = Successor(@, out), !.via = t,
                                      !.acc = AddEvidence(@, Emitted(t))]
      BY <2>1, <2>3, GotoAlone
    <3>2. run'[c].caller = run[c].caller
      BY <2>1, <3>1 DEF Runs
    <3> QED BY <2>2, <3>1, <3>2
  <2>5. CallerOf(c)' /\ Standing(c)' /\ Untold(c) = {}
    BY <2>1, <2>2, <2>4 DEF CallerOf, Standing, Untold, Early
  <2> QED BY <2>1, <2>4, <2>5, LateTale DEF Late
<1> QED BY <1>1, <1>2

\* Every step of a call keeps its tale.
LEMMA OwnTale ==
  ASSUME TypeInv, HistoryInv, NEW c \in Calls, Deed(c), Tale(c), Step(c) \/ Fault(c),
         audit[Wf(c)] \subseteq audit'[Wf(c)]
  PROVE  Tale(c)'
<1>1. CASE Fault(c) \/ OnEnterFails(c)
  <2>1. pc[c] # "idle" /\ UNCHANGED log
    BY <1>1 DEF Fault, OnEnterFails, shared
  <2>2. \E code : Answer(c, [status |-> "error", code |-> code])
    BY <1>1 DEF Fault, OnEnterFails, Bail
  <2> QED BY <2>1, <2>2, AnswerTale
<1>2. Deed(c)'
  BY OwnDeed
<1> QED BY <1>1, <1>2, OpeningTale, SavingTale, EnteringTale, ChainTale DEF Step

\* A call that is left still keeps its tale.
LEMMA StillTells ==
  ASSUME TypeInv, NEW b \in Calls, Deed(b), Tale(b), Still(b),
         audit[Wf(b)] \subseteq audit'[Wf(b)]
  PROVE  Tale(b)'
<1>1. /\ First(b)' = First(b) /\ Latest(b)' = Latest(b) /\ Wf(b)' = Wf(b)
      /\ Untold(b)' = Untold(b) /\ (Answered(b)' <=> Answered(b))
  BY DEF Still, First, Latest, Wf, Untold, Answered
<1>2. CallerOf(b)'
  BY DEF Tale, CallerOf, Still
<1>3. Standing(b)'
  <2>1. pc[b] \in Late => First(b) \in CommitsOf(b)
    BY DEF Deed, Underway, Worked
  <2>2. ASSUME pc[b] = "evidence" PROVE run[b].inst.version + 1 \in CommitsOf(b)
    <3>1. First(b) \in CommitsOf(b) /\ CommitsOf(b) = First(b)..(run[b].inst.version + 1)
      BY <2>2 DEF Deed, Underway, Worked, Late, Latest
    <3>2. First(b) \in Nat /\ run[b].inst.version \in Nat
      BY <2>2, BoundsType, Holding DEF Settled, Instances
    <3> QED BY <3>1, <3>2
  <2> QED BY <1>1, <2>1, <2>2 DEF Tale, Standing, Still
<1>4. ASSUME NEW rest, ToldBut(b, rest) PROVE ToldBut(b, rest)'
  BY <1>4, ToldStays DEF Still
<1>5. pc[b] \in Late => ToldBut(b, Untold(b))'
  <2>1. PICK rest : rest = Untold(b)
    OBVIOUS
  <2>2. pc[b] \in Late => ToldBut(b, rest)'
    BY <1>4, <2>1 DEF Tale
  <2> QED BY <1>1, <2>1, <2>2 DEF ToldBut
<1>6. Answered(b)' => ToldBut(b, {})'
  BY <1>1, <1>4 DEF Tale
<1> QED BY <1>2, <1>3, <1>5, <1>6 DEF Tale, Still

\* TaleInv is inductive on top of the others.
LEMMA TaleStep == TypeInv /\ HistoryInv /\ DeedInv /\ TaleInv /\ [Next]_vars => TaleInv'
<1> SUFFICES ASSUME TypeInv, HistoryInv, DeedInv, TaleInv, [Next]_vars, NEW b \in Calls
             PROVE  Tale(b)'
  BY ReportedStep DEF TaleInv
<1>0. Tale(b) /\ Deed(b) /\ Owned
  BY DEF TaleInv, DeedInv
<1>1. pc[b] # "idle" => audit[Wf(b)] \subseteq audit'[Wf(b)]
  BY Naming, ReportedStep
<1>2. CASE Step(b) \/ Fault(b)
  <2>1. pc[b] # "idle"
    BY <1>2, StepFrame DEF Frame
  <2> QED BY <1>0, <1>1, <1>2, <2>1, OwnTale
<1>3. CASE pc[b] # "idle" /\ Still(b)
  BY <1>0, <1>1, <1>3, StillTells
<1>4. CASE pc'[b] = "idle" \/ Issued(b)
  BY <1>4 DEF Issued, Tale, CallerOf, Standing, Early, Late, Answered
<1>5. CASE Lost(b)
  BY <1>0, <1>1, <1>5, EndTale DEF Lost
<1> QED BY <1>0, <1>2, <1>3, <1>4, <1>5, StepOf

\* The audit trail tells the history: no event is about a version that was not
\* committed, the transition of an answered submit is in the trail, and so is every
\* chain step of an answered call but for those the sink failed on, which are no more
\* than the faults.
THEOREM AuditIsFaithful == Spec => []AuditTellsHistory
<1>1. Init => TaleInv
  <2> SUFFICES ASSUME Init PROVE TaleInv
    OBVIOUS
  <2>1. ASSUME NEW w \in Workflows PROVE Reported(w) /\ Losses(w)
    <3>1. audit[w] = {} /\ {e \in audit[w] : ~e.taken} = {} /\ faults = 0
      BY DEF Init
    <3> QED BY <3>1, FS_EmptySet DEF Reported, Losses
  <2>2. \A c \in Calls : Tale(c)
    BY DEF Init, Tale, CallerOf, Standing, Early, Late, Answered
  <2> QED BY <2>1, <2>2 DEF TaleInv
<1>2. ASSUME TypeInv, DeedInv, TaleInv PROVE AuditTellsHistory
  <2> SUFFICES ASSUME NEW w \in Workflows, NEW i \in DOMAIN log[w],
                      log[w][i].how \in {"transition", "chain"}, Answered(log[w][i].by)
               PROVE  \E e \in audit[w] : /\ e.type = "transitioned" /\ e.by = log[w][i].by
                                          /\ e.state = log[w][i].inst.state
                                          /\ e.version \in {i - 1, i}
                                          /\ e.taken \/ log[w][i].how = "chain"
    BY <1>2 DEF AuditTellsHistory, TaleInv, Reported, Losses
  <2> DEFINE c == log[w][i].by
  <2>1. c \in Calls /\ Wf(c) = w
    BY <1>2, EntryType DEF DeedInv, Owned, Wf
  <2>2. i \in CommitsOf(c)
    BY <2>1 DEF CommitsOf
  <2>3. ToldBut(c, {})
    BY <1>2, <2>1 DEF TaleInv, Tale
  <2>4. Told(c, i)
    BY <2>1, <2>2, <2>3 DEF ToldBut
  <2> QED BY <2>1, <2>4 DEF Told
<1> QED BY <1>1, <1>2, TypeInit, TypeStep, HistoryInit, HistoryStep, DeedInit, DeedStep,
           TaleStep, PTL DEF Spec

-----------------------------------------------------------------------------
\* The conditions under which links stay good: reloads bring no other definition, and
\* no fault loses the evidence.
OneDefinition == \A d, e \in Defs : d = e

NoFaults == MaxFaults = 0

\* Link n of the answer of a names a transition of the state it describes, whose lasting
\* guards pass now on the context of that version, if links are filtered by guards.
Good(a, n) ==
  \E t \in Outgoing(live, reply[a].state) :
    /\ t.name = n
    /\ Definitions[live].byGuards /\ reply[a].code # "CHAIN_FAILED" =>
         LastingGuards(t, log[Wf(a)][reply[a].version + 1].inst.context, req[a].who,
                       evidence[Wf(a)])

LinksInv == \A a \in Calls : Answered(a) => \A n \in reply[a].links : Good(a, n)

\* Without faults no evidence is lost and no other definition comes into force.
LEMMA Undisturbed ==
  ASSUME OneDefinition, NoFaults, TypeInv, TypeInv', [Next]_vars
  PROVE  live' = live /\ Gathers /\ ~Crash /\ \A c \in Calls : ~Fault(c)
<1>1. live' = live
  BY DEF OneDefinition, TypeInv, TypeOK
<1>2. ~Crash /\ \A c \in Calls : ~Fault(c)
  BY DEF NoFaults, TypeInv, TypeOK, Crash, Fault
<1>3. Gathers
  <2>1. CASE \E c \in Calls : Step(c)
    BY <2>1, StepFrame DEF Frame
  <2>2. CASE UNCHANGED evidence
    BY <2>2, EvidenceUntouched
  <2> QED BY <1>2, <2>1, <2>2
          DEF Next, World, Issue, begin_drain, Reload, Expire, Quiescent, vars, shared
<1> QED BY <1>1, <1>2, <1>3

\* Every link of a new answer is good: it was filtered on the evidence there is.
LEMMA NewLinks ==
  ASSUME OneDefinition, TypeInv, TypeInv', HistoryInv, live' = live, Gathers,
         NEW c \in Calls, Step(c), req' = req, pc'[c] = "done", reply'[c].status # "error",
         NEW n \in reply'[c].links
  PROVE  Good(c, n)'
<1> DEFINE inst == run[c].inst
           w == Wf(c)
<1>1. PICK status, code, recovery :
        reply'[c] = response(c, status, code, recovery) /\ Recovers(c, code, recovery)
  BY Answering
<1>2. /\ pc[c] \in Settled \cup Saving /\ log'[w][inst.version + 1].inst = inst
  BY Answering
<1>3. /\ run[c].def = live /\ w \in Workflows /\ inst \in Instances /\ w' = w
      /\ evidence[w] \in Tallies /\ evidence'[w] \in Tallies
      /\ \A k \in Kinds : evidence'[w][k] >= evidence[w][k]
  BY <1>2, Holding DEF OneDefinition, TypeInv, TypeOK, Gathers, Wf
<1>4. /\ reply'[c].version = inst.version /\ reply'[c].state = inst.state
      /\ reply'[c].code = code
      /\ reply'[c].links = recovery \cup filter_links_by_guards(live, inst.state, inst.context,
                                                               req[c].who, evidence[w])
  BY <1>1, <1>3 DEF response
<1> HIDE DEF inst, w
<1>5. CASE n \in recovery
  <2>1. code = "CHAIN_FAILED" /\ \E t \in Outgoing(live, inst.state) : t.name = n
    BY <1>1, <1>3, <1>5 DEF Recovers, inst
  <2> QED BY <1>4, <2>1 DEF Good
<1>6. CASE n \notin recovery
  <2>1. PICK t \in links(live, inst.state) :
          t.name = n /\ (Definitions[live].byGuards =>
                           GuardsPass(t, inst.context, req[c].who, NoArgs, evidence[w]))
    BY <1>4, <1>6 DEF filter_links_by_guards
  <2>2. t \in Outgoing(live, inst.state) /\ t.quorum \in Tallies
    <3>1. t \in Outgoing(live, inst.state)
      BY DEF links
    <3> QED BY <3>1, DefinitionType DEF Outgoing, Transitions, TypeInv, TypeOK
  <2>3. Definitions[live].byGuards => LastingGuards(t, inst.context, req[c].who, evidence'[w])
    BY <1>3, <2>1, <2>2, GuardsStayOpen DEF GuardsPass
  <2> QED BY <1>2, <1>3, <1>4, <2>1, <2>2, <2>3 DEF Good, w
<1> QED BY <1>5, <1>6

\* A good link stays good: its version stays committed and evidence is only added.
LEMMA GoodStays ==
  ASSUME TypeInv, TypeInv', live' = live, Gathers, Extends, NEW a \in Calls, Answered(a),
         AnswerTrue(a), req'[a] = req[a], reply'[a] = reply[a], NEW n, Good(a, n)
  PROVE  Good(a, n)'
<1> DEFINE w == Wf(a)
           ctx == log[w][reply[a].version + 1].inst.context
<1>1. /\ w \in Workflows /\ w' = w
      /\ log'[w][reply[a].version + 1] = log[w][reply[a].version + 1]
  <2>1. w \in Workflows
    BY Naming DEF Answered
  <2> QED BY <2>1 DEF AnswerTrue, Extends, Wf
<1>2. /\ evidence[w] \in Tallies /\ evidence'[w] \in Tallies
      /\ \A k \in Kinds : evidence'[w][k] >= evidence[w][k]
  BY <1>1 DEF TypeInv, TypeOK, Gathers
<1>3. PICK t \in Outgoing(live, reply[a].state) :
        /\ t.name = n
        /\ Definitions[live].byGuards /\ reply[a].code # "CHAIN_FAILED" =>
             LastingGuards(t, ctx, req[a].who, evidence[w])
  BY DEF Good
<1>4. t.quorum \in Tallies
  BY DefinitionType DEF Outgoing, Transitions, TypeInv, TypeOK
<1> HIDE DEF w, ctx
<1>5. Definitions[live].byGuards /\ reply[a].code # "CHAIN_FAILED" =>
        LastingGuards(t, ctx, req[a].who, evidence'[w])
  BY <1>2, <1>3, <1>4, GuardsStayOpen
<1> QED BY <1>1, <1>3, <1>5 DEF Good, w, ctx

\* LinksInv is inductive on top of the others.
LEMMA LinksStep ==
  ASSUME OneDefinition, NoFaults, TypeInv, HistoryInv, AnswersAreCommitted, LinksInv,
         [Next]_vars
  PROVE  LinksInv'
<1> SUFFICES ASSUME NEW a \in Calls, Answered(a)', NEW n \in reply'[a].links
             PROVE  Good(a, n)'
  BY DEF LinksInv
<1>1. TypeInv'
  BY TypeStep
<1>2. live' = live /\ Gathers /\ Extends
  BY <1>1, Undisturbed, DoneStays
<1>3. CASE pc[a] = "done"
  <2>1. req'[a] = req[a] /\ reply'[a] = reply[a] /\ Answered(a) /\ AnswerTrue(a)
    BY <1>3, DoneStays DEF Answered, AnswersAreCommitted, AnswerTrue
  <2> QED BY <1>1, <1>2, <2>1, GoodStays DEF LinksInv
<1>4. CASE pc[a] # "done"
  <2>1. Step(a) /\ req' = req /\ pc'[a] = "done" /\ reply'[a].status # "error"
    BY <1>4, DoneStays DEF Answered
  <2> QED BY <1>1, <1>2, <2>1, NewLinks
<1> QED BY <1>3, <1>4

\* A gate that refuses has judged the version it quotes, the one the link is about.
LEMMA GateJudges ==
  ASSUME OneDefinition, NoFaults, TypeInv, HistoryInv, AnswersAreCommitted, LinksInv,
         [Next]_vars, NEW a \in Calls, NEW b \in Calls, Answered(a), pc[b] = "gate",
         pc'[b] = "done", Wf(a) = Wf(b), reply[a].version = req[b].expected,
         req[b].name \in reply[a].links
  PROVE  /\ reply'[b].code # "INVALID_TRANSITION"
         /\ /\ Definitions[live].byGuards /\ reply[a].code # "CHAIN_FAILED"
            /\ req[a].who = req[b].who
            /\ \A t \in transition_definition(live, reply[a].state, req[b].name) :
                 t.bans = {} /\ req[b].args \in t.given
            => reply'[b].code # "GUARD_REJECTED"
<1>1. TypeInv'
  BY TypeStep
<1>2. Gate(b)
  <2>1. Step(b)
    <3>1. ~Crash /\ \A c \in Calls : ~Fault(c)
      BY <1>1, Undisturbed
    <3>2. ASSUME NEW c \in Calls, c # b, Step(c) PROVE FALSE
      BY <3>2, StepFrame DEF Frame
    <3>3. ASSUME NEW c \in Calls, Issue(c) PROVE FALSE
      BY <3>3 DEF Issue, TypeInv, TypeOK
    <3> QED BY <3>1, <3>2, <3>3 DEF Next, World, begin_drain, Reload, Expire, Quiescent, vars
  <2> QED BY <2>1
          DEF Step, Admit, Create, LoadInstance, LoadDefinition, SaveTimeout, Get, ExecuteFails,
              Execute, SaveTransition, RecordEvidence, SkipOnEnter, OnEnterFails, OnEnter,
              SaveOnEnter, Entered, SelectionFails, ChainStepFails, ChainStep, SaveChainStep,
              Finish
<1>3. /\ run[b].def = live /\ run[b] \in Runs /\ Wf(b) \in Workflows
      /\ run[b].inst.version + 1 \in DOMAIN log[Wf(b)]
      /\ log[Wf(b)][run[b].inst.version + 1].inst = run[b].inst
  BY Holding DEF OneDefinition, TypeInv, TypeOK, Settled, HistoryInv, CallInv, Snapshot
<1>4. log[Wf(b)][req[b].expected + 1].inst.state = reply[a].state
  BY DEF AnswersAreCommitted
<1>5. PICK t \in Outgoing(live, reply[a].state) :
        /\ t.name = req[b].name
        /\ Definitions[live].byGuards /\ reply[a].code # "CHAIN_FAILED" =>
             LastingGuards(t, log[Wf(b)][req[b].expected + 1].inst.context, req[a].who,
                           evidence[Wf(b)])
  BY DEF LinksInv, Good
<1>6. ASSUME NEW code, Refuse(b, code) PROVE reply'[b].code = code
  <2>1. reply'[b] = response(b, "rejected", code, {})
    BY <1>6, AnswerAlone DEF Refuse
  <2> QED BY <2>1 DEF response
<1>7. ASSUME NEW locals, Goto(b, "execute", locals) PROVE FALSE
  BY <1>7, GotoAlone
<1>8. CASE run[b].inst.version # req[b].expected
  BY <1>2, <1>6, <1>8 DEF Gate
<1>9. CASE run[b].inst.version = req[b].expected
  <2>1. run[b].inst.state = reply[a].state
    BY <1>3, <1>4, <1>9
  <2>2. t \in Named(b)
    BY <1>3, <1>5, <2>1 DEF Named, transition_definition
  <2>3. \A u \in Named(b) : u = t
    BY <1>3, <2>2, UniqueKeysAssumption DEF Named, transition_definition, Outgoing, TypeInv, TypeOK
  <2>4. Refuse(b, Verdict(b, t))
    BY <1>2, <1>7, <1>9, <2>2, <2>3 DEF Gate
  <2>5. reply'[b].code = Verdict(b, t)
    BY <1>6, <2>4
  <2>6. reply'[b].code # "INVALID_TRANSITION"
    BY <2>5 DEF Verdict
  <2>7. ASSUME Definitions[live].byGuards, reply[a].code # "CHAIN_FAILED",
               req[a].who = req[b].who, t.bans = {} /\ req[b].args \in t.given
        PROVE  reply'[b].code # "GUARD_REJECTED"
    <3>1. LastingGuards(t, run[b].inst.context, req[b].who, evidence[Wf(b)])
      BY <1>3, <1>5, <1>9, <2>7
    <3>2. GuardsPass(t, run[b].inst.context, req[b].who, req[b].args, evidence[Wf(b)])
      BY <2>7, <3>1 DEF GuardsPass
    <3> QED BY <2>5, <3>2 DEF Verdict
  <2> QED BY <1>3, <2>1, <2>2, <2>6, <2>7 DEF Named
<1> QED BY <1>8, <1>9

\* A link an answer offered is good while its version is current, for whoever follows it
\* and however much evidence other calls record: never an invalid transition and, where
\* links are filtered by guards and the arguments satisfy those that read them, never
\* refused by one.
THEOREM LinksStayGood ==
  ASSUME OneDefinition, NoFaults
  PROVE  Spec => LinksAreHonoured
<1>1. Init => LinksInv /\ AnswersAreCommitted
  BY DEF Init, LinksInv, AnswersAreCommitted, Answered
<1>2. TypeInv /\ HistoryInv /\ AnswersAreCommitted /\ LinksInv /\ [Next]_vars => LinksInv'
  BY LinksStep
<1>3. TypeInv /\ HistoryInv /\ AnswersAreCommitted /\ LinksInv /\ [Next]_vars =>
        [\A a, b \in Calls :
           /\ Answered(a) /\ pc[b] = "gate" /\ pc'[b] = "done"
           /\ Wf(a) = Wf(b) /\ reply[a].version = req[b].expected
           /\ req[b].name \in reply[a].links
           => /\ reply'[b].code # "INVALID_TRANSITION"
              /\ (/\ Definitions[live].byGuards /\ reply[a].code # "CHAIN_FAILED"
                  /\ req[a].who = req[b].who
                  /\ \A t \in transition_definition(live, reply[a].state, req[b].name) :
                       t.bans = {} /\ req[b].args \in t.given)
                   => reply'[b].code # "GUARD_REJECTED"]_vars
  BY GateJudges
<1> QED BY <1>1, <1>2, <1>3, TypeInit, TypeStep, HistoryInit, HistoryStep, AnswerStaysTrue,
           PTL DEF Spec, LinksAreHonoured
=============================================================================
