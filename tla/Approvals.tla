------------------------------ MODULE Approvals ------------------------------
(***************************************************************************)
(* Human approvals over the audit log: the human executor of the gateway   *)
(* writes requests to a JSONL file, the approvals commands, each a process *)
(* of its own, list and tail that file and append resolutions to it.       *)
(*                                                                         *)
(* The file is a sequence of chunks.  A chunk is the line of one event, or *)
(* the torn beginning of one whose write failed half way: it has no        *)
(* newline, so that a reader takes it and the next line for one line that  *)
(* does not parse.  The sink hands a line to a blocking thread and returns *)
(* before it is in the file.                                               *)
(***************************************************************************)
EXTENDS Naturals, Sequences, FiniteSets

CONSTANTS
  Tasks,      \* executions of the human executor, and the ids of their requests
  Reviewers,  \* runs of `approvals resolve`
  MaxFaults,  \* bound on I/O errors and crashes of the gateway
  Free, NoId

ASSUME ApprovalsAssumption ==
  /\ Tasks \cap Reviewers = {} /\ MaxFaults \in Nat
  /\ Free \notin Tasks /\ NoId \notin Tasks

VARIABLES
  file,       \* the audit log
  writing,    \* lines handed to blocking threads
  holder,     \* the task that holds the gateway's sink lock
  pc,         \* [Tasks \cup Reviewers -> where it is]
  chosen,     \* [Reviewers -> the id it resolves]
  listed,     \* [Reviewers -> the length of the log it listed, 0 if told by tail]
  tail,       \* "off", "sleep" or "read"
  start,      \* the length of the log when the tail command began
  last,       \* last_size
  current,    \* current_size
  printed,    \* requests the tail command has shown
  faults,
  lost,       \* requests that no reader of the log will find
  skipped     \* positions the tail command passed over for want of the file

sink == <<file, writing, holder>>
tails == <<tail, start, last, current, printed, skipped>>
vars == <<file, writing, holder, pc, chosen, listed,
          tail, start, last, current, printed, skipped, faults, lost>>

Lines == [kind : {"requested"}, id : Tasks, by : Tasks]
           \cup [kind : {"resolved"}, id : Tasks, by : Reviewers]

Torn == [kind |-> "torn"]

Line(kind, id, by) == [kind |-> kind, id |-> id, by |-> by]

-----------------------------------------------------------------------------
\* The positions a reader that starts at from can parse.
Visible(from) ==
  {i \in from..Len(file) : /\ file[i] # Torn
                           /\ i = from \/ file[i - 1] # Torn}

Events(kind, from) == {file[i].id : i \in {j \in Visible(from) : file[j].kind = kind}}

\* Mutant: list forgets the resolutions.
PendingAll == Events("requested", 1)

\* What `approvals list` prints.
Pending == Events("requested", 1) \ Events("resolved", 1)

-----------------------------------------------------------------------------
(***************************************************************************)
(* The human executor and the sink of the gateway.                         *)
(***************************************************************************)
Execute(t) ==
  /\ pc[t] = "idle"
  /\ pc' = [pc EXCEPT ![t] = "lock"]
  /\ UNCHANGED <<sink, chosen, listed, tails, faults, lost>>

Lock(t) ==
  /\ pc[t] = "lock" /\ holder = Free
  /\ holder' = t
  /\ pc' = [pc EXCEPT ![t] = "open"]
  /\ UNCHANGED <<file, writing, chosen, listed, tails, faults, lost>>

\* Mutant: the line stays in a buffer that is never flushed.
RecordBuffered(t) ==
  /\ pc[t] = "open"
  /\ holder' = Free
  /\ pc' = [pc EXCEPT ![t] = "queued"]
  /\ UNCHANGED <<file, writing, chosen, listed, tails, faults, lost>>

\* record returns once the line is handed over; the executor answers "queued" and
\* its transition commits.
Record(t) ==
  /\ pc[t] = "open"
  /\ writing' = writing \cup {Line("requested", t, t)}
  /\ holder' = Free
  /\ pc' = [pc EXCEPT ![t] = "queued"]
  /\ UNCHANGED <<file, chosen, listed, tails, faults, lost>>

\* Mutant: the lock is kept when the file cannot be opened.
RecordFailsLocked(t) ==
  /\ pc[t] = "open" /\ faults < MaxFaults
  /\ pc' = [pc EXCEPT ![t] = "queued"]
  /\ faults' = faults + 1
  /\ lost' = lost \cup {t}
  /\ UNCHANGED <<sink, chosen, listed, tails>>

\* The file cannot be opened; the executor ignores the error and answers "queued".
RecordFails(t) ==
  /\ pc[t] = "open" /\ faults < MaxFaults
  /\ holder' = Free
  /\ pc' = [pc EXCEPT ![t] = "queued"]
  /\ faults' = faults + 1
  /\ lost' = lost \cup {t}
  /\ UNCHANGED <<file, writing, chosen, listed, tails>>

Garbles == file # <<>> /\ file[Len(file)] = Torn

\* Requests among lines.
Asked(lines) == {l.id : l \in {m \in lines : m.kind = "requested"}}

\* A blocking thread appends its line, in one write.
Write(l) ==
  /\ l \in writing
  /\ file' = Append(file, l)
  /\ writing' = writing \ {l}
  /\ lost' = IF Garbles THEN lost \cup Asked({l}) ELSE lost
  /\ UNCHANGED <<holder, pc, chosen, listed, tails, faults>>

\* Its write fails, perhaps half way; nobody is told.
WriteFails(l) ==
  /\ l \in writing /\ faults < MaxFaults
  /\ file' \in {file, Append(file, Torn)}
  /\ writing' = writing \ {l}
  /\ faults' = faults + 1
  /\ lost' = lost \cup Asked({l})
  /\ UNCHANGED <<holder, pc, chosen, listed, tails>>

\* The gateway dies with the lines it had handed over and restarts.
Crash ==
  /\ faults < MaxFaults
  /\ faults' = faults + 1
  /\ LET Gone == {l \in writing : l.kind = "requested"}
     IN  /\ writing' = writing \ Gone
         /\ lost' = lost \cup Asked(Gone)
  /\ holder' = Free
  /\ pc' = [p \in Tasks \cup Reviewers |-> IF pc[p] \in {"lock", "open"} THEN "dead" ELSE pc[p]]
  /\ UNCHANGED <<file, chosen, listed, tails>>

-----------------------------------------------------------------------------
(***************************************************************************)
(* The approvals commands.                                                 *)
(***************************************************************************)
\* A human takes an id from a list, or from what the tail command printed.
Choose(v) ==
  /\ pc[v] = "idle"
  /\ \E t \in Tasks : /\ \/ t \in Pending /\ listed' = [listed EXCEPT ![v] = Len(file)]
                         \/ t \in printed /\ UNCHANGED listed
                      /\ chosen' = [chosen EXCEPT ![v] = t]
  /\ pc' = [pc EXCEPT ![v] = "chosen"]
  /\ UNCHANGED <<sink, tails, faults, lost>>

\* `approvals resolve` finds the request in the log, resolved or not.
Find(v) ==
  /\ pc[v] = "chosen"
  /\ pc' = [pc EXCEPT ![v] = IF chosen[v] \in Events("requested", 1) THEN "found"
                                                                    ELSE "refused"]
  /\ UNCHANGED <<sink, chosen, listed, tails, faults, lost>>

Resolve(v) ==
  /\ pc[v] = "found"
  /\ writing' = writing \cup {Line("resolved", chosen[v], v)}
  /\ pc' = [pc EXCEPT ![v] = "exit"]
  /\ UNCHANGED <<file, holder, chosen, listed, tails, faults, lost>>

\* The process ends when its blocking threads have.
Exit(v) ==
  /\ pc[v] = "exit" /\ \A l \in writing : l.by # v
  /\ pc' = [pc EXCEPT ![v] = "resolved"]
  /\ UNCHANGED <<sink, chosen, listed, tails, faults, lost>>

TailStart ==
  /\ tail = "off"
  /\ tail' = "sleep"
  /\ start' = Len(file) /\ last' = Len(file)
  /\ UNCHANGED <<sink, pc, chosen, listed, current, printed, skipped, faults, lost>>

\* Every half second: has the log grown?
TailStat ==
  /\ tail = "sleep" /\ Len(file) > last
  /\ current' = Len(file)
  /\ tail' = "read"
  /\ UNCHANGED <<sink, pc, chosen, listed, start, last, printed, skipped, faults, lost>>

\* Mutant: the position is taken after the reading.
TailReadThenStat ==
  /\ tail = "read"
  /\ \E n \in current..Len(file) :
       printed' = printed \cup {file[i].id : i \in {j \in Visible(last + 1) :
                                  j <= n /\ file[j].kind = "requested"}}
  /\ last' = Len(file)
  /\ tail' = "sleep"
  /\ UNCHANGED <<sink, pc, chosen, listed, start, current, skipped, faults, lost>>

\* It reads from where it was to the end of the log, which may have grown again
\* since, and goes on from the size it saw before: nothing is skipped, though a
\* line that came in between is printed twice.
TailRead ==
  /\ tail = "read"
  /\ printed' = printed \cup Events("requested", last + 1)
  /\ last' = current
  /\ tail' = "sleep"
  /\ UNCHANGED <<sink, pc, chosen, listed, start, current, skipped, faults, lost>>

\* The file cannot be opened: the position moves on all the same.
TailReadFails ==
  /\ tail = "read" /\ faults < MaxFaults
  /\ faults' = faults + 1
  /\ skipped' = skipped \cup (last + 1)..current
  /\ last' = current
  /\ tail' = "sleep"
  /\ UNCHANGED <<sink, pc, chosen, listed, start, current, printed, lost>>

-----------------------------------------------------------------------------
Init ==
  /\ file = <<>> /\ writing = {} /\ holder = Free
  /\ pc = [p \in Tasks \cup Reviewers |-> "idle"]
  /\ chosen = [v \in Reviewers |-> NoId]
  /\ listed = [v \in Reviewers |-> 0]
  /\ tail = "off" /\ start = 0 /\ last = 0 /\ current = 0
  /\ printed = {} /\ skipped = {}
  /\ faults = 0 /\ lost = {}

Task(t) == Lock(t) \/ Record(t) \/ RecordFails(t)

TailStep == TailStat \/ TailRead \/ TailReadFails

Next ==
  \/ \E t \in Tasks : Execute(t) \/ Task(t)
  \/ \E l \in writing : Write(l) \/ WriteFails(l)
  \/ \E v \in Reviewers : Choose(v) \/ Find(v) \/ Resolve(v) \/ Exit(v)
  \/ TailStart \/ TailStep
  \/ Crash

Spec == Init /\ [][Next]_vars

\* Tasks that execute are polled and get the lock in turn, blocking threads run,
\* and so does the tail command; reviewers owe nothing.
FairSpec ==
  /\ Spec
  /\ \A t \in Tasks : WF_vars(Task(t)) /\ SF_vars(Lock(t))
  /\ \A l \in Lines : WF_vars(Write(l) \/ WriteFails(l))
  /\ WF_vars(TailStep)

-----------------------------------------------------------------------------
TypeOK ==
  /\ file \in Seq(Lines \cup {Torn})
  /\ writing \subseteq Lines
  /\ holder \in Tasks \cup {Free}
  /\ pc \in [Tasks \cup Reviewers ->
               {"idle", "lock", "open", "queued", "dead",
                "chosen", "found", "refused", "exit", "resolved"}]
  /\ chosen \in [Reviewers -> Tasks \cup {NoId}]
  /\ listed \in [Reviewers -> Nat]
  /\ tail \in {"off", "sleep", "read"}
  /\ start \in Nat /\ last \in Nat /\ current \in Nat
  /\ printed \subseteq Tasks /\ skipped \subseteq Nat
  /\ faults \in 0..MaxFaults /\ lost \subseteq Tasks
  /\ \A t \in Tasks : holder = t <=> pc[t] = "open"

\* The tail command shows every request that comes in while it runs: none before its
\* position was left out, however the log grows between its stat and its read,
\* unless the line does not parse or the file could not be opened then.
TailMissesNothing ==
  /\ last <= Len(file)
  /\ \A i \in Visible(1) :
       i \in (start + 1)..last /\ i \notin skipped /\ file[i].kind = "requested"
         => file[i].id \in printed

\* Resolutions are founded: each comes after its request in the log.  A request is
\* resolved twice only in a race (resolve does not look for an earlier one): the
\* later reviewer had listed the log before the first resolution was in it, or had
\* the id from the tail command.
ResolutionsAreFounded ==
  \A j \in DOMAIN file : file[j] # Torn /\ file[j].kind = "resolved" =>
    /\ \E i \in Visible(1) : i < j /\ file[i].kind = "requested" /\ file[i].id = file[j].id
    /\ \A i \in Visible(1) :
         i < j /\ file[i].kind = "resolved" /\ file[i].id = file[j].id => listed[file[j].by] < i

\* Every request of an executor that answered "queued" comes to be in the log for
\* reviewers to find, unless an I/O error or a crash took it -- its own, or that of
\* the line before, whose torn end swallows it.
QueuedAreSeen ==
  \A t \in Tasks : (pc[t] = "queued" /\ t \notin lost) ~>
                     (t \in Events("requested", 1) \/ t \in lost)
=============================================================================
