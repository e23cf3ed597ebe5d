------------------------------ MODULE FileStore ------------------------------
(***************************************************************************)
(* FileWorkflowStore: one JSON file per workflow, written to <id>.json.tmp *)
(* and renamed over <id>.json.  create and save_if_version hold one async  *)
(* mutex from the version check to the rename; load reads without it.      *)
(* Tasks of one gateway process, which may crash and be started again, run *)
(* one operation each.                                                     *)
(*                                                                         *)
(* tokio::fs hands the write and the rename to a blocking thread.  Where a *)
(* caller may drop an operation (MayDrop: a workflow executor under a      *)
(* timeoutMs), the mutex is released at once and the thread carries on.    *)
(***************************************************************************)
EXTENDS Naturals, Sequences

CONSTANTS
  Tasks,
  Ids,         \* workflow ids: file names
  MayDrop,     \* whether callers may drop an operation under way
  MaxFaults,   \* bound on crashes and I/O errors
  NoFile, Torn, Free, NoOp

Instances == [version : Nat, by : Tasks]

Operations == [call : {"create", "save", "load"}, id : Ids, expected : Nat]

ASSUME FileStoreAssumption ==
  /\ MayDrop \in BOOLEAN
  /\ MaxFaults \in Nat
  /\ NoFile # Torn /\ NoFile \notin Instances /\ Torn \notin Instances
  /\ Free \notin Tasks
  /\ NoOp \notin Operations

VARIABLES
  file,      \* <id>.json
  tmp,       \* <id>.json.tmp
  fd,        \* what a task that fills a file has open: that file, since renamed or not
  lock,      \* write_lock
  pc, op,    \* where each task is, and in which operation
  result,    \* what it returned
  dropped,   \* operations whose caller went away during a write
  history,   \* every instance renamed into place
  faults

disk == <<file, tmp, fd, history>>
vars == <<file, tmp, fd, lock, pc, op, result, dropped, history, faults>>

Contents == Instances \cup {NoFile, Torn}

Results == {"none", "ok", "collision", "not found", "stale", "unreadable", "io", "lost"}

\* The points of an operation that hold the mutex; the last three write.
Section == {"check", "truncate", "fill", "rename"}
Writing == {"truncate", "fill", "rename"}

Id(t) == op[t].id

\* What the operation of t writes: created at 0, or saved one past the expected.
instance(t) ==
  [version |-> IF op[t].call = "create" THEN 0 ELSE op[t].expected + 1, by |-> t]

Move(t, point) == pc' = [pc EXCEPT ![t] = point] /\ UNCHANGED result

Return(t, r) ==
  /\ pc' = [pc EXCEPT ![t] = "done"]
  /\ result' = [result EXCEPT ![t] = r]

\* Mutant: an error path that keeps the mutex.
BailHolding(t, r) == Return(t, r) /\ UNCHANGED lock

\* The guard of the mutex goes out of scope with the operation.
Bail(t, r) == Return(t, r) /\ lock' = Free

-----------------------------------------------------------------------------
\* The versions of workflow w that a caller may have loaded.
Loaded(w) == {history[w][i].version : i \in {j \in DOMAIN history[w] : history[w][j] # Torn}}

\* What a caller may ask: create under a fresh uuid, save over a version it has
\* loaded, load anything.
Requests ==
  {o \in [call : {"create"}, expected : {0}, id : Ids] :
     \A u \in Tasks : pc[u] # "idle" => op[u].call # "create" \/ Id(u) # o.id}
  \cup (UNION {[call : {"save"}, expected : Loaded(w), id : {w}] : w \in Ids})
  \cup [call : {"load"}, expected : {0}, id : Ids]

Call(t) ==
  /\ pc[t] = "idle"
  /\ \E request \in Requests :
       /\ op' = [op EXCEPT ![t] = request]
       /\ Move(t, IF request.call = "load" THEN "read" ELSE "lock")
  /\ UNCHANGED <<disk, lock, dropped, faults>>

\* load: the bytes of the file, without the mutex.
Load(t) ==
  /\ pc[t] = "read"
  /\ Return(t, CASE file[Id(t)] = NoFile -> "not found"
                 [] file[Id(t)] = Torn -> "unreadable"
                 [] OTHER -> "ok")
  /\ UNCHANGED <<disk, lock, op, dropped, faults>>

\* Mutant: nobody waits.
LockNot(t) ==
  /\ pc[t] = "lock"
  /\ lock' = t
  /\ Move(t, "check")
  /\ UNCHANGED <<disk, op, dropped, faults>>

Lock(t) ==
  /\ pc[t] = "lock" /\ lock = Free
  /\ lock' = t
  /\ Move(t, "check")
  /\ UNCHANGED <<disk, op, dropped, faults>>

\* Why the operation of t is refused, given what the file holds.
Verdict(t) ==
  LET existing == file[Id(t)]
  IN  CASE existing = Torn -> "unreadable"
        [] existing = NoFile -> IF op[t].call = "save" THEN "not found" ELSE "none"
        [] OTHER -> IF op[t].call = "create" THEN "collision"
                    ELSE IF existing.version # op[t].expected THEN "stale" ELSE "none"

Check(t) ==
  /\ pc[t] = "check"
  /\ IF Verdict(t) = "none" THEN Move(t, "truncate") /\ UNCHANGED lock
     ELSE Bail(t, Verdict(t))
  /\ UNCHANGED <<disk, op, dropped, faults>>

\* write_atomic: the temporary file is opened and truncated, ...
Truncate(t) ==
  /\ pc[t] = "truncate"
  /\ tmp' = [tmp EXCEPT ![Id(t)] = Torn]
  /\ fd' = [fd EXCEPT ![t] = "tmp"]
  /\ Move(t, "fill")
  /\ UNCHANGED <<file, history, lock, op, dropped, faults>>

\* ... filled (another writer's bytes may be the longer ones, and their tail stay), ...
Fill(t) ==
  /\ pc[t] = "fill"
  /\ LET old == IF fd[t] = "file" THEN file[Id(t)] ELSE tmp[Id(t)]
     IN  \E bytes \in {instance(t)} \cup (IF old = Torn THEN {} ELSE {Torn}) :
           /\ tmp' = IF fd[t] = "tmp" THEN [tmp EXCEPT ![Id(t)] = bytes] ELSE tmp
           /\ file' = IF fd[t] = "file" THEN [file EXCEPT ![Id(t)] = bytes] ELSE file
  /\ IF t \in dropped THEN Return(t, "lost") ELSE Move(t, "rename")
  /\ UNCHANGED <<fd, history, lock, op, dropped, faults>>

\* What u has open after a rename of the files of workflow w.
Renamed(u, w) ==
  IF pc[u] = "fill" /\ Id(u) = w
  THEN IF fd[u] = "tmp" THEN "file" ELSE "unlinked"
  ELSE fd[u]

\* ... and renamed, if it is still there.
Rename(t) ==
  /\ pc[t] = "rename"
  /\ IF tmp[Id(t)] = NoFile THEN UNCHANGED disk
     ELSE /\ file' = [file EXCEPT ![Id(t)] = tmp[Id(t)]]
          /\ tmp' = [tmp EXCEPT ![Id(t)] = NoFile]
          /\ fd' = [u \in Tasks |-> Renamed(u, Id(t))]
          /\ history' = [history EXCEPT ![Id(t)] = Append(@, tmp[Id(t)])]
  /\ IF t \in dropped THEN Return(t, "lost") /\ UNCHANGED lock
     ELSE Bail(t, IF tmp[Id(t)] = NoFile THEN "io" ELSE "ok")
  /\ UNCHANGED <<op, dropped, faults>>

-----------------------------------------------------------------------------
\* The disk refuses: a read, write or rename fails and `?` returns.
IoError(t) ==
  /\ pc[t] \in {"read"} \cup Section /\ t \notin dropped
  /\ faults < MaxFaults /\ faults' = faults + 1
  /\ Return(t, "io")
  /\ lock' = IF pc[t] = "read" THEN lock ELSE Free
  /\ UNCHANGED <<disk, op, dropped>>

\* The caller of t drops it while a blocking thread writes or renames.
Drop(t) ==
  /\ MayDrop /\ pc[t] \in Writing /\ t \notin dropped
  /\ dropped' = dropped \cup {t}
  /\ lock' = Free
  /\ UNCHANGED <<disk, pc, op, result, faults>>

\* The process dies; its files stay as they are.
Crash ==
  /\ faults < MaxFaults /\ faults' = faults + 1
  /\ LET Lost == {t \in Tasks : pc[t] \notin {"idle", "done"}}
     IN  /\ pc' = [t \in Tasks |-> IF t \in Lost THEN "done" ELSE pc[t]]
         /\ result' = [t \in Tasks |-> IF t \in Lost THEN "lost" ELSE result[t]]
  /\ lock' = Free
  /\ UNCHANGED <<disk, op, dropped>>

Init ==
  /\ file = [w \in Ids |-> NoFile] /\ tmp = [w \in Ids |-> NoFile]
  /\ fd = [t \in Tasks |-> "tmp"]
  /\ lock = Free
  /\ pc = [t \in Tasks |-> "idle"]
  /\ op = [t \in Tasks |-> NoOp]
  /\ result = [t \in Tasks |-> "none"]
  /\ dropped = {}
  /\ history = [w \in Ids |-> <<>>]
  /\ faults = 0

Step(t) == Load(t) \/ Lock(t) \/ Check(t) \/ Truncate(t) \/ Fill(t) \/ Rename(t)

Next ==
  \/ \E t \in Tasks : Call(t) \/ Step(t) \/ IoError(t) \/ Drop(t)
  \/ Crash
  \/ (\A t \in Tasks : pc[t] = "done") /\ UNCHANGED vars

Spec == Init /\ [][Next]_vars

\* Operations are polled and the disk answers.
FairSpec == Spec /\ \A t \in Tasks : WF_vars(Step(t))

-----------------------------------------------------------------------------
\* Every variable holds values of its kind, and the mutex is held by exactly the
\* operation between its lock and its return.
TypeOK ==
  /\ file \in [Ids -> Contents] /\ tmp \in [Ids -> Contents]
  /\ fd \in [Tasks -> {"tmp", "file", "unlinked"}]
  /\ lock \in Tasks \cup {Free}
  /\ pc \in [Tasks -> {"idle", "read", "lock", "done"} \cup Section]
  /\ op \in [Tasks -> Operations \cup {NoOp}]
  /\ result \in [Tasks -> Results]
  /\ dropped \subseteq Tasks
  /\ history \in [Ids -> Seq(Contents \ {NoFile})]
  /\ faults \in 0..MaxFaults
  /\ \A t \in Tasks :
       /\ pc[t] # "idle" => op[t] \in Operations
       /\ lock = t <=> pc[t] \in Section /\ t \notin dropped
       /\ t \in dropped => pc[t] \in Writing \cup {"done"}

\* No caller has dropped an operation on workflow w.
Undisturbed(w) == \A t \in dropped : Id(t) # w

\* store_file.rs:5-7, "the version check + write is one critical section. Loads read
\* directly off disk, they don't need the lock since file writes are atomic":
\* whatever crashes or fails midway, the file of a workflow is a whole instance.
FilesAreWhole == \A w \in Ids : file[w] # Torn

\* It is so for every workflow none of whose operations was dropped.
UndisturbedAreWhole == \A w \in Ids : Undisturbed(w) => file[w] # Torn

\* The files are a versioned store, with the rename as the step that saves.
Store == INSTANCE VersionedStore WITH register <- file, Writers <- Tasks,
                                    NoInstance <- NoFile

ImplementsStore == Store!StoreSpec

\* The steps of the files of undisturbed workflows are those of a versioned store:
\* no save is lost, whoever waits, fails or crashes.
SavesAreSteps ==
  [][\A w \in Ids :
       file'[w] # file[w] /\ Undisturbed(w) => Store!CreateOne(w) \/ Store!SaveOne(w)]_vars

\* Every operation returns, although all wait for one mutex.
EveryOperationReturns == \A t \in Tasks : (pc[t] # "idle") ~> (pc[t] = "done")
=============================================================================
