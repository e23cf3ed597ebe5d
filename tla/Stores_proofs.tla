--------------------------- MODULE Stores_proofs ---------------------------
(***************************************************************************)
(* The file store holds whole instances and saves them by compare-and-swap,*)
(* and the databases are atomic, for any number of tasks and workflows,    *)
(* whatever crashes or fails.                                              *)
(***************************************************************************)
EXTENDS MCStores, TLAPS

\* One fault more stays within the bound.
LEMMA OneMore == ASSUME NEW n \in Nat, NEW f \in 0..n, f < n PROVE f + 1 \in 0..n
OBVIOUS

\* One rename more is still a history.
LEMMA Appended == ASSUME NEW S, NEW q \in Seq(S), NEW e \in S PROVE Append(q, e) \in Seq(S)
OBVIOUS

USE FileStoreAssumption

(***************************************************************************)
(* Types, and who holds the mutex.                                         *)
(***************************************************************************)
\* What a caller asks is an operation.
LEMMA RequestsAreOperations ==
  ASSUME TypeOK, NEW r \in Requests
  PROVE  r \in Operations
<1>1. CASE r \in [call : {"create"}, expected : {0}, id : Ids]
  BY <1>1 DEF Operations
<1>2. CASE r \in [call : {"load"}, expected : {0}, id : Ids]
  BY <1>2 DEF Operations
<1>3. CASE \E w \in Ids : r \in [call : {"save"}, expected : Loaded(w), id : {w}]
  <2>1. PICK w \in Ids : r \in [call : {"save"}, expected : Loaded(w), id : {w}]
    BY <1>3
  <2>2. PICK j \in DOMAIN history[w] : history[w][j] # Torn /\ r.expected = history[w][j].version
    BY <2>1 DEF Loaded
  <2>3. history[w][j] \in Instances
    BY <2>2 DEF TypeOK, Contents
  <2> QED BY <2>1, <2>2, <2>3 DEF Operations, Instances
<1> QED BY <1>1, <1>2, <1>3 DEF Requests

\* What an operation writes is an instance.
LEMMA InstancesAreInstances ==
  ASSUME NEW t \in Tasks, op[t] \in Operations
  PROVE  instance(t) \in Instances
BY DEF instance, Operations, Instances

LEMMA TypeInit == Init => TypeOK
<1> SUFFICES ASSUME Init PROVE TypeOK
  OBVIOUS
<1>1. \A w \in Ids : <<>> \in Seq(Contents \ {NoFile})
  OBVIOUS
<1> QED BY <1>1 DEF Init, TypeOK, Contents, Section, Writing, Results

LEMMA TypeStep == TypeOK /\ [Next]_vars => TypeOK'
<1> SUFFICES ASSUME TypeOK, [Next]_vars PROVE TypeOK'
  OBVIOUS
<1> USE DEF TypeOK, Section, Writing, Results
<1>1. ASSUME NEW t \in Tasks, Call(t) PROVE TypeOK'
  <2>1. PICK r \in Requests :
          /\ op' = [op EXCEPT ![t] = r]
          /\ Move(t, IF r.call = "load" THEN "read" ELSE "lock")
    BY <1>1 DEF Call
  <2>2. r \in Operations
    BY <2>1, RequestsAreOperations
  <2> QED BY <1>1, <2>1, <2>2 DEF Call, Move, disk
<1>2. ASSUME NEW t \in Tasks, Load(t) PROVE TypeOK'
  BY <1>2 DEF Load, Return, disk
<1>3. ASSUME NEW t \in Tasks, Lock(t) PROVE TypeOK'
  <2>1. t \notin dropped
    BY <1>3 DEF Lock
  <2> QED BY <1>3, <2>1 DEF Lock, Move, disk
<1>4. ASSUME NEW t \in Tasks, Check(t) PROVE TypeOK'
  <2>1. lock = t /\ t \notin dropped
    BY <1>4 DEF Check
  <2>2. CASE Move(t, "truncate") /\ UNCHANGED lock
    BY <1>4, <2>1, <2>2 DEF Check, Move, disk
  <2>3. CASE Bail(t, Verdict(t))
    <3>1. Verdict(t) \in Results
      BY DEF Verdict
    <3> QED BY <1>4, <2>1, <2>3, <3>1 DEF Check, Bail, Return, disk
  <2> QED BY <1>4, <2>2, <2>3 DEF Check
<1>5. ASSUME NEW t \in Tasks, Truncate(t) PROVE TypeOK'
  BY <1>5 DEF Truncate, Move, Contents, disk
<1>6. ASSUME NEW t \in Tasks, Fill(t) PROVE TypeOK'
  <2>1. instance(t) \in Instances
    BY <1>6, InstancesAreInstances DEF Fill
  <2>2. PICK bytes \in Contents :
          /\ tmp' = IF fd[t] = "tmp" THEN [tmp EXCEPT ![Id(t)] = bytes] ELSE tmp
          /\ file' = IF fd[t] = "file" THEN [file EXCEPT ![Id(t)] = bytes] ELSE file
    BY <1>6, <2>1 DEF Fill, Contents
  <2>3. file' \in [Ids -> Contents] /\ tmp' \in [Ids -> Contents]
    BY <2>2
  <2> QED BY <1>6, <2>3 DEF Fill, Move, Return
<1>7. ASSUME NEW t \in Tasks, Rename(t) PROVE TypeOK'
  <2>1. op[t] \in Operations /\ Id(t) \in Ids
    BY <1>7 DEF Rename, Operations, Id
  <2>2. /\ file' \in [Ids -> Contents] /\ tmp' \in [Ids -> Contents]
        /\ fd' \in [Tasks -> {"tmp", "file", "unlinked"}]
        /\ history' \in [Ids -> Seq(Contents \ {NoFile})]
    <3>1. CASE tmp[Id(t)] = NoFile
      BY <1>7, <3>1 DEF Rename, disk
    <3>2. CASE tmp[Id(t)] # NoFile
      <4>1. tmp[Id(t)] \in Contents \ {NoFile} /\ NoFile \in Contents
        BY <2>1, <3>2 DEF Contents
      <4>2. Append(history[Id(t)], tmp[Id(t)]) \in Seq(Contents \ {NoFile})
        <5>1. history[Id(t)] \in Seq(Contents \ {NoFile})
          BY <2>1
        <5> QED BY <4>1, <5>1, Appended
      <4>3. /\ file' = [file EXCEPT ![Id(t)] = tmp[Id(t)]]
            /\ tmp' = [tmp EXCEPT ![Id(t)] = NoFile]
            /\ fd' = [u \in Tasks |-> Renamed(u, Id(t))]
            /\ history' = [history EXCEPT ![Id(t)] = Append(@, tmp[Id(t)])]
        BY <1>7, <3>2 DEF Rename
      <4>4. \A u \in Tasks : Renamed(u, Id(t)) \in {"tmp", "file", "unlinked"}
        BY DEF Renamed
      <4> QED BY <4>1, <4>2, <4>3, <4>4
    <3> QED BY <3>1, <3>2
  <2>3. /\ pc' = [pc EXCEPT ![t] = "done"]
        /\ result' \in [Tasks -> Results]
        /\ UNCHANGED <<op, dropped, faults>>
    BY <1>7 DEF Rename, Bail, Return
  <2>4. lock' = IF t \in dropped THEN lock ELSE Free
    BY <1>7 DEF Rename, Bail
  <2>5. pc[t] = "rename"
    BY <1>7 DEF Rename
  <2>6. \A u \in Tasks : lock' = u <=> pc'[u] \in Section /\ u \notin dropped'
    BY <2>3, <2>4, <2>5, FileStoreAssumption DEF FileStoreAssumption
  <2> QED BY <2>1, <2>2, <2>3, <2>4, <2>5, <2>6
<1>8. ASSUME NEW t \in Tasks, IoError(t) PROVE TypeOK'
  <2>1. faults' \in 0..MaxFaults
    <3>1. faults \in 0..MaxFaults /\ faults < MaxFaults /\ faults' = faults + 1 /\ MaxFaults \in Nat
      BY <1>8 DEF IoError, FileStoreAssumption
    <3> QED BY <3>1, OneMore
  <2>2. CASE pc[t] = "read"
    BY <1>8, <2>1, <2>2 DEF IoError, Return, disk
  <2>3. CASE pc[t] # "read"
    <3>1. lock = t
      BY <1>8, <2>3 DEF IoError
    <3> QED BY <1>8, <2>1, <2>3, <3>1 DEF IoError, Return, disk
  <2> QED BY <2>2, <2>3
<1>9. ASSUME NEW t \in Tasks, Drop(t) PROVE TypeOK'
  BY <1>9 DEF Drop, disk
<1>10. CASE Crash
  <2>1. faults' \in 0..MaxFaults
    <3>1. faults \in 0..MaxFaults /\ faults < MaxFaults /\ faults' = faults + 1 /\ MaxFaults \in Nat
      BY <1>10 DEF Crash, FileStoreAssumption
    <3> QED BY <3>1, OneMore
  <2>2. \A u \in Tasks : pc'[u] \in {"idle", "done"} /\ (pc'[u] = "idle" <=> pc[u] = "idle")
    BY <1>10 DEF Crash
  <2>3. pc' \in [Tasks -> {"idle", "done"}] /\ result' \in [Tasks -> Results]
    BY <1>10, <2>2 DEF Crash
  <2>4. /\ lock' = Free
        /\ UNCHANGED <<file, tmp, fd, history, op, dropped>>
    BY <1>10 DEF Crash, disk
  <2> QED BY <2>1, <2>2, <2>3, <2>4
<1>11. CASE UNCHANGED vars
  BY <1>11 DEF vars
<1> QED BY <1>1, <1>2, <1>3, <1>4, <1>5, <1>6, <1>7, <1>8, <1>9, <1>10, <1>11
        DEF Next, Step

\* Every variable holds values of its kind, and the mutex is held by exactly the
\* operation between its lock and its return, whatever fails, crashes or is dropped.
THEOREM FileStoreTyped == Spec => []TypeOK
<1>1. Init => TypeOK
  BY TypeInit
<1>2. TypeOK /\ [Next]_vars => TypeOK'
  BY TypeStep
<1> QED BY <1>1, <1>2, PTL DEF Spec

(***************************************************************************)
(* Whole files and compare-and-swap.  While an operation is in the section *)
(* it alone writes the files of its workflow, so what it checked still     *)
(* holds when it renames, and what it renames is what it wrote.            *)
(***************************************************************************)
\* The check of the operation of t holds of the file.
Ready(t) ==
  \/ op[t].call = "create" /\ file[Id(t)] = NoFile
  \/ /\ op[t].call = "save" /\ file[Id(t)] \in Instances
     /\ file[Id(t)].version = op[t].expected

\* What an operation in its section knows of the files of its workflow.
Knows(t) ==
  /\ pc[t] \in {"lock"} \cup Section => op[t].call \in {"create", "save"}
  /\ Undisturbed(Id(t)) /\ pc[t] \in Writing =>
       /\ Ready(t)
       /\ pc[t] = "fill" => fd[t] = "tmp" /\ tmp[Id(t)] = Torn
       /\ pc[t] = "rename" => tmp[Id(t)] = instance(t)

StoreInv ==
  /\ TypeOK
  /\ \A t \in Tasks : Knows(t)
  /\ UndisturbedAreWhole
  /\ MayDrop = FALSE => dropped = {}

\* No two operations are in the section at once, but for dropped ones.
LEMMA OneInSection ==
  ASSUME TypeOK, NEW t \in Tasks, NEW u \in Tasks,
         pc[t] \in Section \ {"check"}, pc[u] \in Section, Id(t) = Id(u), Undisturbed(Id(t))
  PROVE  t = u
BY DEF TypeOK, Undisturbed, Section, Writing

\* A step that leaves the files, operations and points of the others as they are
\* leaves what they know.
LEMMA KnowsFrame ==
  ASSUME NEW u \in Tasks, Knows(u), UNCHANGED <<op, dropped>>, pc'[u] = pc[u],
         fd'[u] = fd[u], file'[Id(u)] = file[Id(u)], tmp'[Id(u)] = tmp[Id(u)]
  PROVE  Knows(u)'
BY DEF Knows, Ready, Undisturbed, Id, instance

\* The one step that changes a file of an undisturbed workflow is a rename, and
\* it creates or saves.
LEMMA FileSteps ==
  ASSUME StoreInv, Next, NEW w \in Ids, file'[w] # file[w], Undisturbed(w)
  PROVE  \E t \in Tasks : /\ Rename(t) /\ Id(t) = w /\ Ready(t)
                          /\ file' = [file EXCEPT ![w] = instance(t)]
                          /\ instance(t) \in Instances
<1> USE DEF StoreInv
<1>1. PICK t \in Tasks : Fill(t) \/ Rename(t)
  BY DEF Next, Step, Call, Load, Lock, Check, Truncate, IoError, Drop, Crash, vars, disk
<1>2. op[t] \in Operations /\ Id(t) \in Ids
  BY <1>1 DEF Fill, Rename, TypeOK, Operations, Id
<1>3. ASSUME Fill(t) PROVE FALSE
  <2>1. fd[t] = "file"
    BY <1>3 DEF Fill
  <2>2. Id(t) = w
    BY <1>2, <1>3, <2>1 DEF Fill, TypeOK
  <2>3. Knows(t) /\ pc[t] = "fill"
    BY <1>3 DEF Fill
  <2> QED BY <2>1, <2>2, <2>3 DEF Knows, Writing
<1>4. Rename(t) /\ file' = [file EXCEPT ![Id(t)] = tmp[Id(t)]] /\ pc[t] = "rename"
  BY <1>1, <1>3 DEF Rename, disk
<1>5. Id(t) = w
  BY <1>2, <1>4 DEF TypeOK
<1>6. Knows(t)
  OBVIOUS
<1>7. Ready(t) /\ tmp[Id(t)] = instance(t)
  BY <1>4, <1>5, <1>6 DEF Knows, Writing
<1> QED BY <1>2, <1>4, <1>5, <1>7, InstancesAreInstances

LEMMA StoreInit == Init => StoreInv
<1> SUFFICES ASSUME Init PROVE StoreInv
  OBVIOUS
<1>1. TypeOK
  BY TypeInit
<1>2. \A t \in Tasks : Knows(t)
  BY DEF Init, Knows, Section, Writing
<1>3. UndisturbedAreWhole
  BY DEF Init, UndisturbedAreWhole
<1> QED BY <1>1, <1>2, <1>3 DEF Init, StoreInv

\* Undisturbed workflows were so before: operations are dropped for good.
LEMMA StaysDisturbed ==
  ASSUME TypeOK, [Next]_vars, NEW w, Undisturbed(w)'
  PROVE  Undisturbed(w)
<1>1. \A u \in dropped : u \in Tasks /\ pc[u] # "idle"
  BY DEF TypeOK, Writing
<1>2. \A u \in dropped : op'[u] = op[u]
  BY <1>1 DEF TypeOK, Next, Step, Call, Load, Lock, Check, Truncate, Fill, Rename, IoError, Drop, Crash, vars
<1>3. dropped \subseteq dropped'
  BY DEF Next, Step, Call, Load, Lock, Check, Truncate, Fill, Rename, IoError, Drop, Crash, vars
<1> QED BY <1>2, <1>3 DEF Undisturbed, Id

LEMMA KnowsStep == StoreInv /\ [Next]_vars => (\A u \in Tasks : Knows(u))'
<1> SUFFICES ASSUME StoreInv, [Next]_vars, NEW u \in Tasks PROVE Knows(u)'
  OBVIOUS
<1> USE DEF StoreInv
<1>0. Knows(u) /\ TypeOK
  OBVIOUS
<1>1. ASSUME NEW t \in Tasks, Call(t) PROVE Knows(u)'
  <2>1. PICK r \in Requests :
          /\ op' = [op EXCEPT ![t] = r]
          /\ Move(t, IF r.call = "load" THEN "read" ELSE "lock")
    BY <1>1 DEF Call
  <2>2. r.call \in {"create", "save", "load"}
    BY <2>1, RequestsAreOperations DEF Operations
  <2>3. CASE u = t
    BY <1>0, <1>1, <2>1, <2>2, <2>3 DEF Move, Knows, TypeOK, Section, Writing, Call
  <2>4. CASE u # t
    <3>1. op'[u] = op[u] /\ pc'[u] = pc[u] /\ Id(u)' = Id(u) /\ UNCHANGED <<file, tmp, fd, dropped>>
      BY <1>0, <1>1, <2>1, <2>4 DEF Call, Move, TypeOK, disk, Id
    <3>2. Undisturbed(Id(u))' => Undisturbed(Id(u))
      BY <1>0, <3>1, StaysDisturbed DEF Undisturbed
    <3> QED BY <1>0, <3>1, <3>2 DEF Knows, Ready, instance, Id
  <2> QED BY <2>3, <2>4
<1>2. ASSUME NEW t \in Tasks, Load(t) PROVE Knows(u)'
  BY <1>0, <1>2, KnowsFrame DEF Load, Return, disk, TypeOK, Knows, Section, Writing
<1>3. ASSUME NEW t \in Tasks, Lock(t) PROVE Knows(u)'
  <2>1. CASE u = t
    BY <1>0, <1>3, <2>1 DEF Lock, Move, TypeOK, Knows, Section, Writing, Id
  <2>2. CASE u # t
    BY <1>0, <1>3, <2>2, KnowsFrame DEF Lock, Move, disk, TypeOK
  <2> QED BY <2>1, <2>2
<1>4. ASSUME NEW t \in Tasks, Check(t) PROVE Knows(u)'
  <2>1. /\ pc[t] = "check" /\ UNCHANGED <<file, tmp, fd, op, dropped>>
        /\ \/ Verdict(t) = "none" /\ pc' = [pc EXCEPT ![t] = "truncate"]
           \/ pc' = [pc EXCEPT ![t] = "done"]
    BY <1>4 DEF Check, Move, Bail, Return, disk
  <2>2. CASE u = t /\ Verdict(t) = "none" /\ pc' = [pc EXCEPT ![t] = "truncate"]
    <3>1. op[t].call \in {"create", "save"} /\ op[t] \in Operations /\ Id(t) \in Ids
      BY <1>0, <2>1, <2>2 DEF Knows, Section, TypeOK, Operations, Id
    <3>2. Ready(t)
      BY <1>0, <2>2, <3>1 DEF Verdict, Ready, TypeOK, Contents
    <3> QED BY <1>0, <2>1, <2>2, <3>1, <3>2 DEF Knows, Ready, TypeOK, Id
  <2>3. CASE u = t /\ pc' = [pc EXCEPT ![t] = "done"]
    BY <1>0, <2>3 DEF Knows, TypeOK, Section, Writing
  <2>4. CASE u # t
    BY <1>0, <2>1, <2>4, KnowsFrame DEF TypeOK
  <2> QED BY <2>1, <2>2, <2>3, <2>4
<1>5. ASSUME NEW t \in Tasks, Truncate(t) PROVE Knows(u)'
  <2>1. /\ pc[t] = "truncate" /\ pc' = [pc EXCEPT ![t] = "fill"] /\ fd' = [fd EXCEPT ![t] = "tmp"]
        /\ tmp' = [tmp EXCEPT ![Id(t)] = Torn] /\ UNCHANGED <<file, op, dropped>>
    BY <1>5 DEF Truncate, Move
  <2>2. Id(t) \in Ids
    BY <1>0, <2>1 DEF TypeOK, Operations, Id
  <2>3. CASE u = t
    BY <1>0, <2>1, <2>2, <2>3 DEF Knows, Ready, TypeOK, Undisturbed, Section, Writing, Id
  <2>4. CASE u # t /\ Id(u) = Id(t)
    BY <1>0, <2>1, <2>4, OneInSection DEF Knows, TypeOK, Undisturbed, Section, Writing, Id
  <2>5. CASE u # t /\ Id(u) # Id(t)
    BY <1>0, <2>1, <2>5, KnowsFrame DEF TypeOK
  <2> QED BY <2>3, <2>4, <2>5
<1>6. ASSUME NEW t \in Tasks, Fill(t) PROVE Knows(u)'
  <2>1. /\ pc[t] = "fill" /\ UNCHANGED <<fd, op, dropped>>
        /\ pc' = [pc EXCEPT ![t] = IF t \in dropped THEN "done" ELSE "rename"]
    BY <1>6 DEF Fill, Move, Return
  <2>2. Id(t) \in Ids
    BY <1>0, <2>1 DEF TypeOK, Operations, Id
  <2>3. CASE u = t /\ Undisturbed(Id(t))
    <3>1. fd[t] = "tmp" /\ tmp[Id(t)] = Torn /\ Ready(t)
      BY <1>0, <2>1, <2>3 DEF Knows, Writing
    <3>2. tmp' = [tmp EXCEPT ![Id(t)] = instance(t)] /\ UNCHANGED file
      BY <1>6, <3>1 DEF Fill
    <3>3. tmp'[Id(t)] = instance(t)
      BY <1>0, <2>2, <3>2 DEF TypeOK
    <3> QED BY <1>0, <2>1, <2>3, <3>1, <3>2, <3>3
            DEF Knows, Ready, TypeOK, Section, Writing, Id, instance
  <2>4. CASE u = t /\ ~Undisturbed(Id(t))
    BY <1>0, <2>1, <2>4 DEF Knows, TypeOK, Undisturbed, Section, Writing, Id
  <2>5. CASE u # t /\ Id(u) = Id(t)
    BY <1>0, <2>1, <2>5, OneInSection DEF Knows, TypeOK, Undisturbed, Section, Writing, Id
  <2>6. CASE u # t /\ Id(u) # Id(t)
    <3>1. file'[Id(u)] = file[Id(u)] /\ tmp'[Id(u)] = tmp[Id(u)]
      BY <1>0, <1>6, <2>2, <2>6 DEF Fill, TypeOK
    <3> QED BY <1>0, <2>1, <2>6, <3>1, KnowsFrame DEF TypeOK
  <2> QED BY <2>3, <2>4, <2>5, <2>6
<1>7. ASSUME NEW t \in Tasks, Rename(t) PROVE Knows(u)'
  <2>1. /\ pc[t] = "rename" /\ UNCHANGED <<op, dropped>>
        /\ pc' = [pc EXCEPT ![t] = "done"]
    BY <1>7 DEF Rename, Bail, Return
  <2>2. Id(t) \in Ids
    BY <1>0, <2>1 DEF TypeOK, Operations, Id
  <2>3. CASE u = t
    BY <1>0, <2>1, <2>3 DEF Knows, TypeOK, Section, Writing
  <2>4. CASE u # t /\ Id(u) = Id(t)
    BY <1>0, <2>1, <2>4, OneInSection DEF Knows, TypeOK, Undisturbed, Section, Writing, Id
  <2>5. CASE u # t /\ Id(u) # Id(t)
    <3>1. file'[Id(u)] = file[Id(u)] /\ tmp'[Id(u)] = tmp[Id(u)] /\ fd'[u] = fd[u]
      <4>1. CASE tmp[Id(t)] = NoFile
        BY <1>7, <4>1 DEF Rename, disk
      <4>2. CASE tmp[Id(t)] # NoFile
        <5>1. /\ file' = [file EXCEPT ![Id(t)] = tmp[Id(t)]]
              /\ tmp' = [tmp EXCEPT ![Id(t)] = NoFile]
              /\ fd' = [v \in Tasks |-> Renamed(v, Id(t))]
          BY <1>7, <4>2 DEF Rename
        <5> QED BY <1>0, <2>2, <2>5, <5>1 DEF Renamed, TypeOK
      <4> QED BY <4>1, <4>2
    <3> QED BY <1>0, <2>1, <2>5, <3>1, KnowsFrame DEF TypeOK
  <2> QED BY <2>3, <2>4, <2>5
<1>8. ASSUME NEW t \in Tasks, IoError(t) PROVE Knows(u)'
  <2>1. UNCHANGED <<file, tmp, fd, op, dropped>> /\ pc' = [pc EXCEPT ![t] = "done"]
    BY <1>8 DEF IoError, Return, disk
  <2>2. CASE u = t
    BY <1>0, <2>1, <2>2 DEF Knows, TypeOK, Section, Writing
  <2>3. CASE u # t
    BY <1>0, <2>1, <2>3, KnowsFrame DEF TypeOK
  <2> QED BY <2>2, <2>3
<1>9. ASSUME NEW t \in Tasks, Drop(t) PROVE Knows(u)'
  <2>1. Undisturbed(Id(u))' => Undisturbed(Id(u))
    BY <1>9 DEF Drop, Undisturbed, Id
  <2> QED BY <1>0, <1>9, <2>1 DEF Drop, Knows, Ready, disk, Id, instance
<1>10. CASE Crash
  <2>1. UNCHANGED <<file, tmp, fd, op, dropped>> /\ (pc'[u] = pc[u] \/ pc'[u] = "done")
    BY <1>10 DEF Crash, disk
  <2>2. CASE pc'[u] = pc[u]
    BY <1>0, <2>1, <2>2, KnowsFrame
  <2>3. CASE pc'[u] = "done"
    BY <2>3 DEF Knows, Section, Writing
  <2> QED BY <2>1, <2>2, <2>3
<1>11. CASE UNCHANGED vars
  BY <1>0, <1>11, KnowsFrame DEF vars
<1> QED BY <1>1, <1>2, <1>3, <1>4, <1>5, <1>6, <1>7, <1>8, <1>9, <1>10, <1>11
        DEF Next, Step

LEMMA StoreStep == StoreInv /\ [Next]_vars => StoreInv'
<1> SUFFICES ASSUME StoreInv, [Next]_vars PROVE StoreInv'
  OBVIOUS
<1>1. TypeOK /\ TypeOK'
  BY TypeStep DEF StoreInv
<1>2. (\A u \in Tasks : Knows(u))'
  BY KnowsStep
<1>3. UndisturbedAreWhole'
  <2> SUFFICES ASSUME NEW w \in Ids, Undisturbed(w)' PROVE file'[w] # Torn
    BY DEF UndisturbedAreWhole
  <2>1. Undisturbed(w)
    BY <1>1, StaysDisturbed
  <2>2. CASE file'[w] = file[w]
    BY <2>1, <2>2 DEF StoreInv, UndisturbedAreWhole
  <2>3. CASE file'[w] # file[w]
    <3>1. Next
      BY <2>3 DEF vars
    <3>2. PICK t \in Tasks : file' = [file EXCEPT ![w] = instance(t)] /\ instance(t) \in Instances
      BY <2>1, <2>3, <3>1, FileSteps
    <3> QED BY <1>1, <3>2, FileStoreAssumption DEF TypeOK, FileStoreAssumption
  <2> QED BY <2>2, <2>3
<1>4. (MayDrop = FALSE => dropped = {})'
  BY DEF StoreInv, Next, Step, Call, Load, Lock, Check, Truncate, Fill, Rename, IoError,
         Drop, Crash, vars
<1> QED BY <1>1, <1>2, <1>3, <1>4 DEF StoreInv

\* While no caller drops an operation on a workflow, its file is a whole instance,
\* whatever crashes or fails between the open and the rename.
THEOREM UndisturbedFilesAreWhole == Spec => []UndisturbedAreWhole
<1>1. StoreInv => UndisturbedAreWhole
  BY DEF StoreInv
<1> QED BY <1>1, StoreInit, StoreStep, PTL DEF Spec

\* The new contents of a file are one step of a versioned store.
LEMMA RenameIsStoreStep ==
  ASSUME StoreInv, Next, NEW w \in Ids, file'[w] # file[w], Undisturbed(w)
  PROVE  Store!CreateOne(w) \/ Store!SaveOne(w)
<1>1. PICK t \in Tasks : /\ Id(t) = w /\ Ready(t)
                         /\ file' = [file EXCEPT ![w] = instance(t)]
  BY FileSteps
<1>2. CASE op[t].call = "create" /\ file[w] = NoFile
  BY <1>1, <1>2 DEF Store!CreateOne, instance
<1>3. CASE /\ op[t].call = "save" /\ file[w] \in Instances
           /\ file[w].version = op[t].expected
  <2>1. file[w] # NoFile
    BY <1>3, FileStoreAssumption DEF FileStoreAssumption
  <2>2. instance(t) = [version |-> file[w].version + 1, by |-> t]
    BY <1>3 DEF instance
  <2> QED BY <1>1, <2>1, <2>2 DEF Store!SaveOne
<1> QED BY <1>1, <1>2, <1>3 DEF Ready

\* No save is lost: every change of the file of an undisturbed workflow creates it
\* at version 0 or replaces a version by the next.
THEOREM FileSavesAreSteps == Spec => SavesAreSteps
<1>1. StoreInv /\ [Next]_vars =>
        [\A w \in Ids :
           file'[w] # file[w] /\ Undisturbed(w) => Store!CreateOne(w) \/ Store!SaveOne(w)]_vars
  BY RenameIsStoreStep
<1> QED BY <1>1, StoreInit, StoreStep, PTL DEF Spec, SavesAreSteps

\* Where callers never drop an operation, the files implement a versioned store,
\* which is what the runtime relies on.
THEOREM FilesImplementStore == ASSUME MayDrop = FALSE PROVE Spec => ImplementsStore
<1>1. Init => Store!StoreInit
  BY DEF Init, Store!StoreInit
<1>2. StoreInv /\ [Next]_vars => [Store!StoreNext]_file
  <2> SUFFICES ASSUME StoreInv, [Next]_vars, file' # file PROVE Store!StoreNext
    OBVIOUS
  <2>1. dropped = {} /\ Next
    BY DEF StoreInv, vars
  <2>2. PICK w \in Ids : file'[w] # file[w]
    <3>1. file \in [Ids -> Contents] /\ file' \in [Ids -> Contents]
      BY TypeStep DEF StoreInv, TypeOK
    <3> QED BY <3>1
  <2>3. Undisturbed(w)
    BY <2>1 DEF Undisturbed
  <2> QED BY <2>1, <2>2, <2>3, RenameIsStoreStep DEF Store!StoreNext
<1> QED BY <1>1, <1>2, StoreInit, StoreStep, PTL DEF Spec, ImplementsStore, Store!StoreSpec

USE StoresAssumption

(***************************************************************************)
(* The databases: every operation is atomic on the committed rows.         *)
(***************************************************************************)
\* What an operation may have done, read or been told.
Outcomes ==
  [kind : {"none", "refused", "unknown", "saved", "loaded"}, instance : Instances \cup {NoRow}]

\* The points of an operation over a database.
Points == {"idle", "acquire", "execute", "commit", "release", "done"}

\* The types of a database's operations.
SqlTyped ==
  /\ rows \in [Ids -> Instances \cup {NoRow}]
  /\ sqlpc \in [Tasks -> Points]
  /\ sqlop \in [Tasks -> Operations \cup {NoOp}]
  /\ outcome \in [Tasks -> Outcomes]
  /\ answer \in [Tasks -> Outcomes]
  /\ gone \subseteq Tasks

\* How far the operation of t is: it has an effect from "release" on, and an answer when
\* it is done or its caller is gone.
Stage(t) ==
  /\ sqlpc[t] = "idle" <=> sqlop[t] = NoOp
  /\ sqlpc[t] \in {"idle", "acquire", "execute", "commit"} => outcome[t] = Sql!Atomic!None
  /\ sqlpc[t] # "done" /\ t \notin gone => answer[t] = Sql!Atomic!None
  /\ sqlpc[t] = "idle" => t \notin gone

\* A transaction that has updated a row holds it, and commits over the version its
\* UPDATE matched.
Holds(t) ==
  sqlpc[t] = "commit" =>
    /\ sqlop[t].call = "save"
    /\ Sql!Atomic!Admits(rows[sqlop[t].id], t)
    /\ \A u \in Tasks : sqlpc[u] = "commit" /\ sqlop[u].id = sqlop[t].id => u = t

\* The inductive invariant of the databases.
SqlInv == SqlTyped /\ (\A t \in Tasks : Stage(t)) /\ (\A t \in Tasks : Holds(t))

\* What is asked of a database is an operation.
LEMMA StatementsAreOperations ==
  ASSUME SqlTyped, NEW r \in Sql!Requests
  PROVE  r \in Operations
<1>1. CASE r \in [call : {"create"}, expected : {0}, id : Ids]
  BY <1>1 DEF Operations
<1>2. CASE r \in [call : {"load"}, expected : {0}, id : Ids]
  BY <1>2 DEF Operations
<1>3. CASE \E w \in Ids : r \in [call : {"save"}, expected : Sql!Loaded(w), id : {w}]
  <2>1. PICK w \in Ids : r \in [call : {"save"}, expected : Sql!Loaded(w), id : {w}]
    BY <1>3
  <2>2. Sql!Loaded(w) \subseteq Nat
    BY DEF Sql!Loaded, SqlTyped, Instances
  <2> QED BY <2>1, <2>2 DEF Operations
<1> QED BY <1>1, <1>2, <1>3 DEF Sql!Requests

\* What an operation over a database writes is an instance.
LEMMA WrittenIsInstance ==
  ASSUME NEW t \in Tasks, sqlop[t] \in Operations
  PROVE  Sql!Atomic!Written(t) \in Instances
BY DEF Sql!Atomic!Written, Operations, Instances

\* It holds at the start, which is a start of the atomic store.
LEMMA SqlStart == Sql!InitStore => SqlInv /\ Sql!Atomic!Init
BY DEF Sql!InitStore, SqlInv, SqlTyped, Stage, Holds, Sql!Atomic!Init, Points, Outcomes,
       Sql!Atomic!None, Sql!Atomic!Outcome, Operations

\* What a caller of a database sees.
Shown == <<rows, sqlop, outcome, answer>>

\* Every step of an operation is one of the atomic store, or none.
LEMMA SqlStep == SqlInv /\ Sql!Next => SqlInv' /\ [Sql!Atomic!Next]_Shown
<1> SUFFICES ASSUME SqlInv, Sql!Next PROVE SqlInv' /\ [Sql!Atomic!Next]_Shown
  OBVIOUS
<1> USE DEF SqlInv, SqlTyped, Stage, Holds, Points
<1> DEFINE Kept == SqlInv' /\ [Sql!Atomic!Next]_Shown
<1>0. /\ Sql!Atomic!None \in Outcomes /\ Sql!Atomic!Refused \in Outcomes
      /\ Sql!Atomic!Unknown \in Outcomes
      /\ \A i \in Instances : /\ Sql!Atomic!Outcome("saved", i) \in Outcomes
                              /\ Sql!Atomic!Outcome("loaded", i) \in Outcomes
      /\ \A i : \A k \in {"refused", "unknown", "saved", "loaded"} :
           Sql!Atomic!Outcome(k, i) # Sql!Atomic!None
      /\ Sql!Atomic!Refused # Sql!Atomic!None /\ Sql!Atomic!Unknown # Sql!Atomic!None
  BY DEF Outcomes, Sql!Atomic!None, Sql!Atomic!Refused, Sql!Atomic!Unknown, Sql!Atomic!Outcome
<1>1. ASSUME NEW t \in Tasks, Sql!Call(t) PROVE Kept
  <2>1. PICK r \in Sql!Requests : sqlop' = [sqlop EXCEPT ![t] = r]
    BY <1>1 DEF Sql!Call
  <2>2. r \in Operations
    BY <2>1, StatementsAreOperations
  <2>3. SqlInv'
    BY <1>1, <2>1, <2>2 DEF Sql!Call, Sql!Move, Sql!Atomic!Admits
  <2>4. Sql!Atomic!Ask(t)
    BY <1>1, <2>1, <2>2 DEF Sql!Call, Sql!Atomic!Ask, Sql!Atomic!Operations, Operations
  <2> QED BY <2>3, <2>4 DEF Sql!Atomic!Next
<1>2. ASSUME NEW t \in Tasks, Sql!Acquire(t) PROVE Kept
  <2>1. SqlInv'
    BY <1>2 DEF Sql!Acquire, Sql!Move, Sql!Atomic!Admits
  <2> QED BY <1>2, <2>1 DEF Sql!Acquire, Shown
<1>3. ASSUME NEW t \in Tasks, Sql!Select(t) PROVE Kept
  <2>1. sqlop[t] \in Operations /\ sqlop[t].id \in Ids
    BY <1>3 DEF Sql!Select, Operations
  <2>2. SqlInv'
    BY <1>0, <1>3, <2>1 DEF Sql!Select, Sql!Does, Sql!Move, Sql!Id, Sql!Atomic!Admits
  <2>3. Sql!Atomic!TakeEffect(t)
    BY <1>3, <2>1 DEF Sql!Select, Sql!Does, Sql!Id, Sql!Atomic!TakeEffect, Sql!Atomic!Read
  <2> QED BY <2>2, <2>3 DEF Sql!Atomic!Next
<1>4. ASSUME NEW t \in Tasks, Sql!Insert(t) PROVE Kept
  <2>1. sqlop[t] \in Operations /\ sqlop[t].id \in Ids
    BY <1>4 DEF Sql!Insert, Operations
  <2>2. Sql!Atomic!Written(t) \in Instances
    BY <2>1, WrittenIsInstance
  <2>3. CASE rows[sqlop[t].id] = NoRow
    <3>1. SqlTyped' /\ (\A u \in Tasks : Stage(u))'
      BY <1>0, <1>4, <2>1, <2>2, <2>3 DEF Sql!Insert, Sql!Does, Sql!Move, Sql!Id
    <3>2. ASSUME NEW u \in Tasks PROVE Holds(u)'
      <4>1. /\ sqlpc' = [sqlpc EXCEPT ![t] = "release"] /\ UNCHANGED sqlop
            /\ rows' = [rows EXCEPT ![sqlop[t].id] = Sql!Atomic!Written(t)]
        BY <1>4, <2>3 DEF Sql!Insert, Sql!Does, Sql!Move, Sql!Id
      <4>2. SUFFICES ASSUME sqlpc[u] = "commit" PROVE Holds(u)'
        BY <4>1
      <4>3. rows[sqlop[u].id] # NoRow
        BY <4>2 DEF Sql!Atomic!Admits
      <4>4. rows'[sqlop[u].id] = rows[sqlop[u].id]
        BY <2>3, <4>1, <4>3
      <4> QED BY <4>1, <4>2, <4>4 DEF Sql!Atomic!Admits
    <3>3. Sql!Atomic!TakeEffect(t)
      BY <1>4, <2>1, <2>3
      DEF Sql!Insert, Sql!Does, Sql!Id, Sql!Atomic!TakeEffect, Sql!Atomic!Write, Sql!Atomic!Admits
    <3> QED BY <3>1, <3>2, <3>3 DEF Sql!Atomic!Next
  <2>4. CASE rows[sqlop[t].id] # NoRow
    <3>1. SqlInv'
      BY <1>0, <1>4, <2>1, <2>4 DEF Sql!Insert, Sql!Does, Sql!Move, Sql!Id, Sql!Atomic!Admits
    <3>2. Sql!Atomic!TakeEffect(t)
      BY <1>4, <2>1, <2>4
      DEF Sql!Insert, Sql!Does, Sql!Id, Sql!Atomic!TakeEffect, Sql!Atomic!Refuse, Sql!Atomic!Admits
    <3> QED BY <3>1, <3>2 DEF Sql!Atomic!Next
  <2> QED BY <2>3, <2>4
<1>5. ASSUME NEW t \in Tasks, Sql!Update(t) PROVE Kept
  <2>1. sqlop[t] \in Operations /\ sqlop[t].id \in Ids
    BY <1>5 DEF Sql!Update, Operations
  <2>2. \A u \in Tasks : ~(sqlpc[u] = "commit" /\ sqlop[u].id = sqlop[t].id)
    BY <1>5 DEF Sql!Update, Sql!Holding, Sql!Id
  <2>3. CASE Sql!Atomic!Admits(rows[sqlop[t].id], t)
    <3>1. /\ sqlpc' = [sqlpc EXCEPT ![t] = "commit"]
          /\ UNCHANGED <<rows, sqlop, outcome, answer, gone>>
      BY <1>5, <2>3 DEF Sql!Update, Sql!Move, Sql!Id
    <3>2. SqlTyped' /\ (\A u \in Tasks : Stage(u))'
      BY <1>5, <3>1 DEF Sql!Update
    <3>3. ASSUME NEW u \in Tasks PROVE Holds(u)'
      BY <1>5, <2>1, <2>2, <2>3, <3>1 DEF Sql!Update, Sql!Atomic!Admits
    <3> QED BY <3>1, <3>2, <3>3 DEF Shown
  <2>4. CASE ~Sql!Atomic!Admits(rows[sqlop[t].id], t)
    <3>1. SqlInv'
      BY <1>0, <1>5, <2>1, <2>4 DEF Sql!Update, Sql!Does, Sql!Move, Sql!Id, Sql!Atomic!Admits
    <3>2. Sql!Atomic!TakeEffect(t)
      BY <1>5, <2>1, <2>4
      DEF Sql!Update, Sql!Does, Sql!Id, Sql!Atomic!TakeEffect, Sql!Atomic!Refuse
    <3> QED BY <3>1, <3>2 DEF Sql!Atomic!Next
  <2> QED BY <2>3, <2>4
<1>6. ASSUME NEW t \in Tasks, Sql!Commit(t) PROVE Kept
  <2>1. sqlop[t] \in Operations /\ sqlop[t].id \in Ids
    BY <1>6 DEF Sql!Commit, Operations
  <2>2. Sql!Atomic!Written(t) \in Instances
    BY <2>1, WrittenIsInstance
  <2>3. SqlTyped' /\ (\A u \in Tasks : Stage(u))'
    BY <1>0, <1>6, <2>1, <2>2 DEF Sql!Commit, Sql!Does, Sql!Move, Sql!Id
  <2>4. ASSUME NEW u \in Tasks PROVE Holds(u)'
    BY <1>6, <2>1 DEF Sql!Commit, Sql!Does, Sql!Move, Sql!Id, Sql!Atomic!Admits
  <2>5. Sql!Atomic!TakeEffect(t)
    BY <1>6, <2>1
    DEF Sql!Commit, Sql!Does, Sql!Id, Sql!Atomic!TakeEffect, Sql!Atomic!Write
  <2> QED BY <2>3, <2>4, <2>5 DEF Sql!Atomic!Next
<1>7. ASSUME NEW t \in Tasks, Sql!Release(t) PROVE Kept
  <2>1. SqlInv'
    BY <1>7 DEF Sql!Release, Sql!Move, Sql!Atomic!Admits
  <2>2. CASE t \in gone
    BY <1>7, <2>1, <2>2 DEF Sql!Release, Shown
  <2>3. CASE t \notin gone
    BY <1>7, <2>1, <2>3 DEF Sql!Release, Sql!Atomic!Answer, Sql!Atomic!Next
  <2> QED BY <2>2, <2>3
<1>8. ASSUME NEW t \in Tasks, Sql!Abort(t) PROVE Kept
  <2>1. SqlInv'
    BY <1>8 DEF Sql!Abort, Sql!Move, Sql!Atomic!Admits
  <2> QED BY <1>8, <2>1 DEF Sql!Abort, Shown
<1>9. ASSUME NEW t \in Tasks, Sql!Fail(t) PROVE Kept
  <2>1. answer' = [u \in Tasks |-> IF u = t THEN Sql!Atomic!Unknown ELSE answer[u]]
    BY <1>9 DEF Sql!Fail, Sql!Abandon
  <2>2. SqlInv'
    BY <1>0, <1>9, <2>1 DEF Sql!Fail, Sql!Move, Sql!Atomic!Admits
  <2>3. Sql!Atomic!Answer
    BY <1>9, <2>1 DEF Sql!Fail, Sql!Atomic!Answer
  <2> QED BY <2>2, <2>3 DEF Sql!Atomic!Next
<1>10. ASSUME NEW t \in Tasks, Sql!Leave(t) PROVE Kept
  <2>1. answer' = [u \in Tasks |-> IF u = t THEN Sql!Atomic!Unknown ELSE answer[u]]
    BY <1>10 DEF Sql!Leave, Sql!Abandon
  <2>2. SqlInv'
    BY <1>0, <1>10, <2>1 DEF Sql!Leave, Sql!Move, Sql!Atomic!Admits
  <2>3. Sql!Atomic!Answer
    BY <1>10, <2>1 DEF Sql!Leave, Sql!Atomic!Answer
  <2> QED BY <2>2, <2>3 DEF Sql!Atomic!Next
<1>11. CASE Sql!Crash
  <2> DEFINE Lost == {t \in Tasks : sqlpc[t] \notin {"idle", "done"}}
             Left == {t \in Lost : backend = "postgres" /\ sqlpc[t] \in {"execute", "commit"}}
  <2>1. /\ sqlpc' = [t \in Tasks |-> IF t \in Lost \ Left THEN "done" ELSE sqlpc[t]]
        /\ answer' = [u \in Tasks |-> IF u \in Lost \ gone THEN Sql!Atomic!Unknown ELSE answer[u]]
        /\ gone' = gone \cup Lost
        /\ UNCHANGED <<rows, sqlop, outcome>>
    BY <1>11 DEF Sql!Crash, Sql!Abandon
  <2>2. SqlInv'
    BY <1>0, <2>1 DEF Sql!Atomic!Admits
  <2>3. Sql!Atomic!Answer
    BY <2>1 DEF Sql!Atomic!Answer
  <2> QED BY <2>2, <2>3 DEF Sql!Atomic!Next
<1>12. CASE UNCHANGED Sql!vars
  BY <1>12 DEF Sql!vars, Shown, Sql!Atomic!Admits
<1> QED
  BY <1>1, <1>2, <1>3, <1>4, <1>5, <1>6, <1>7, <1>8, <1>9, <1>10, <1>11, <1>12
  DEF Sql!Next, Sql!Step

\* The databases are atomic stores: whoever waits for a connection or a row, is dropped
\* half way, loses its connection or dies, no save is lost and no answer is false.
THEOREM DatabasesAreAtomic == StoresSpec => SqlIsAtomic
<1>1. StoresInit => SqlInv /\ Sql!Atomic!Init
  BY SqlStart DEF StoresInit
<1>2. SqlInv /\ [StoresNext]_<<vars, sqlVars>> => SqlInv' /\ [Sql!Atomic!Next]_Shown
  <2>1. CASE Sql!Next
    BY <2>1, SqlStep
  <2>2. CASE UNCHANGED sqlVars
    BY <2>2
    DEF sqlVars, Shown, SqlInv, SqlTyped, Stage, Holds, Points, Sql!Atomic!Admits
  <2> QED BY <2>1, <2>2 DEF StoresNext
<1> QED
  BY <1>1, <1>2, PTL
  DEF StoresSpec, SqlIsAtomic, Sql!ImplementsAtomicStore, Sql!Atomic!Spec, Shown

\* The rows of a database, as a store of versions.
Rows == INSTANCE VersionedStore WITH register <- rows, Writers <- Tasks, NoInstance <- NoRow

\* The databases are what the runtime relies on, with nothing assumed of their callers:
\* every change of a row creates it at version 0 or replaces a version by the next, also
\* where an abandoned statement or COMMIT takes effect late.
THEOREM DatabasesImplementStore == StoresSpec => Rows!StoreSpec
<1>1. StoresInit => SqlInv /\ Rows!StoreInit
  BY SqlStart DEF StoresInit, Sql!InitStore, Rows!StoreInit
<1>2. SqlInv /\ [StoresNext]_<<vars, sqlVars>> => SqlInv' /\ [Rows!StoreNext]_rows
  <2> SUFFICES ASSUME SqlInv, [StoresNext]_<<vars, sqlVars>>
               PROVE  SqlInv' /\ [Rows!StoreNext]_rows
    OBVIOUS
  <2>1. CASE UNCHANGED sqlVars
    BY <2>1 DEF sqlVars, SqlInv, SqlTyped, Stage, Holds, Points, Sql!Atomic!Admits
  <2>2. CASE Sql!Next
    <3> SUFFICES ASSUME rows' # rows PROVE Rows!StoreNext
      BY <2>2, SqlStep
    <3>1. PICK t \in Tasks : Sql!Insert(t) \/ Sql!Commit(t)
      BY <2>2
      DEF Sql!Next, Sql!Step, Sql!Call, Sql!Acquire, Sql!Select, Sql!Update, Sql!Release,
          Sql!Abort, Sql!Fail, Sql!Leave, Sql!Crash, Sql!vars
    <3>2. sqlop[t] \in Operations /\ sqlop[t].id \in Ids
      BY <3>1 DEF Sql!Insert, Sql!Commit, SqlInv, SqlTyped, Stage, Holds, Operations
    <3>3. CASE Sql!Insert(t)
      <4>1. /\ rows[sqlop[t].id] = NoRow
            /\ rows' = [rows EXCEPT ![sqlop[t].id] = [version |-> 0, by |-> t]]
        BY <3>3 DEF Sql!Insert, Sql!Id, Sql!Atomic!Written
      <4> QED BY <3>2, <4>1 DEF Rows!StoreNext, Rows!CreateOne
    <3>4. CASE Sql!Commit(t)
      <4>1. /\ rows[sqlop[t].id] # NoRow
            /\ sqlop[t].call = "save" /\ rows[sqlop[t].id].version = sqlop[t].expected
        BY <3>4 DEF Sql!Commit, SqlInv, Holds, Sql!Atomic!Admits
      <4>2. rows' = [rows EXCEPT ![sqlop[t].id] =
                       [version |-> rows[sqlop[t].id].version + 1, by |-> t]]
        BY <3>4, <4>1 DEF Sql!Commit, Sql!Id, Sql!Atomic!Written
      <4> QED BY <3>2, <4>1, <4>2 DEF Rows!StoreNext, Rows!SaveOne
    <3> QED BY <3>1, <3>3, <3>4
  <2> QED BY <2>1, <2>2 DEF StoresNext
<1> QED BY <1>1, <1>2, PTL DEF StoresSpec, Rows!StoreSpec
=============================================================================
