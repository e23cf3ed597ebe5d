----------------------------- MODULE AtomicStore -----------------------------
(***************************************************************************)
(* What the tasks of a gateway see of a WorkflowStore: an operation takes  *)
(* effect at most once, in one step, on what the store holds then; an      *)
(* answer other than an error tells what it did.  An operation whose       *)
(* answer is an error, or whose caller went away, may have taken effect,   *)
(* and may take it still.                                                  *)
(***************************************************************************)
EXTENDS Naturals

CONSTANTS
  Tasks,        \* one operation each
  Ids, NoInstance, NoOp

VARIABLES
  register,     \* [Ids -> the stored instance]
  op,           \* the operation of each task
  outcome,      \* what it did to the register, or read
  answer        \* what its caller was told

Operations == [call : {"create", "save", "load"}, id : Ids, expected : Nat]

Outcome(kind, instance) == [kind |-> kind, instance |-> instance]

None    == Outcome("none", NoInstance)
Refused == Outcome("refused", NoInstance)
Unknown == Outcome("unknown", NoInstance)

\* What the operation of t writes: created at 0, or saved one past the expected.
Written(t) ==
  [version |-> IF op[t].call = "create" THEN 0 ELSE op[t].expected + 1, by |-> t]

\* Whether r lets the operation of t write.
Admits(r, t) ==
  \/ op[t].call = "create" /\ r = NoInstance
  \/ op[t].call = "save" /\ r # NoInstance /\ r.version = op[t].expected

Ask(t) ==
  /\ op[t] = NoOp /\ op'[t] \in Operations
  /\ op' = [op EXCEPT ![t] = op'[t]]
  /\ UNCHANGED <<register, outcome, answer>>

Write(t, w) ==
  /\ Admits(register[w], t)
  /\ register' = [register EXCEPT ![w] = Written(t)]
  /\ outcome' = [outcome EXCEPT ![t] = Outcome("saved", Written(t))]

Refuse(t, w) ==
  /\ op[t].call # "load" /\ ~Admits(register[w], t)
  /\ outcome' = [outcome EXCEPT ![t] = Refused]
  /\ UNCHANGED register

Read(t, w) ==
  /\ op[t].call = "load"
  /\ outcome' = [outcome EXCEPT ![t] = IF register[w] = NoInstance THEN Refused
                                       ELSE Outcome("loaded", register[w])]
  /\ UNCHANGED register

TakeEffect(t) ==
  /\ op[t] # NoOp /\ outcome[t] = None
  /\ Write(t, op[t].id) \/ Refuse(t, op[t].id) \/ Read(t, op[t].id)
  /\ UNCHANGED <<op, answer>>

\* Some are answered, all at once when the gateway dies.
Answer ==
  /\ \A t \in Tasks : answer'[t] # answer[t] =>
       op[t] # NoOp /\ answer[t] = None /\ answer'[t] \in {outcome[t], Unknown}
  /\ answer' \in [Tasks -> {answer'[t] : t \in Tasks}]
  /\ UNCHANGED <<register, op, outcome>>

Init ==
  /\ register = [w \in Ids |-> NoInstance]
  /\ op = [t \in Tasks |-> NoOp]
  /\ outcome = [t \in Tasks |-> None]
  /\ answer = [t \in Tasks |-> None]

Next == (\E t \in Tasks : Ask(t) \/ TakeEffect(t)) \/ Answer

Spec == Init /\ [][Next]_<<register, op, outcome, answer>>
=============================================================================
