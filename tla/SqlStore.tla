------------------------------- MODULE SqlStore -------------------------------
(***************************************************************************)
(* SqliteWorkflowStore and PostgresWorkflowStore: a row per workflow,      *)
(* created by one INSERT, read by one SELECT and saved by a transaction    *)
(* whose UPDATE names the version it expects.                              *)
(*                                                                         *)
(* SQLite has one connection behind a mutex; an operation is a closure in  *)
(* a blocking thread, which goes on when its caller drops it.  Postgres    *)
(* has a pool; an operation that is dropped, or loses its connection, is   *)
(* left to the server, which undoes it unless its last message, the INSERT *)
(* or the COMMIT, was under way.  A transaction that has updated a row     *)
(* keeps others from updating it until it ends.  Several gateways over one *)
(* server are one with a larger pool.                                      *)
(***************************************************************************)
EXTENDS Naturals, FiniteSets

CONSTANTS
  Tasks,       \* one operation each
  Ids,
  Pool,        \* max_connections
  MaxFaults,   \* bound on crashes, errors and lost connections
  NoRow, NoOp

VARIABLES
  backend,     \* store.kind
  rows,        \* [Ids -> the committed row]
  using,       \* operations that hold a connection
  pc, op,
  outcome,     \* what each operation did or read
  answer,      \* what its caller was told
  gone,        \* operations without a caller
  faults

vars == <<backend, rows, using, pc, op, outcome, answer, gone, faults>>

\* The promise, which is in AtomicStore.
Atomic == INSTANCE AtomicStore WITH register <- rows, NoInstance <- NoRow

Id(t) == op[t].id

Connections == IF backend = "sqlite" THEN 1 ELSE Pool

Move(t, point) == pc' = [pc EXCEPT ![t] = point]

\* The operation has done, read or refused what it was to.
Does(t, result) == Move(t, "release") /\ outcome' = [outcome EXCEPT ![t] = result]

-----------------------------------------------------------------------------
\* The versions of workflow w that a caller may have loaded.
Loaded(w) == IF rows[w] = NoRow THEN {} ELSE 0..rows[w].version

\* What a caller may ask: create under a fresh uuid, save over a version it has
\* loaded, load anything.
Requests ==
  {o \in [call : {"create"}, expected : {0}, id : Ids] :
     \A u \in Tasks : pc[u] # "idle" => op[u].call # "create" \/ Id(u) # o.id}
  \cup (UNION {[call : {"save"}, expected : Loaded(w), id : {w}] : w \in Ids})
  \cup [call : {"load"}, expected : {0}, id : Ids]

Call(t) ==
  /\ pc[t] = "idle"
  /\ \E request \in Requests : op' = [op EXCEPT ![t] = request]
  /\ Move(t, "acquire")
  /\ UNCHANGED <<backend, rows, using, outcome, answer, gone, faults>>

\* conn.lock(), or a connection of the pool.
Acquire(t) ==
  /\ pc[t] = "acquire" /\ Cardinality(using) < Connections
  /\ using' = using \cup {t}
  /\ Move(t, "execute")
  /\ UNCHANGED <<backend, rows, op, outcome, answer, gone, faults>>

Select(t) ==
  /\ pc[t] = "execute" /\ op[t].call = "load"
  /\ Does(t, IF rows[Id(t)] = NoRow THEN Atomic!Refused
             ELSE Atomic!Outcome("loaded", rows[Id(t)]))
  /\ UNCHANGED <<backend, rows, using, op, answer, gone, faults>>

\* The INSERT commits by itself.
Insert(t) ==
  /\ pc[t] = "execute" /\ op[t].call = "create"
  /\ IF rows[Id(t)] = NoRow
     THEN /\ rows' = [rows EXCEPT ![Id(t)] = Atomic!Written(t)]
          /\ Does(t, Atomic!Outcome("saved", Atomic!Written(t)))
     ELSE Does(t, Atomic!Refused) /\ UNCHANGED rows
  /\ UNCHANGED <<backend, using, op, answer, gone, faults>>

\* Operations whose transaction holds the row of w.
Holding(w) == {u \in Tasks : pc[u] = "commit" /\ Id(u) = w}

\* Mutant: WHERE id = ?, without the version.
UpdateAny(t) ==
  /\ pc[t] = "execute" /\ op[t].call = "save"
  /\ Holding(Id(t)) = {} /\ (t \in gone => backend = "sqlite")
  /\ IF rows[Id(t)] # NoRow
     THEN Move(t, "commit") /\ UNCHANGED outcome
     ELSE Does(t, Atomic!Refused)
  /\ UNCHANGED <<backend, rows, using, op, answer, gone, faults>>

\* UPDATE ... WHERE id = ? AND version = ?, when no other transaction holds the row;
\* "not found" and "stale" if there is none, and the transaction is rolled back.
Update(t) ==
  /\ pc[t] = "execute" /\ op[t].call = "save"
  /\ Holding(Id(t)) = {} /\ (t \in gone => backend = "sqlite")
  /\ IF Atomic!Admits(rows[Id(t)], t)
     THEN Move(t, "commit") /\ UNCHANGED outcome
     ELSE Does(t, Atomic!Refused)
  /\ UNCHANGED <<backend, rows, using, op, answer, gone, faults>>

Commit(t) ==
  /\ pc[t] = "commit"
  /\ rows' = [rows EXCEPT ![Id(t)] = Atomic!Written(t)]
  /\ Does(t, Atomic!Outcome("saved", Atomic!Written(t)))
  /\ UNCHANGED <<backend, using, op, answer, gone, faults>>

\* The operation returns and gives its connection back.
Release(t) ==
  /\ pc[t] = "release"
  /\ using' = using \ {t}
  /\ Move(t, "done")
  /\ answer' = IF t \in gone THEN answer ELSE [answer EXCEPT ![t] = outcome[t]]
  /\ UNCHANGED <<backend, rows, op, outcome, gone, faults>>

-----------------------------------------------------------------------------
\* The operations of S are over for their callers, who do not know how they ended.
Abandon(S) == answer' = [t \in Tasks |-> IF t \in S THEN Atomic!Unknown ELSE answer[t]]

\* An error: the database refuses, or the pool has no connection in time.
Fail(t) ==
  /\ pc[t] \in {"acquire", "execute", "commit"} /\ t \notin gone
  /\ faults < MaxFaults /\ faults' = faults + 1
  /\ Move(t, "done")
  /\ Abandon({t})
  /\ using' = using \ {t}
  /\ UNCHANGED <<backend, rows, op, outcome, gone>>

\* The caller drops the operation, or its connection to the server breaks.
Leave(t) ==
  /\ pc[t] \notin {"idle", "done"} /\ t \notin gone
  /\ gone' = gone \cup {t}
  /\ Abandon({t})
  /\ IF backend = "postgres" /\ pc[t] = "acquire" THEN Move(t, "done") ELSE UNCHANGED pc
  /\ UNCHANGED <<backend, rows, using, op, outcome, faults>>

\* The server undoes what has no client.
Abort(t) ==
  /\ backend = "postgres" /\ t \in gone /\ pc[t] \in {"execute", "commit"}
  /\ using' = using \ {t}
  /\ Move(t, "done")
  /\ UNCHANGED <<backend, rows, op, outcome, answer, gone, faults>>

\* The gateway dies: SQLite's transactions with it, Postgres's are left to the server.
Crash ==
  /\ faults < MaxFaults /\ faults' = faults + 1
  /\ LET Lost == {t \in Tasks : pc[t] \notin {"idle", "done"}}
         Left == {t \in Lost : backend = "postgres" /\ pc[t] \in {"execute", "commit"}}
     IN  /\ pc' = [t \in Tasks |-> IF t \in Lost \ Left THEN "done" ELSE pc[t]]
         /\ Abandon(Lost \ gone)
         /\ gone' = gone \cup Lost
  /\ using' = {}
  /\ UNCHANGED <<backend, rows, op, outcome>>

-----------------------------------------------------------------------------
InitStore ==
  /\ rows = [w \in Ids |-> NoRow]
  /\ using = {} /\ gone = {} /\ faults = 0
  /\ pc = [t \in Tasks |-> "idle"]
  /\ op = [t \in Tasks |-> NoOp]
  /\ outcome = [t \in Tasks |-> Atomic!None]
  /\ answer = [t \in Tasks |-> Atomic!None]

Step(t) ==
  Acquire(t) \/ Select(t) \/ Insert(t) \/ Update(t) \/ Commit(t) \/ Release(t) \/ Abort(t)

Next ==
  \/ \E t \in Tasks : Call(t) \/ Step(t) \/ Fail(t) \/ Leave(t)
  \/ Crash
  \/ (\A t \in Tasks : pc[t] = "done") /\ UNCHANGED vars

-----------------------------------------------------------------------------
\* No save is lost and no answer is false over either database: every operation is
\* atomic on the committed rows, whoever waits for a connection or a row, is dropped
\* half way, loses its connection or dies, and one that was told "ok" or "stale"
\* was told what happened.
ImplementsAtomicStore == Atomic!Spec

\* Every operation ends, dropped or not, although connections and rows are few.
EveryStatementEnds == \A t \in Tasks : (pc[t] # "idle") ~> (pc[t] = "done")
=============================================================================
