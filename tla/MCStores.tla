------------------------------- MODULE MCStores -------------------------------
(***************************************************************************)
(* The durable workflow stores, of which a gateway has the one store.kind  *)
(* names (build_store): files, SQLite or Postgres.                         *)
(***************************************************************************)
EXTENDS FileStore

CONSTANTS Pool, NoRow

ASSUME StoresAssumption == NoRow \notin Instances

VARIABLES backend, rows, using, sqlpc, sqlop, outcome, answer, gone, errors

Sql == INSTANCE SqlStore WITH pc <- sqlpc, op <- sqlop, faults <- errors

sqlVars == <<backend, rows, using, sqlpc, sqlop, outcome, answer, gone, errors>>

Kinds == {"file", "sqlite", "postgres"}

StoresInit == backend \in Kinds /\ Init /\ Sql!InitStore

StoresNext ==
  \/ backend = "file" /\ Next /\ UNCHANGED sqlVars
  \/ backend # "file" /\ Sql!Next /\ UNCHANGED vars

\* Operations are polled, and disks and servers answer.
StoresSpec ==
  /\ StoresInit /\ [][StoresNext]_<<vars, sqlVars>>
  /\ \A t \in Tasks : WF_vars(Step(t)) /\ WF_sqlVars(Sql!Step(t))

-----------------------------------------------------------------------------
\* The stores with an UPDATE are atomic: SqlStore's promise.
SqlIsAtomic == Sql!ImplementsAtomicStore

\* Every operation returns, although all wait for one mutex, or for connections and
\* rows: the files' operations and those over a database.
EveryCallReturns == EveryOperationReturns /\ Sql!EveryStatementEnds
=============================================================================
