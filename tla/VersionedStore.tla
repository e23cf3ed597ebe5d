--------------------------- MODULE VersionedStore ---------------------------
(***************************************************************************)
(* What the runtime expects of a WorkflowStore: each workflow is created   *)
(* once at version 0, and every save replaces the version it was computed  *)
(* from by the next one, in one step.                                      *)
(***************************************************************************)
EXTENDS Naturals

CONSTANTS
  Ids,
  Writers,      \* who saves: what an instance holds besides its version
  NoInstance

VARIABLE register   \* [Ids -> the stored instance]

CreateOne(w) ==
  /\ register[w] = NoInstance
  /\ \E t \in Writers : register' = [register EXCEPT ![w] = [version |-> 0, by |-> t]]

SaveOne(w) ==
  /\ register[w] # NoInstance
  /\ \E t \in Writers :
       register' = [register EXCEPT ![w] = [version |-> register[w].version + 1, by |-> t]]

StoreInit == register = [w \in Ids |-> NoInstance]

StoreNext == \E w \in Ids : CreateOne(w) \/ SaveOne(w)

StoreSpec == StoreInit /\ [][StoreNext]_register
=============================================================================
