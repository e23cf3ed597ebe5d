SPECIFICATION StoresSpec
CONSTANTS
  Tasks = {t1, t2, t3}
  Ids = {w1, w2}
  MayDrop = TRUE
  MaxFaults = 1
  Pool = 2
  NoRow = NoRow
  NoFile = NoFile
  Torn = Torn
  Free = Free
  NoOp = NoOp
INVARIANTS
  TypeOK
PROPERTIES
  SavesAreSteps
  SqlIsAtomic
  EveryCallReturns
