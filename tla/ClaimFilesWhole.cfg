SPECIFICATION Spec
CONSTANTS
  Tasks = {t1, t2, t3}
  Ids = {w1}
  MayDrop = TRUE
  MaxFaults = 1
  NoFile = NoFile
  Torn = Torn
  Free = Free
  NoOp = NoOp
INVARIANT FilesAreWhole
