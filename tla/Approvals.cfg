SPECIFICATION FairSpec
CONSTANTS
  Tasks = {t1, t2}
  Reviewers = {ann, bob}
  MaxFaults = 1
  Free = Free
  NoId = NoId
INVARIANTS TypeOK TailMissesNothing ResolutionsAreFounded
PROPERTY QueuedAreSeen
CHECK_DEADLOCK FALSE
