SPECIFICATION FairSpec
CONSTANTS
  MaxIds = 4
  Clients = {a, b}
  Defs <- MCDefs
  NoDef = NoDef
  Child <- MCChild
  Chained = {"prepare", "tally", "probe", "loop"}
  TimeoutMs = {"release", "prepare", "batch", "survey", "loop"}
  Impatient = {"deploy", "batch"}
  Prompt = {"check", "tally"}
  Attempts <- MCAttempts
  Deadline <- MCDeadline
  Roots = {"deploy", "release", "batch", "watch", "survey", "loop"}
  Vals = {u}
  Empty = Empty
  MaxRoots = 1
  MaxVersion = 1
INVARIANTS TypeOK ParentsFollowChildren CallersAwait
 
CHECK_DEADLOCK FALSE
