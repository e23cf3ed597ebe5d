SPECIFICATION Spec
CONSTANTS
  Defs = {"review"}
  Definitions <- MCDefinitions
  States <- MCStates
  Names <- MCNames
  Keys = {"risk"}
  Vals = {"low", "high"}
  NoVal = NoVal
  Kinds = {"scan"}
  Principals = {"ann", "bot"}
  Humans = {"ann"}
  Args = {"good", "bad", "none"}
  NoArgs = "none"
  Calls = {c1, c2, c3}
  Workflows = {w1}
  Requests <- MCRequests
  Quoted = {0, 1, 2, 3}
  MaxFaults = 0
  NoInstance = NoInstance
  NoDef = NoDef
  NoVia = NoVia
  NoRun = NoRun
  NoRequest = NoRequest
  NoReply = NoReply
INVARIANTS
  TypeOK
  LinearHistory
  ExecutedOnce
  CallsAreContiguous
  RefusedLeaveNoTrace
  ChainWithinBounds
PROPERTIES
  CommitsAreGuarded
  LinksAreHonoured
SYMMETRY CallSymmetry
