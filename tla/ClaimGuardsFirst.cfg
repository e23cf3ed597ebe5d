SPECIFICATION Spec
CONSTANTS
  Defs = {"review"}
  Definitions <- MCDefinitions
  States <- MCStates
  Names <- MCNames
  Keys = {"risk"}
  Vals = {"low", "high"}
  NoVal = NoVal
  Kinds = {"scan"}
  Principals = {"ann", "bot"}
  Humans = {"ann"}
  Args = {"good", "bad", "none"}
  NoArgs = "none"
  Calls = {c1, c2}
  Workflows = {w1}
  Requests <- LiveRequests
  Quoted = {0, 1}
  MaxFaults = 0
  NoInstance = NoInstance
  NoDef = NoDef
  NoVia = NoVia
  NoRun = NoRun
  NoRequest = NoRequest
  NoReply = NoReply
PROPERTY GuardsBeforeDispatch
