SPECIFICATION FairSpec
CONSTANTS
  Defs = {"review", "timed"}
  Definitions <- MCDefinitions
  States <- MCStates
  Names <- MCNames
  Keys = {"risk"}
  Vals = {"low", "high"}
  NoVal = NoVal
  Kinds = {"scan"}
  Principals = {"ann", "bot"}
  Humans = {"ann"}
  Args = {"good", "bad", "none"}
  NoArgs = "none"
  Calls = {c1, c2}
  Workflows = {w1}
  Requests <- FaultRequests
  Quoted = {0, 1}
  MaxFaults = 1
  NoInstance = NoInstance
  NoDef = NoDef
  NoVia = NoVia
  NoRun = NoRun
  NoRequest = NoRequest
  NoReply = NoReply
INVARIANTS
  AnswersAreCommitted
  AuditTellsHistory
PROPERTIES
  ImplementsLedger
  EveryCallAnswered
