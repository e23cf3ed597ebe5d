SPECIFICATION FairSpec
CONSTANTS
  Calls = {"s1", "s2"}
  Workflow <- MCWorkflow
  Plan <- MCPlan
  Names = {"pay", "post", "on_enter"}
  Kinds = {"rest", "cli"}
  Services = {"bank"}
  Dedupes = {"bank"}
  NoKey = NoKey
  NoClass = NoClass
INVARIANTS
  TypeOK
  EffectsOnce
  SuccessIsReal
  TrailTellsAttempts
PROPERTIES
  EveryCallEnds
