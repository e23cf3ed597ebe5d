SPECIFICATION Spec
CONSTANTS
  Places <- MCPlaces
  None = None
  Files <- MCFiles
  Root = "main"
  Caps <- MCCapNames
  Executors <- MCExecutors
  Guards <- MCGuards
  Settings <- MCSettings
  Trees <- MCTrees
  Tools <- MCTools
INVARIANTS TypeOK MergedInOrder PoliciesStack CheckedStayDeclared WarningsAreTrue
CHECK_DEADLOCK FALSE
