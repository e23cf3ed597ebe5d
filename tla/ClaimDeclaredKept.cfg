SPECIFICATION Spec
CONSTANTS
  Places <- MCPlaces
  None = None
  Files <- MCFiles
  Root = "main"
  Caps <- MCCapNames
  Executors <- MCExecutors
  Guards <- MCGuards
  Settings <- MCSettings
  Trees <- MCTrees
  Tools <- MCTools
INVARIANT DeclaredAreKept
CHECK_DEADLOCK FALSE
