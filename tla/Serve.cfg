SPECIFICATION FairSpec
CONSTANTS
  Calls = {c1, c2}
  Conns = {"git", "ci"}
  Configs = {"proxy", "flow"}
  Broken = "broken"
  Connections <- MCConnections
  Uses <- MCUses
  Imports <- MCImports
  Importer = Importer
  NoClient = NoClient
  NoConn = NoConn
  MayHang = {"ci"}
  MaxHangups = 2
INVARIANTS
  TypeOK
  ReloadsAreWhole
  NoHalfBehind
  ClientsAreShared
PROPERTIES
  LastHangupWins
  OthersGoOn
CHECK_DEADLOCK FALSE
