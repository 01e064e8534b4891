SPECIFICATION Spec
CONSTANTS
  a = a
  b = b
  c = c
  Tilde = Tilde
  RecentName = RecentName
  NullLine = NullLine
  BlankLine = BlankLine
  UserNames <- Users
  StalkNames <- Stalked
  Values = {v, w}
  LockOps = {"changevar"}
  Ops = {"addvar", "corevar", "appvar", "appvar_locks", "changevar", "removevar", "renamevar_stx", "renumber", "joinvars", "lockvar", "lockdel", "stalkvar"}
  MaxCalls = 3
  MaxItems = 3
  MaxPayload = 2
  MaxCuts = 1

INVARIANT OnlyCollisionsBreakFiles
INVARIANT OthersUntouched
INVARIANT ItemsKeepRecords
INVARIANT OracleAgrees
