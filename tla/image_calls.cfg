SPECIFICATION Spec
CONSTANTS
  a = a
  b = b
  v = v
  w = w
  UserNames <- Roots
  Values = {v, w}
  LockOps = {"*", "changevar", "removevar"}
  DirectOps = {"addvar", "appvar", "set_value", "changevar", "renamevar_stx", "removevar", "joinvars", "lockvar", "lockdel", "stalkvar"}
  BatchedOps = {"addvar", "appvar", "set_value", "changevar", "joinvars"}
  MaxCommits = 5
  MaxBatch = 2
INVARIANT AlwaysParses
INVARIANT SectionsBacked
PROPERTY LocksRespected
