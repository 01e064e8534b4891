SPECIFICATION Spec
CONSTANTS
  a = a
  b = b
  v = v
  w = w
  UserNames <- Roots
  Values = {v, w}
  LockOps = {"*"}
  DirectOps = {"addvar", "renamevar_stx", "stalkvar"}
  BatchedOps = {"renamevar_stx", "removevar"}
  MaxCommits = 6
  MaxBatch = 1
INVARIANT AlwaysParses
