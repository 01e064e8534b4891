SPECIFICATION FairSpec
CONSTANTS
  p1 = p1
  p2 = p2
  a = a
  b = b
  c = c
  Procs = {p1, p2}
  Content = {a, b}
  NoContent = NoContent
  Free = Free
  Kinds = {"mutate", "repair", "restore_backup", "rollback", "observe"}
  MaxCalls = 2
  MaxFaults = 1
  MaxForeign = 1
  MaxKeep = 1
INVARIANT TimelineBacked
INVARIANT ObjectsIntact
PROPERTY CommitIsPrepared
PROPERTY EveryCallReturns
