SPECIFICATION Spec
CONSTANTS
  caller = caller
  other = other
  w1 = w1
  w2 = w2
  vfs1 = vfs1
  vfs2 = vfs2
  None = None
  Caller = caller
  Users = {caller, other}
  Workers = {w1, w2}
  Procs = {caller, other, w1, w2}
  VFSs = {vfs1, vfs2}
  MaxUses <- MCMaxUses
  CallLists <- MCCallLists
  ChunkSize = 2
  MaxDeaths = 1
INVARIANT ListAnswered
INVARIANT WorksWhereItShould
PROPERTY FilesStand
PROPERTY Returns
CHECK_DEADLOCK FALSE
