SPECIFICATION Spec
CONSTANTS
  p1 = p1
  p2 = p2
  t1 = t1
  t2 = t2
  t3 = t3
  Procs = {p1, p2}
  Threads = {t1, t2, t3}
  ProcOf <- MCProcOf
  OpsOf <- MCOpsOf
  MaxCalls <- MCMaxCalls
  MaxGens = 3
  ScanWeight = 2
  SidecarWeight = 1
  MaxWeight = 3
  MaxEntries = 2
INVARIANT SnapshotsTrue
INVARIANT CacheAccounted
PROPERTY ReadIsRecent
PROPERTY OptimizeKeepsContent
CHECK_DEADLOCK FALSE
