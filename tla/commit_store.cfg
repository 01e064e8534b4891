SPECIFICATION Spec
CONSTANTS
  p1 = p1
  p2 = p2
  a = a
  b = b
  c = c
  Procs = {p1, p2}
  Content = {a, b, c}
  NoContent = NoContent
  Free = Free
  Kinds = {"mutate", "compact"}
  MaxCalls = 3
  MaxFaults = 1
  MaxForeign = 0
  MaxKeep = 2
SYMMETRY Symmetry
INVARIANT StoreInv
INVARIANT HeadIsCurrent
PROPERTY RefinesRevisionStore
PROPERTY TimelineAppendsOrForgets
