SPECIFICATION Spec
CONSTANTS
  p1 = p1
  p2 = p2
  a = a
  b = b
  c = c
  Procs = {p1, p2}
  Content = {a, b, c}
  NoContent = NoContent
  Free = Free
  Kinds = {"mutate", "prune"}
  MaxCalls = 2
  MaxFaults = 0
  MaxForeign = 0
  MaxKeep = 1
SYMMETRY Symmetry
INVARIANT TimelineBacked
