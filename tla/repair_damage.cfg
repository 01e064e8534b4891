SPECIFICATION Spec
CONSTANTS
  p1 = p1
  p2 = p2
  x = x
  y = y
  v = v
  w = w
  f = f
  g = g
  k = k
  l = l
  Procs = {p1, p2}
  Names = {x, y}
  Values = {v, w}
  Frames = {f, g}
  Layouts = {k, l}
  Kinds = {"write", "transact", "rollback", "recover", "list", "rebuild", "repair"}
  MaxCalls = 3
  MaxDamage = 1
  MaxCrashes = 1
SYMMETRY Symmetry
VIEW LiveView
INVARIANT HealthyIsReportedHealthy
 
PROPERTY SerialRepairKeepsCommitted
