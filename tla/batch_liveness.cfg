SPECIFICATION FairSpec
CONSTANTS
  t1 = t1
  t2 = t2
  x1 = x1
  x2 = x2
  k1 = k1
  k2 = k2
  Threads = {t1, t2}
  Timers = {x1}
  Keys = {k1, k2}
  MaxOperations = 2
  TimerOn = TRUE
  Asks = {"disable", "enable", "transact", "recover"}
  MaxIssued = 2
  MaxAsked = 2
  MaxFaults = 1
PROPERTY QueuedIsResolved
PROPERTY KeepsThePromise
