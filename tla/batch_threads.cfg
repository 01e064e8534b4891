SPECIFICATION Spec
CONSTANTS
  t1 = t1
  t2 = t2
  x1 = x1
  x2 = x2
  k1 = k1
  k2 = k2
  Threads = {t1, t2}
  Timers = {x1}
  Keys = {k1}
  MaxOperations = 2
  TimerOn = TRUE
  Asks = {"flush", "read"}
  MaxIssued = 4
  MaxAsked = 1
  MaxFaults = 1
INVARIANT NothingLostOrRepeated
INVARIANT BatchIsOneTransaction
INVARIANT FlushOkMeansDurable
INVARIANT BatchBounded
INVARIANT ReadLeavesNothingQueued
INVARIANT OvertakenOnlyInFlight
