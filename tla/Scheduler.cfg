\* Plain stores delayed as on x86.  The inline queue overflows (NextCap = 1).
SPECIFICATION Spec
CONSTANTS
  t1 = t1
  t2 = t2
  w1 = w1
  Root = root
  Tasks = {t1, t2}
  Threads = {w1}
  NextCap = 1
  BatchSize = 2
  Wakes <- MCWakesAll
  RemoteTargets <- MCTargets
  TimerTargets <- MCTargets
  IoFutures = {root}
  Driver = "uring"
  StoreBuffer = TRUE
INVARIANTS
  WokenIsQueuedOnce
CHECK_DEADLOCK FALSE
