\* Sequential consistency, and a batch (2) larger than the inline queue (1).
\* Polls wake tasks and never the root.
SPECIFICATION PausingSpec
CONSTANTS
  t1 = t1
  t2 = t2
  w1 = w1
  Root = root
  Tasks = {t1, t2}
  Threads = {w1}
  NextCap = 1
  BatchSize = 2
  Wakes <- MCWakesTasks
  RemoteTargets = {t1, root}
  TimerTargets = {t2}
  IoFutures = {t1, root}
  Driver = "mio"
  StoreBuffer = FALSE
INVARIANTS
  NoLostWakeup
PROPERTIES
  WokenIsPolled
  
CHECK_DEADLOCK FALSE
