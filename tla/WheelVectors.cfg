\* Three levels of three slots, so that timers cascade twice; three timers ever
\* in two slab keys, with delays of levels 0 and 2 and beyond the wheel (27).
SPECIFICATION VSpec
CONSTANTS
  Levels = 3
  Slots = 3
  Keys = {0, 1}
  Wakers = {a}
  Delays = {1, 2, 9, 28}
  Steps = {0, 1, 2, 4}
  MaxTick = 12
  MaxGen = 3
INVARIANTS
  LateByLessThanOneTurn
  NeverEarly
  NearestIsLeast
PROPERTIES
  ImplementsTimingWheel
  ImplementsTimerQueue
