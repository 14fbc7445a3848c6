\* One sleep, half milliseconds, a wheel of two levels of three slots; the bounds
\* of the other parts are in the module.
SPECIFICATION SumSpec
CONSTANTS
  s1 = s1
  Wakers = {s1}
  Levels = 2
  Slots = 3
  Keys = {0, 1}
  Milli = 2
  Durations = {1, 4}
  Zero = {"Immediate", "Yield"}
  InRuntime = {TRUE, FALSE}
  ClockSteps = {1, 5}
  MaxClock = 11
  MaxTimers = 3
  NoCall = NoCall
INVARIANTS
  NoSleepForgotten
  WakesInTime
  WaitsForNearest
  TicksOnGrid
  
  
  FileIsAsReported
  OpenMeansStd
  StreamIsKept
  CallsGetTheirDue
