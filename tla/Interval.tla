------------------------------ MODULE Interval ------------------------------
(***************************************************************************)
(* Interval of time/interval.rs: tick(), reset() and                       *)
(* set_missed_tick_behavior(), with the Sleep that tick() awaits taken for *)
(* what Timer shows of it, a future that may complete less than a          *)
(* millisecond before its deadline.  The future of tick() may be dropped   *)
(* while it sleeps.                                                        *)
(***************************************************************************)
EXTENDS Naturals, Integers

CONSTANTS
  Periods,    \* the periods, in clock units; may contain 0
  Milli,      \* clock units in a millisecond
  ClockSteps, \* how far the clock may move between two steps
  MaxClock    \* bound on the clock

IntervalAssumption ==
  /\ Periods \subseteq Nat
  /\ Milli \in Nat \ {0}
  /\ ClockSteps \subseteq Nat \ {0}
  /\ MaxClock \in Nat

None == -1

VARIABLES
  clock,         \* Instant::now()
  period,        \* Interval::period
  missed_tick_behavior, \* Interval::missed_tick_behavior
  next_deadline, \* Interval::next_deadline
  target,        \* the deadline of the Sleep that tick() awaits, or None
  start,         \* history: the first deadline since the last reset, or None
  ticks,         \* history: the ticks returned since then (with a period)
  returned       \* history: how tick() returned in this step: "slept", "missed" or "no"

config == <<period, missed_tick_behavior>>
vars == <<clock, period, missed_tick_behavior, next_deadline, target, start, ticks, returned>>

MissedTickBehavior == {"Skip", "CatchUp"}

Init ==
  /\ clock = 0
  /\ period \in Periods
  /\ missed_tick_behavior = "Skip"
  /\ next_deadline \in {None} \cup 0..period   \* new, or interval_at
  /\ target = None
  /\ start = next_deadline
  /\ ticks = 0
  /\ returned = "no"

-----------------------------------------------------------------------------

\* The deadline of this tick: the stored one, or a period from now.
base_next == IF next_deadline = None THEN clock + period ELSE next_deadline

\* Whole periods from d until the first one after the clock.
Missed(d) == ((clock - d) \div period) + 1

\* tick() returns n; without a period there are no deadlines to count.
Returns(n) == ticks' = IF period = 0 THEN 0 ELSE ticks + n

Begun == start' = IF start = None THEN base_next ELSE start

\* Mutant: the new deadline counts from now.
SkipTarget_FromNow == IF base_next > clock THEN base_next ELSE clock + period

\* The target of a Skip tick: the first deadline in the future.
SkipTarget ==
  IF base_next > clock THEN base_next
  ELSE IF period = 0 THEN clock
  ELSE base_next + Missed(base_next) * period

\* tick() with Skip, up to its await.
TickSkip ==
  /\ missed_tick_behavior = "Skip"
  /\ target = None
  /\ target' = SkipTarget
  /\ Begun
  /\ returned' = "no"
  /\ UNCHANGED <<config, clock, next_deadline, ticks>>

\* tick() with CatchUp before the deadline, up to its await.
TickOnTime ==
  /\ missed_tick_behavior = "CatchUp"
  /\ target = None
  /\ base_next > clock
  /\ target' = base_next
  /\ Begun
  /\ returned' = "no"
  /\ UNCHANGED <<config, clock, next_deadline, ticks>>

\* Mutant: the deadline moves on by two periods.
TickEnds_TwoPeriods ==
  /\ target # None
  /\ clock > target - Milli
  /\ next_deadline' = target + period + period
  /\ Returns(1)
  /\ target' = None
  /\ returned' = "slept"
  /\ UNCHANGED <<config, clock, start>>

\* The await ends, and tick() returns 1.
TickEnds ==
  /\ target # None
  /\ clock > target - Milli
  /\ next_deadline' = target + period
  /\ Returns(1)
  /\ target' = None
  /\ returned' = "slept"
  /\ UNCHANGED <<config, clock, start>>

\* tick() with CatchUp after the deadline returns at once.
TickMissed ==
  /\ missed_tick_behavior = "CatchUp"
  /\ target = None
  /\ base_next <= clock
  /\ IF period = 0
       THEN next_deadline' = clock /\ Returns(1)
       ELSE /\ next_deadline' = base_next + Missed(base_next) * period + period
            /\ Returns(Missed(base_next))
  /\ Begun
  /\ returned' = "missed"
  /\ UNCHANGED <<config, clock, target>>

\* The future of tick() is dropped while it sleeps: nothing was changed yet.
TickDropped ==
  /\ target # None
  /\ target' = None
  /\ start' = IF next_deadline = None THEN None ELSE start
  /\ returned' = "no"
  /\ ticks' = IF next_deadline = None THEN 0 ELSE ticks
  /\ UNCHANGED <<config, clock, next_deadline>>

\* The interval is borrowed while tick() sleeps.
set_missed_tick_behavior(behavior) ==
  /\ target = None
  /\ missed_tick_behavior' = behavior
  /\ returned' = "no"
  /\ UNCHANGED <<clock, period, next_deadline, target, start, ticks>>

reset ==
  /\ target = None
  /\ next_deadline' = None
  /\ start' = None
  /\ ticks' = 0
  /\ returned' = "no"
  /\ UNCHANGED <<config, clock, target>>

Elapse(d) ==
  /\ clock + d <= MaxClock
  /\ clock' = clock + d
  /\ returned' = "no"
  /\ UNCHANGED <<config, next_deadline, target, start, ticks>>

Next ==
  \/ TickSkip \/ TickOnTime \/ TickEnds \/ TickMissed \/ TickDropped \/ reset
  \/ \E behavior \in MissedTickBehavior : set_missed_tick_behavior(behavior)
  \/ \E d \in ClockSteps : Elapse(d)

Spec == Init /\ [][Next]_vars

-----------------------------------------------------------------------------
(* Properties.                                                             *)

(* A steady cadence: every deadline is a whole number of periods after the *)
(* first one, whatever was missed and however late tick() is called        *)
(* (interval.rs 16: "maintaining a steady cadence (accounting for drift)").*)
OnGrid ==
  period > 0 =>
    \A d \in {next_deadline, target} : d # None => (d - start) % period = 0

\* The deadlines from start up to a time.
Deadlines(time) == IF time < start THEN 0 ELSE ((time - start) \div period) + 1

(* No tick twice: tick() has returned no more ticks than there were        *)
(* deadlines, up to the millisecond that a Sleep may be early.             *)
NoTickTwice ==
  period > 0 /\ start # None => ticks <= Deadlines(clock + Milli - 1)

(* A tick that slept skips no deadline to come: when it returns, the next  *)
(* deadline is at most one period away, after missed ticks with Skip (the  *)
(* "next future multiple", interval.rs 10) as after a tick on time.        *)
SkipsNoFutureDeadline == returned = "slept" => next_deadline < clock + period + Milli

(* Ticks come on the grid and none comes twice: the two invariants above   *)
(* of tick, reset and set_missed_tick_behavior in any order.               *)
TicksOnGrid == OnGrid /\ NoTickTwice
=============================================================================
