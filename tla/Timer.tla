------------------------------- MODULE Timer -------------------------------
(***************************************************************************)
(* Timer of timer.rs and the Sleep future of time/sleep.rs, on the wheel   *)
(* of WheelFunctions and a clock finer than the ticks of the wheel, with   *)
(* the part of block_on that spins the timer and waits.                    *)
(*                                                                         *)
(* Each Sleep is awaited by a task of its own, which it is named after: a  *)
(* member of Wakers.  A task may be polled at any time, woken or not.      *)
(*                                                                         *)
(* Sleep keeps the Rc<Timer> it first polled; a handle only exists after   *)
(* that poll, so the field timer is left out.  An Instant is a number of   *)
(* clock units and as_millis rounds down to whole milliseconds.            *)
(***************************************************************************)
EXTENDS WheelFunctions, Integers

CONSTANTS
  Milli,      \* clock units in a millisecond
  Durations,  \* the durations of sleeps, in clock units
  Zero,       \* the ZeroBehavior of sleeps: a subset of {"Immediate", "Yield"}
  InRuntime,  \* whether resets are made in a runtime: a subset of BOOLEAN
  ClockSteps, \* how far the clock may move between two steps
  MaxClock,   \* bound on the clock
  MaxTimers   \* bound on the generations of the wheel

ASSUME TimerAssumption ==
  /\ Milli \in Nat \ {0}
  /\ Durations \subseteq Nat
  /\ Zero \subseteq {"Immediate", "Yield"}
  /\ InRuntime \subseteq BOOLEAN
  /\ ClockSteps \subseteq Nat \ {0}
  /\ MaxClock \in Nat
  /\ MaxTimers \in Nat

NoHandle == [slab_index |-> -1, generation |-> 0]
Never == -1

VARIABLES
  clock,    \* what Instant::now() returns
  wheel,    \* Timer::wheel
  instant,  \* Timer::instant
  sleep,    \* the Sleep futures
  woken,    \* the tasks that were woken and not polled since
  until,    \* when Driver::wait times out, Never without a deadline, 0 while it runs
  lost,     \* history: the part of the clock that spins rounded away since a submit
  polled    \* history: the last poll since new or reset returned Pending

vars == <<clock, wheel, instant, sleep, woken, until, lost, polled>>

NoSleep == [alive |-> FALSE, deadline |-> 0, handle |-> NoHandle, fired |-> FALSE,
            yield_scheduled |-> FALSE, zero_behavior |-> "Immediate"]

Init ==
  /\ clock = 1
  /\ wheel = new
  /\ instant = 1
  /\ sleep = [s \in Wakers |-> NoSleep]
  /\ woken = [s \in Wakers |-> FALSE]
  /\ until = 0
  /\ lost = [s \in Wakers |-> 0]
  /\ polled = [s \in Wakers |-> FALSE]

Running == until = 0

\* The timer of s is in the wheel, and its handle names it.
Registered(s) ==
  LET h == sleep[s].handle
  IN  IsLive(wheel.entries, <<0, h.slab_index, h.generation>>)

-----------------------------------------------------------------------------
(* Timer.                                                                  *)

\* A duration of whole milliseconds: as_millis of a saturating difference.
Millis(from, to) == IF to > from THEN (to - from) \div Milli ELSE 0

\* Timer::submit of a timer for s, with the rest of the sleep's new state.
\* The sleep keeps the handle when the wheel took it; Immediate is what it does
\* when the waker was woken at once.
Submit(w, s, deadline, Immediate) ==
  LET millis == Millis(instant, deadline)
  IN  IF millis < 1
        THEN /\ wheel' = w
             /\ woken' = [woken EXCEPT ![s] = TRUE]
             /\ lost' = [lost EXCEPT ![s] = 0]
             /\ Immediate
        ELSE /\ w.generation_counter < MaxTimers
             /\ \E key \in Keys \ DOMAIN w.entries :
                  /\ wheel' = insert(w, s, w.current_tick + millis, key)
                  /\ sleep' = [sleep EXCEPT ![s].handle =
                                 [slab_index |-> key, generation |-> w.generation_counter + 1]]
                  /\ polled' = [polled EXCEPT ![s] = TRUE]
             /\ woken' = [woken EXCEPT ![s] = FALSE]
             /\ lost' = [lost EXCEPT ![s] = 0]

\* Timer::cancel, with no handle nothing.
cancel(w, handle) == IF handle = NoHandle THEN w ELSE remove(w, handle)

\* Mutant: a spin advances the wheel by one tick at most.
Elapsed_OneTick == IF clock - instant >= Milli THEN 1 ELSE 0

\* The ticks that a spin advances the wheel by.
Elapsed == Millis(instant, clock)

SpinWakes == IF Elapsed = 0 THEN {} ELSE {wheel.entries[k].waker : k \in Due(wheel, Elapsed)}

\* spin_and_get_deadline: what it does ...
Spin ==
  /\ instant' = clock
  /\ IF DOMAIN wheel.entries = {}
       THEN UNCHANGED <<wheel, woken>> /\ lost' = [s \in Wakers |-> 0]
       ELSE /\ wheel' = advance(wheel, Elapsed)
            /\ woken' = [s \in Wakers |-> woken[s] \/ s \in SpinWakes]
            /\ lost' = [s \in Wakers |->
                        IF Registered(s) THEN lost[s] + ((clock - instant) % Milli) ELSE 0]

\* Mutant: the timeout is the absolute tick.
Timeout_Absolute(w) ==
  IF w.min_expiration_tick = None THEN Never ELSE clock + w.min_expiration_tick * Milli

\* ... and the timeout that it returns, as the time at which the wait ends.
Timeout(w) ==
  IF w.min_expiration_tick = None THEN Never
  ELSE clock + Milli * (IF w.min_expiration_tick > w.current_tick + 1
                          THEN w.min_expiration_tick - w.current_tick ELSE 1)

-----------------------------------------------------------------------------
(* Sleep.                                                                  *)

\* Sleep::new, new_with_zero_behavior and sleep_until; the task polls it next.
New(s, duration, zero) ==
  /\ Running
  /\ ~sleep[s].alive
  /\ sleep' = [sleep EXCEPT ![s] = [NoSleep EXCEPT !.alive = TRUE,
                                                   !.deadline = clock + duration,
                                                   !.zero_behavior = zero]]
  /\ polled' = [polled EXCEPT ![s] = FALSE]
  /\ UNCHANGED <<clock, wheel, instant, woken, until, lost>>

\* Sleep::reset.  Outside of a runtime there is no current_timer, and the
\* handle is dropped without a cancel.
Reset(s, duration, inRuntime) ==
  /\ Running
  /\ sleep[s].alive
  /\ sleep' = [sleep EXCEPT ![s].deadline = clock + duration,
                            ![s].fired = FALSE,
                            ![s].yield_scheduled = FALSE,
                            ![s].handle = NoHandle]
  /\ wheel' = IF inRuntime THEN cancel(wheel, sleep[s].handle) ELSE wheel
  /\ polled' = [polled EXCEPT ![s] = FALSE]
  /\ lost' = [lost EXCEPT ![s] = 0]
  /\ UNCHANGED <<clock, instant, woken, until>>

Polling(s) == Running /\ sleep[s].alive /\ UNCHANGED <<clock, instant, until>>

\* Sleep::poll of a sleep that has fired.
PollFired(s) ==
  /\ Polling(s)
  /\ sleep[s].fired
  /\ woken' = [woken EXCEPT ![s] = FALSE]
  /\ UNCHANGED <<wheel, sleep, lost, polled>>

\* handle_immediate_wakeup: a Yield sleep returns Pending once.
handle_immediate_wakeup(s) ==
  LET yields == sleep[s].zero_behavior = "Yield" /\ ~sleep[s].yield_scheduled
  IN  /\ sleep' = IF yields THEN [sleep EXCEPT ![s].yield_scheduled = TRUE]
                            ELSE [sleep EXCEPT ![s].fired = TRUE]
      /\ polled' = [polled EXCEPT ![s] = yields]

\* The first poll submits the timer.
PollFirst(s) ==
  /\ Polling(s)
  /\ ~sleep[s].fired
  /\ sleep[s].handle = NoHandle
  /\ Submit(wheel, s, sleep[s].deadline, handle_immediate_wakeup(s))

\* A later poll, with the deadline reached: the handle is dropped.
PollDue(s) ==
  /\ Polling(s)
  /\ ~sleep[s].fired
  /\ sleep[s].handle # NoHandle
  /\ clock >= sleep[s].deadline
  /\ sleep' = [sleep EXCEPT ![s].fired = TRUE, ![s].handle = NoHandle]
  /\ woken' = [woken EXCEPT ![s] = FALSE]
  /\ polled' = [polled EXCEPT ![s] = FALSE]
  /\ lost' = [lost EXCEPT ![s] = 0]
  /\ UNCHANGED wheel

\* Mutant: the timer is cancelled and not submitted again.
PollSpurious_NotSubmitted(s) ==
  /\ Polling(s)
  /\ ~sleep[s].fired
  /\ sleep[s].handle # NoHandle
  /\ clock < sleep[s].deadline
  /\ wheel' = cancel(wheel, sleep[s].handle)
  /\ sleep' = [sleep EXCEPT ![s].handle = NoHandle]
  /\ polled' = [polled EXCEPT ![s] = TRUE]
  /\ woken' = [woken EXCEPT ![s] = FALSE]
  /\ UNCHANGED lost

\* A later poll, before the deadline: the timer is cancelled and submitted
\* again.
PollSpurious(s) ==
  /\ Polling(s)
  /\ ~sleep[s].fired
  /\ sleep[s].handle # NoHandle
  /\ clock < sleep[s].deadline
  /\ LET Immediate == /\ sleep' = [sleep EXCEPT ![s].handle = NoHandle, ![s].fired = TRUE]
                      /\ polled' = [polled EXCEPT ![s] = FALSE]
     IN  Submit(cancel(wheel, sleep[s].handle), s, sleep[s].deadline, Immediate)

\* Drop for Sleep.
Drop(s) ==
  /\ Running
  /\ sleep[s].alive
  /\ wheel' = cancel(wheel, sleep[s].handle)
  /\ sleep' = [sleep EXCEPT ![s] = NoSleep]
  /\ polled' = [polled EXCEPT ![s] = FALSE]
  /\ lost' = [lost EXCEPT ![s] = 0]
  /\ UNCHANGED <<clock, instant, woken, until>>

-----------------------------------------------------------------------------
(* block_on, and time.                                                     *)

\* The spin at the top of the loop.
SpinTop ==
  /\ Running
  /\ Spin
  /\ UNCHANGED <<clock, sleep, until, polled>>

\* Nobody is ready: the spin before the wait, and the wait unless it woke
\* somebody.
SpinAndWait ==
  /\ Running
  /\ \A s \in Wakers : ~woken[s]
  /\ Spin
  /\ until' = IF \E s \in Wakers : woken'[s] THEN 0 ELSE Timeout(wheel')
  /\ UNCHANGED <<clock, sleep, polled>>

\* Driver::wait returns: at its deadline, or before for another reason.
WaitEnds ==
  /\ ~Running
  /\ until' = 0
  /\ UNCHANGED <<clock, wheel, instant, sleep, woken, lost, polled>>

\* Time passes, in a poll or in the wait, which does not outlast its timeout.
Elapse(d) ==
  /\ clock + d <= MaxClock
  /\ until > 0 => clock + d <= until
  /\ clock' = clock + d
  /\ UNCHANGED <<wheel, instant, sleep, woken, until, lost, polled>>

Next ==
  \/ \E s \in Wakers, d \in Durations, z \in Zero : New(s, d, z)
  \/ \E s \in Wakers, d \in Durations, inRuntime \in InRuntime : Reset(s, d, inRuntime)
  \/ \E s \in Wakers : \/ PollFired(s) \/ PollFirst(s) \/ PollDue(s) \/ PollSpurious(s)
                       \/ Drop(s)
  \/ SpinTop \/ SpinAndWait \/ WaitEnds
  \/ \E d \in ClockSteps : Elapse(d)

Spec == Init /\ [][Next]_vars

-----------------------------------------------------------------------------
(* Properties.                                                             *)

Expiration(s) == wheel.entries[sleep[s].handle.slab_index].expiration_tick

\* The time at which a wheel that is spun exactly on time gets to its tick.
WakeTime(s) == instant + (Expiration(s) - wheel.current_tick) * Milli

(* A sleep whose poll returned Pending is never forgotten: its task has    *)
(* been woken, or its own timer, which wakes this task, is in the wheel,   *)
(* after any sequence of spurious polls, resets, cancels and reused keys.  *)
NoSleepForgotten ==
  \A s \in Wakers : polled[s] =>
    \/ woken[s]
    \/ Registered(s) /\ wheel.entries[sleep[s].handle.slab_index].waker = s

(* A sleep completes less than a millisecond before its deadline, or after *)
(* it, however stale Timer::instant was when its timer was submitted.      *)
AtMostOneMilliEarly ==
  \A s \in Wakers : sleep[s].fired => clock > sleep[s].deadline - Milli

(* How late a sleep can be: at the last spin its deadline had passed by    *)
(* less than one turn of the wheel, plus what the spins rounded away.      *)
LateByATurnAndDrift ==
  \A s \in Wakers : Registered(s) =>
    instant < sleep[s].deadline + lost[s] + Slots * Milli

(* The runtime does not oversleep: Driver::wait times out no later than    *)
(* the tick of any timer, or after the shortest wait of a millisecond.     *)
WaitsForNearest ==
  ~Running => \A s \in Wakers : Registered(s) =>
    until # Never /\ (until <= WakeTime(s) \/ until = instant + Milli)

(* A sleep completes neither too early nor too late, up to the millisecond *)
(* of the wheel's ticks, one turn of its level 0 and the drift of spin.    *)
WakesInTime == AtMostOneMilliEarly /\ LateByATurnAndDrift
=============================================================================
