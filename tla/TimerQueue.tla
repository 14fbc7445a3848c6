----------------------------- MODULE TimerQueue -----------------------------
(***************************************************************************)
(* What a user of the timing wheel of timer.rs relies on.  A timer is      *)
(* named by the number of its insertion.  Slab keys, levels, slots and the *)
(* heap do not appear.                                                     *)
(***************************************************************************)
EXTENDS Naturals

CONSTANTS
  Delays,   \* the delays of timers
  Steps,    \* how far time may advance at once
  MaxLate   \* how many ticks after its expiration a timer may fire

VARIABLES
  now,      \* the current tick
  last,     \* the number of timers inserted so far
  live,     \* the expiration tick of every timer waiting
  nearest,  \* the least of them, 0 when there is none
  fired,    \* the timers that this step returns as fired
  cancelled \* the timer that this step cancels, or 0

Init ==
  /\ now = 0
  /\ last = 0
  /\ live = [g \in {} |-> g]
  /\ nearest = 0
  /\ fired = {}
  /\ cancelled = 0

\* nearest follows live at every step.
NearestOf(timers) ==
  IF DOMAIN timers = {} THEN 0
  ELSE CHOOSE t \in {timers[g] : g \in DOMAIN timers} :
         \A g \in DOMAIN timers : t <= timers[g]

Without(timers, gone) == [g \in DOMAIN timers \ gone |-> timers[g]]

Insert(delay) ==
  /\ last' = last + 1
  /\ live' = [g \in DOMAIN live \cup {last + 1} |->
                IF g = last + 1 THEN now + delay ELSE live[g]]
  /\ nearest' = NearestOf(live')
  /\ fired' = {}
  /\ cancelled' = 0
  /\ UNCHANGED now

\* A timer that fired or was cancelled before is cancelled without effect.
Cancel(g) ==
  /\ live' = Without(live, {g})
  /\ nearest' = NearestOf(live')
  /\ fired' = {}
  /\ cancelled' = g
  /\ UNCHANGED <<now, last>>

Advance(ticks) ==
  /\ now' = now + ticks
  /\ \E due \in SUBSET {g \in DOMAIN live : live[g] <= now'} :
       /\ {g \in DOMAIN live : live[g] + MaxLate < now'} \subseteq due
       /\ live' = Without(live, due)
       /\ fired' = due
  /\ nearest' = NearestOf(live')
  /\ cancelled' = 0
  /\ UNCHANGED last

Next ==
  \/ \E delay \in Delays : Insert(delay)
  \/ \E g \in 1..last : Cancel(g)
  \/ \E ticks \in Steps : Advance(ticks)

Spec == Init /\ [][Next]_<<now, last, live, nearest, fired, cancelled>>
=============================================================================
