---------------------------- MODULE WheelVectors ----------------------------
(***************************************************************************)
(* The timing wheel of timer.rs with its vectors of slab keys, in the      *)
(* order in which advance walks them: every slot of the levels from the    *)
(* top down to 1, then level 0 slots from the one of the old tick to the   *)
(* one of the new tick.  A vector is taken out of the wheel before its     *)
(* keys are looked at, and a timer that is not due is pushed to a vector   *)
(* that may or may not be walked later in the same call.                   *)
(*                                                                         *)
(* TimingWheel says in one step what such a walk comes to; this module     *)
(* shows that it does (its steps are steps of TimingWheel!Spec), and that  *)
(* the vectors always agree with the entries.                              *)
(***************************************************************************)
EXTENDS TimingWheel, Sequences

Seqs == INSTANCE SequencesExt

VARIABLE wheels   \* TimingWheel::wheels, wheels[level][slot]: a vector of keys

vvars == <<wheel, handles, expired, removed, wheels>>

Level == 0..(Levels - 1)

VInit == Init /\ wheels = [l \in Level |-> [s \in Slot |-> <<>>]]

Push(ws, entry, key) == [ws EXCEPT ![entry.level][entry.slot] = Append(@, key)]

VInsert(waker, delay, key) ==
  /\ Insert(waker, delay, key)
  /\ wheels' = Push(wheels, wheel'.entries[key], key)

VRemove(handle) ==
  /\ Remove(handle)
  /\ IF IsLive(wheel.entries, <<0, handle.slab_index, handle.generation>>)
       THEN LET e == wheel.entries[handle.slab_index]
            IN  wheels' = [wheels EXCEPT ![e.level][e.slot] = Seqs!RemoveFirst(@, handle.slab_index)]
       ELSE UNCHANGED wheels

\* Mutant: a timer is taken one tick before it expires.
ProcessKey_OneEarly(w, key, now) ==
  IF key \notin DOMAIN w.entries THEN w
  ELSE IF w.entries[key].expiration_tick <= now + 1
    THEN [w EXCEPT !.entries = [k \in DOMAIN w.entries \ {key} |-> w.entries[k]],
                   !.due = @ \cup {w.entries[key]}]
    ELSE LET e == Place(w.entries[key], now)
         IN  [w EXCEPT !.entries[key] = e, !.wheels = Push(w.wheels, e, key)]

\* One key of a vector that was taken: w is [entries, wheels, due].
ProcessKey(w, key, now) ==
  IF key \notin DOMAIN w.entries THEN w
  ELSE IF w.entries[key].expiration_tick <= now
    THEN [w EXCEPT !.entries = [k \in DOMAIN w.entries \ {key} |-> w.entries[k]],
                   !.due = @ \cup {w.entries[key]}]
    ELSE LET e == Place(w.entries[key], now)
         IN  [w EXCEPT !.entries[key] = e, !.wheels = Push(w.wheels, e, key)]

\* The body of cascade_level for one slot, and process_slot_at_level_0.
ProcessSlot(w, level, slot, now) ==
  Seqs!FoldLeft(LAMBDA acc, key : ProcessKey(acc, key, now),
           [w EXCEPT !.wheels[level][slot] = <<>>],
           w.wheels[level][slot])

\* Mutant: only the top level is cascaded.
CascadeOrder_TopOnly == [i \in 1..Slots |-> <<Levels - 1, i - 1>>]

\* cascade_all_levels.
CascadeOrder ==
  [i \in 1..((Levels - 1) * Slots) |-> <<Levels - 1 - ((i - 1) \div Slots), (i - 1) % Slots>>]

\* Mutant: a wrapped scan stops at the last slot.
ScanOrder_NoWrap(start, ticks) ==
  IF ticks >= Slots
    THEN [i \in 1..Slots |-> <<0, i - 1>>]
    ELSE LET s == start % Slots
             n == IF s + ticks < Slots THEN ticks + 1 ELSE Slots - s
         IN  [i \in 1..n |-> <<0, s + i - 1>>]

\* The slots of level 0: all of them after a full turn, else those of the
\* ticks start..start+ticks, wrapping after the last slot.
ScanOrder(start, ticks) ==
  IF ticks >= Slots
    THEN [i \in 1..Slots |-> <<0, i - 1>>]
    ELSE [i \in 1..(ticks + 1) |-> <<0, (start + i - 1) % Slots>>]

VAdvance(ticks) ==
  LET now == wheel.current_tick + ticks
      w == Seqs!FoldLeft(LAMBDA acc, p : ProcessSlot(acc, p[1], p[2], now),
                    [entries |-> wheel.entries, wheels |-> wheels, due |-> {}],
                    IF ticks = 0 THEN <<>>
                    ELSE CascadeOrder \o ScanOrder(wheel.current_tick, ticks))
  IN  /\ now <= MaxTick
      /\ wheel' = IF ticks = 0 THEN wheel
                  ELSE refresh_min_expiration([wheel EXCEPT !.entries = w.entries,
                                                            !.current_tick = now])
      /\ wheels' = w.wheels
      /\ expired' = w.due
      /\ removed' = 0
      /\ UNCHANGED handles

VNext ==
  \/ \E waker \in Wakers, delay \in Delays, key \in Keys : VInsert(waker, delay, key)
  \/ \E handle \in handles : VRemove(handle)
  \/ \E ticks \in Steps : VAdvance(ticks)

VSpec == VInit /\ [][VNext]_vvars

-----------------------------------------------------------------------------

(* The walk over the vectors comes to what TimingWheel says of advance,    *)
(* insert and remove: every step is a step of its specification.           *)
ImplementsTimingWheel == Spec
=============================================================================
