--------------------------- MODULE WheelFunctions ---------------------------
(***************************************************************************)
(* The hierarchical timing wheel of timer.rs as functions on its state:    *)
(* insert, remove, advance and what they are made of.  TimingWheel is the  *)
(* state machine of their calls, Timer composes them with the clock.       *)
(*                                                                         *)
(* A wheel is a record with the fields of the Rust struct.  entries is a   *)
(* partial function on slab keys.  An entry knows its level and its slot,  *)
(* so the vectors of keys, wheels[level][slot], are left out here; module  *)
(* WheelVectors has them and the order in which they are walked.           *)
(*                                                                         *)
(* What makes this code hard: the slot of an entry comes from its REMAINING*)
(* DELAY (calculate_level_and_slot), while advance scans the slots of the  *)
(* ABSOLUTE ticks that passed.                                             *)
(***************************************************************************)
EXTENDS Naturals, FiniteSets

CONSTANTS
  Levels,   \* NUM_LEVELS
  Slots,    \* SLOTS_PER_LEVEL
  Keys,     \* the keys of the slab
  Wakers    \* the tasks whose wakers are stored

ASSUME WheelAssumption ==
  /\ Levels \in Nat \ {0}
  /\ Slots \in Nat \ {0}
  /\ \A l \in 0..Levels : Slots^l \in Nat \ {0}

None == 0   \* min_expiration_tick is None; no timer expires at tick 0

Slot == 0..(Slots - 1)

TimerEntry ==
  [waker : Wakers, expiration_tick : Nat, generation : Nat, level : Nat, slot : Slot]

\* The struct TimingWheel with a slab in which these keys are occupied.
WheelWith(keys) ==
  [entries : [keys -> TimerEntry],
   current_tick : Nat, generation_counter : Nat, min_expiration_tick : Nat,
   expiration_heap : SUBSET (Nat \X Keys \X Nat)]

-----------------------------------------------------------------------------
(* The functions of impl TimingWheel.                                      *)

new == [entries |-> [k \in {} |-> k], current_tick |-> 0, generation_counter |-> 0,
        min_expiration_tick |-> None, expiration_heap |-> {}]

\* The level of a delay: how many of the levels below the top have a range too
\* small for it.  Level l - 1 holds the delays below Slots^l.
LevelOf(delay) == Cardinality({l \in 1..(Levels - 1) : delay >= Slots^l})

SlotOf(delay) == (delay \div Slots^LevelOf(delay)) % Slots

\* calculate_level_and_slot, stored in the entry.
Place(entry, tick) ==
  LET delay == entry.expiration_tick - tick
  IN  [entry EXCEPT !.level = LevelOf(delay), !.slot = SlotOf(delay)]

\* A heap element (tick, key, generation) whose timer is still there.
IsLive(entries, h) ==
  h[2] \in DOMAIN entries /\ entries[h[2]].generation = h[3]

\* refresh_min_expiration: the heap elements before the first live one are
\* popped, and the minimum is the expiration of the entry that it names.
HasLive(entries, heap) == \E h \in heap : IsLive(entries, h)

FirstLive(entries, heap) ==
  CHOOSE h \in heap : /\ IsLive(entries, h)
                      /\ \A g \in heap : IsLive(entries, g) => h[1] <= g[1]

refresh_min_expiration(w) ==
  IF HasLive(w.entries, w.expiration_heap)
    THEN LET top == FirstLive(w.entries, w.expiration_heap)
         IN  [w EXCEPT !.min_expiration_tick = w.entries[top[2]].expiration_tick,
                       !.expiration_heap = {h \in w.expiration_heap : top[1] <= h[1]}]
    ELSE [w EXCEPT !.min_expiration_tick = None, !.expiration_heap = {}]

\* insert, in the vacant key that the slab chose.
insert(w, waker, tick, key) ==
  LET gen == w.generation_counter + 1
      entry == Place([waker |-> waker, expiration_tick |-> tick, generation |-> gen,
                      level |-> 0, slot |-> 0], w.current_tick)
      min == w.min_expiration_tick
  IN  [entries |-> [k \in DOMAIN w.entries \cup {key} |->
                      IF k = key THEN entry ELSE w.entries[k]],
       current_tick |-> w.current_tick,
       generation_counter |-> gen,
       min_expiration_tick |-> IF min = None \/ tick < min THEN tick ELSE min,
       expiration_heap |-> w.expiration_heap \cup {<<tick, key, gen>>}]

\* Mutant: the handle's generation is not compared with the entry's.
remove_AnyGeneration(w, handle) ==
  IF handle.slab_index \in DOMAIN w.entries
    THEN refresh_min_expiration(
           [w EXCEPT !.entries = [k \in DOMAIN w.entries \ {handle.slab_index} |-> w.entries[k]]])
    ELSE w

\* Mutant: the cached minimum is not refreshed.
remove_NoRefresh(w, handle) ==
  IF IsLive(w.entries, <<0, handle.slab_index, handle.generation>>)
    THEN [w EXCEPT !.entries = [k \in DOMAIN w.entries \ {handle.slab_index} |-> w.entries[k]]]
    ELSE w

\* remove: only the timer that the handle was made for.
remove(w, handle) ==
  IF IsLive(w.entries, <<0, handle.slab_index, handle.generation>>)
    THEN refresh_min_expiration(
           [w EXCEPT !.entries = [k \in DOMAIN w.entries \ {handle.slab_index} |-> w.entries[k]]])
    ELSE w

\* The level 0 slots that advance walks: those of the ticks start..start+ticks.
ScannedSlots(start, ticks) ==
  LET s == start % Slots
      e == (start + ticks) % Slots
  IN  IF ticks >= Slots THEN Slot
      ELSE {i \in Slot : IF s <= e THEN s <= i /\ i <= e ELSE s <= i \/ i <= e}

\* advance looks at every entry of the higher levels (cascade_all_levels) and
\* at those of the scanned slots (process_slot_at_level_0).
Visited(w, ticks) ==
  {k \in DOMAIN w.entries : \/ w.entries[k].level # 0
                            \/ w.entries[k].slot \in ScannedSlots(w.current_tick, ticks)}

\* The entries whose wakers advance returns.
Due(w, ticks) ==
  {k \in Visited(w, ticks) : w.entries[k].expiration_tick <= w.current_tick + ticks}

\* advance.  An entry that is visited and not due goes where its remaining
\* delay puts it; meeting it there again in the same call changes nothing.
advance(w, ticks) ==
  LET now == w.current_tick + ticks
  IN  IF ticks = 0 THEN w
      ELSE refresh_min_expiration(
             [w EXCEPT !.current_tick = now,
                       !.entries = [k \in DOMAIN w.entries \ Due(w, ticks) |->
                                      IF k \in Visited(w, ticks)
                                        THEN Place(w.entries[k], now)
                                        ELSE w.entries[k]]])
=============================================================================
