---------------------------- MODULE TimingWheel ----------------------------
(***************************************************************************)
(* The timing wheel of timer.rs as a state machine: every step is a call   *)
(* of insert, remove or advance, in any order.                             *)
(***************************************************************************)
EXTENDS WheelFunctions

CONSTANTS
  Delays,   \* the delays of the timers inserted
  Steps,    \* the arguments of advance
  MaxTick,  \* bound on current_tick
  MaxGen    \* bound on generation_counter

ASSUME CallsAssumption ==
  /\ Delays \subseteq Nat \ {0}
  /\ Steps \subseteq Nat
  /\ MaxTick \in Nat
  /\ MaxGen \in Nat

VARIABLES
  wheel,    \* the TimingWheel
  handles,  \* the handles given out and not used up by remove
  expired,  \* history: the entries whose wakers this call of advance returned
  removed   \* history: the generation of the handle this call of remove got, or 0

vars == <<wheel, handles, expired, removed>>

-----------------------------------------------------------------------------
(* Calls, in any order.                                                    *)

Init ==
  /\ wheel = new
  /\ handles = {}
  /\ expired = {}
  /\ removed = 0

Insert(waker, delay, key) ==
  /\ wheel.generation_counter < MaxGen
  /\ key \notin DOMAIN wheel.entries
  /\ wheel' = insert(wheel, waker, wheel.current_tick + delay, key)
  /\ handles' = handles \cup {[slab_index |-> key,
                               generation |-> wheel.generation_counter + 1]}
  /\ expired' = {}
  /\ removed' = 0

Remove(handle) ==
  /\ wheel' = remove(wheel, handle)
  /\ handles' = handles \ {handle}
  /\ expired' = {}
  /\ removed' = handle.generation

Advance(ticks) ==
  /\ wheel.current_tick + ticks <= MaxTick
  /\ wheel' = advance(wheel, ticks)
  /\ expired' = IF ticks = 0 THEN {} ELSE {wheel.entries[k] : k \in Due(wheel, ticks)}
  /\ removed' = 0
  /\ UNCHANGED handles

Next ==
  \/ \E waker \in Wakers, delay \in Delays, key \in Keys : Insert(waker, delay, key)
  \/ \E handle \in handles : Remove(handle)
  \/ \E ticks \in Steps : Advance(ticks)

Spec == Init /\ [][Next]_vars

-----------------------------------------------------------------------------
(* Properties.                                                             *)

TypeOK ==
  /\ \E keys \in SUBSET Keys : wheel \in WheelWith(keys)
  /\ handles \subseteq [slab_index : Keys, generation : Nat]
  /\ expired \subseteq TimerEntry
  /\ removed \in Nat

(* A timer is at most SLOTS_PER_LEVEL - 1 ticks late: advance may pass the *)
(* expiration of an entry without returning it, and this is how far.       *)
LateByLessThanOneTurn ==
  \A k \in DOMAIN wheel.entries :
    wheel.current_tick < wheel.entries[k].expiration_tick + Slots

(* Why that is so: entries above level 0 are never overdue after advance,  *)
(* and no tick from the expiration of a level 0 entry up to now has the    *)
(* number of its slot, or the entry would have been taken at that tick.    *)
OverdueOnlyOffSlot ==
  \A k \in DOMAIN wheel.entries :
    LET e == wheel.entries[k]
    IN  /\ e.level # 0 => wheel.current_tick < e.expiration_tick
        /\ \A t \in e.expiration_tick..wheel.current_tick : t % Slots # e.slot

(* The wheel never fires early: a waker that advance returned belongs to a *)
(* timer whose tick has come.                                              *)
NeverEarly == \A e \in expired : e.expiration_tick <= wheel.current_tick

\* The minimum of w is the least expiration of its entries.
MinIsLeast(w) ==
  IF DOMAIN w.entries = {}
    THEN w.min_expiration_tick = None
    ELSE /\ \E k \in DOMAIN w.entries : w.entries[k].expiration_tick = w.min_expiration_tick
         /\ \A k \in DOMAIN w.entries : w.min_expiration_tick <= w.entries[k].expiration_tick

(* nearest_wakeup, which sets how long the driver may sleep, is exact: it  *)
(* is None when there is no timer, else the least expiration of all, in    *)
(* spite of cancelled and fired timers that are still in the heap.         *)
NearestIsLeast == MinIsLeast(wheel)

\* The heap of w names every timer with its expiration, and its stale elements
\* can never be taken for a timer that is inserted later under the same key.
HeapNamesLive(w) ==
  /\ \A k \in DOMAIN w.entries :
       LET e == w.entries[k]
       IN  /\ e.generation <= w.generation_counter
           /\ e.expiration_tick # None
           /\ <<e.expiration_tick, k, e.generation>> \in w.expiration_heap
  /\ \A h \in w.expiration_heap :
       /\ h[3] <= w.generation_counter
       /\ IsLive(w.entries, h) => w.entries[h[2]].expiration_tick = h[1]

(* Why nearest_wakeup is exact: refresh_min_expiration may trust the first *)
(* heap element whose key and generation are those of an entry.            *)
HeapIsTrusted == HeapNamesLive(wheel)

-----------------------------------------------------------------------------
(* What the wheel promises to its user: see TimerQueue.                    *)

\* The expiration of the timers of w, by the number of their insertion.
Live(w) ==
  [g \in {w.entries[k].generation : k \in DOMAIN w.entries} |->
     (CHOOSE e \in {w.entries[k] : k \in DOMAIN w.entries} : e.generation = g).expiration_tick]

Queue == INSTANCE TimerQueue WITH
  now     <- wheel.current_tick,
  last    <- wheel.generation_counter,
  nearest <- wheel.min_expiration_tick,
  fired   <- {e.generation : e \in expired},
  cancelled <- removed,
  live    <- Live(wheel),
  MaxLate <- Slots - 1

(* The wheel implements TimerQueue: a timer fires once, not before its     *)
(* tick and less than a turn after it, unless it is cancelled; cancelling  *)
(* with a stale handle, whose key serves another timer, does nothing.      *)
ImplementsTimerQueue == Queue!Spec
=============================================================================
