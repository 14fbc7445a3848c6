---------------------------- MODULE TimerProofs ----------------------------
(***************************************************************************)
(* Proof that no pending Sleep is forgotten, for every wheel, every set of *)
(* sleeps and durations and every course of the clock.                     *)
(***************************************************************************)
EXTENDS Timer, TLAPS

-----------------------------------------------------------------------------
(* What the functions of the wheel keep of its entries.                    *)

WheelFields == {"entries", "current_tick", "generation_counter", "min_expiration_tick",
                "expiration_heap"}

EntryFields == {"waker", "expiration_tick", "generation", "level", "slot"}

(* The entries of w have all fields and a generation that was given out.   *)
Sound(w) ==
  /\ DOMAIN w = WheelFields
  /\ w.generation_counter \in Nat
  /\ \A k \in DOMAIN w.entries :
       /\ DOMAIN w.entries[k] = EntryFields
       /\ w.entries[k].generation \in 1..w.generation_counter

LEMMA RefreshEntries ==
  ASSUME NEW w, DOMAIN w = WheelFields
  PROVE  LET r == refresh_min_expiration(w)
         IN  /\ DOMAIN r = WheelFields
             /\ r.entries = w.entries
             /\ r.generation_counter = w.generation_counter
BY DEF refresh_min_expiration, WheelFields

LEMMA PlaceEntry ==
  ASSUME NEW e, NEW tick, DOMAIN e = EntryFields
  PROVE  /\ DOMAIN Place(e, tick) = EntryFields
         /\ Place(e, tick).waker = e.waker
         /\ Place(e, tick).generation = e.generation
BY DEF Place, EntryFields

(* r is w without the entry that h names.                                  *)
Removed(w, h, r) ==
  /\ \A k : k \in DOMAIN r.entries <=>
       /\ k \in DOMAIN w.entries
       /\ ~(k = h.slab_index /\ w.entries[k].generation = h.generation)
  /\ \A k \in DOMAIN r.entries : r.entries[k] = w.entries[k]

(* cancel removes the entry that the handle names, and no other.           *)
LEMMA CancelEntries ==
  ASSUME NEW w, Sound(w), NEW h
  PROVE  LET r == cancel(w, h)
         IN  /\ Sound(r)
             /\ r.generation_counter = w.generation_counter
             /\ Removed(w, h, r)
<1> DEFINE r == cancel(w, h)
           v == [w EXCEPT !.entries = [k \in DOMAIN w.entries \ {h.slab_index} |-> w.entries[k]]]
<1>1. CASE h = NoHandle
  <2>1. r = w /\ h.generation = 0
    BY <1>1 DEF cancel, NoHandle
  <2>2. \A k \in DOMAIN w.entries : w.entries[k].generation # 0
    BY DEF Sound
  <2> QED
    BY <2>1, <2>2 DEF Removed
<1>2. CASE h # NoHandle /\ ~IsLive(w.entries, <<0, h.slab_index, h.generation>>)
  BY <1>2 DEF cancel, remove, IsLive, Removed
<1>3. CASE h # NoHandle /\ IsLive(w.entries, <<0, h.slab_index, h.generation>>)
  <2>1. /\ h.slab_index \in DOMAIN w.entries
        /\ w.entries[h.slab_index].generation = h.generation
        /\ r = refresh_min_expiration(v)
    BY <1>3 DEF cancel, remove, IsLive
  <2>2. /\ DOMAIN v = WheelFields
        /\ v.entries = [k \in DOMAIN w.entries \ {h.slab_index} |-> w.entries[k]]
        /\ v.generation_counter = w.generation_counter
    BY DEF Sound, WheelFields
  <2> HIDE DEF v
  <2>3. /\ DOMAIN r = WheelFields /\ r.entries = v.entries
        /\ r.generation_counter = w.generation_counter
    BY <2>1, <2>2, RefreshEntries
  <2> HIDE DEF r
  <2>4. Sound(r)
    BY <2>2, <2>3 DEF Sound
  <2> QED
    BY <2>1, <2>2, <2>3, <2>4 DEF r, Removed
<1> QED
  BY <1>1, <1>2, <1>3

(* insert gives the entry the waker and a new generation.                  *)
LEMMA InsertEntries ==
  ASSUME NEW w, Sound(w), NEW waker, NEW tick, NEW key, key \notin DOMAIN w.entries
  PROVE  LET r == insert(w, waker, tick, key)
         IN  /\ Sound(r)
             /\ r.generation_counter = w.generation_counter + 1
             /\ DOMAIN r.entries = DOMAIN w.entries \cup {key}
             /\ r.entries[key].waker = waker
             /\ r.entries[key].generation = w.generation_counter + 1
             /\ \A k \in DOMAIN w.entries : r.entries[k] = w.entries[k]
<1> DEFINE r == insert(w, waker, tick, key)
           raw == [waker |-> waker, expiration_tick |-> tick,
                   generation |-> w.generation_counter + 1, level |-> 0, slot |-> 0]
           e == Place(raw, w.current_tick)
<1>1. DOMAIN raw = EntryFields /\ raw.waker = waker /\ raw.generation = w.generation_counter + 1
  BY DEF EntryFields
<1> HIDE DEF raw
<1>2. /\ DOMAIN e = EntryFields /\ e.waker = waker /\ e.generation = w.generation_counter + 1
  BY <1>1, PlaceEntry
<1>3. /\ DOMAIN r = WheelFields
      /\ r.entries = [k \in DOMAIN w.entries \cup {key} |-> IF k = key THEN e ELSE w.entries[k]]
      /\ r.generation_counter = w.generation_counter + 1
  BY DEF insert, WheelFields, raw
<1> HIDE DEF r, e
<1>4. Sound(r)
  BY <1>2, <1>3 DEF Sound
<1> QED
  BY <1>2, <1>3, <1>4 DEF r

(* advance removes the entries that are due, and keeps whose the others    *)
(* are.                                                                    *)
LEMMA AdvanceEntries ==
  ASSUME NEW w, Sound(w), NEW ticks, ticks # 0
  PROVE  LET r == advance(w, ticks)
         IN  /\ Sound(r)
             /\ r.generation_counter = w.generation_counter
             /\ DOMAIN r.entries = DOMAIN w.entries \ Due(w, ticks)
             /\ \A k \in DOMAIN r.entries :
                  /\ r.entries[k].waker = w.entries[k].waker
                  /\ r.entries[k].generation = w.entries[k].generation
<1> DEFINE now == w.current_tick + ticks
           r == advance(w, ticks)
           v == [w EXCEPT !.current_tick = now,
                          !.entries = [k \in DOMAIN w.entries \ Due(w, ticks) |->
                                         IF k \in Visited(w, ticks)
                                           THEN Place(w.entries[k], now) ELSE w.entries[k]]]
<1>1. r = refresh_min_expiration(v)
  BY DEF advance
<1>2. /\ DOMAIN v = WheelFields
      /\ v.entries = [k \in DOMAIN w.entries \ Due(w, ticks) |->
                        IF k \in Visited(w, ticks) THEN Place(w.entries[k], now) ELSE w.entries[k]]
      /\ v.generation_counter = w.generation_counter
  BY DEF Sound, WheelFields
<1> HIDE DEF v, now
<1>3. /\ DOMAIN r = WheelFields /\ r.entries = v.entries
      /\ r.generation_counter = w.generation_counter
  BY <1>1, <1>2, RefreshEntries
<1>4. ASSUME NEW k \in DOMAIN w.entries \ Due(w, ticks)
      PROVE  /\ DOMAIN v.entries[k] = EntryFields
             /\ v.entries[k].waker = w.entries[k].waker
             /\ v.entries[k].generation = w.entries[k].generation
  <2>1. DOMAIN w.entries[k] = EntryFields
    BY DEF Sound
  <2>2. v.entries[k] = Place(w.entries[k], now) \/ v.entries[k] = w.entries[k]
    BY <1>2
  <2> QED
    BY <2>1, <2>2, PlaceEntry
<1> HIDE DEF r
<1>5. Sound(r)
  BY Zenon, <1>2, <1>3, <1>4 DEF Sound
<1> QED
  BY <1>2, <1>3, <1>4, <1>5 DEF r

-----------------------------------------------------------------------------
(* The invariant, sleep by sleep.                                          *)

SleepFields == {"alive", "deadline", "handle", "fired", "yield_scheduled", "zero_behavior"}

\* The handle h names an entry of w.
Names(w, h) == h.slab_index \in DOMAIN w.entries /\ w.entries[h.slab_index].generation = h.generation

(* The handle of a sleep is one that the wheel gave out; the timer that it *)
(* names, if any, is the sleep's own; a sleep that has fired is not        *)
(* pending; and one that is pending was woken or has its timer.            *)
SleepOK(s) ==
  /\ DOMAIN sleep[s] = SleepFields
  /\ sleep[s].handle.generation \in 0..wheel.generation_counter
  /\ Names(wheel, sleep[s].handle) => wheel.entries[sleep[s].handle.slab_index].waker = s
  /\ sleep[s].fired => ~polled[s]
  /\ polled[s] => woken[s] \/ Names(wheel, sleep[s].handle)

TimerInv ==
  /\ Sound(wheel)
  /\ DOMAIN sleep = Wakers /\ DOMAIN woken = Wakers /\ DOMAIN polled = Wakers
  /\ \A s \in Wakers : SleepOK(s)

LEMMA RegisteredIs == \A s : Registered(s) <=> Names(wheel, sleep[s].handle)
BY DEF Registered, IsLive, Names

(* What a sleep has before its first submit names no timer.                *)
LEMMA NoHandleNamesNothing ==
  ASSUME NEW w, Sound(w)
  PROVE  ~Names(w, NoHandle) /\ NoHandle.generation = 0
BY DEF Sound, Names, NoHandle

(* Cancelling the timer of s leaves those of the others alone.             *)
LEMMA CancelSparesOthers ==
  ASSUME TimerInv, NEW s \in Wakers, NEW u \in Wakers, u # s
  PROVE  LET r == cancel(wheel, sleep[s].handle)
             h == sleep[u].handle
         IN  /\ Names(r, h) <=> Names(wheel, h)
             /\ Names(wheel, h) => r.entries[h.slab_index] = wheel.entries[h.slab_index]
<1> DEFINE g == sleep[s].handle
           h == sleep[u].handle
           r == cancel(wheel, g)
<1>1. Removed(wheel, g, r)
  <2>1. Sound(wheel)
    BY DEF TimerInv
  <2> HIDE DEF g
  <2> QED
    BY <2>1, CancelEntries, Zenon
<1>2. /\ Names(wheel, h) => wheel.entries[h.slab_index].waker = u
      /\ Names(wheel, g) => wheel.entries[g.slab_index].waker = s
  BY DEF TimerInv, SleepOK
<1> HIDE DEF r, h, g
<1>3. Names(wheel, h) => h.slab_index \in DOMAIN r.entries
  BY <1>1, <1>2 DEF Names, Removed
<1>4. Names(r, h) => Names(wheel, h)
  BY <1>1 DEF Names, Removed
<1>5. Names(wheel, h) => Names(r, h) /\ r.entries[h.slab_index] = wheel.entries[h.slab_index]
  BY <1>1, <1>3 DEF Names, Removed
<1> QED
  BY <1>4, <1>5 DEF r, h, g

(* A step of the sleep s keeps the invariant when it keeps it for s and    *)
(* does nothing to the others but give out generations.                    *)
LEMMA OneSleepSteps ==
  ASSUME TimerInv, NEW s \in Wakers, Sound(wheel'),
         wheel'.generation_counter >= wheel.generation_counter,
         DOMAIN sleep' = Wakers, DOMAIN woken' = Wakers, DOMAIN polled' = Wakers,
         SleepOK(s)',
         \A u \in Wakers : u # s =>
           /\ sleep'[u] = sleep[u]
           /\ woken'[u] = woken[u]
           /\ polled'[u] = polled[u]
           /\ Names(wheel', sleep[u].handle) <=> Names(wheel, sleep[u].handle)
           /\ Names(wheel, sleep[u].handle) =>
                wheel'.entries[sleep[u].handle.slab_index].waker
                  = wheel.entries[sleep[u].handle.slab_index].waker
  PROVE  TimerInv'
<1>1. ASSUME NEW u \in Wakers, u # s PROVE SleepOK(u)'
  <2>1. sleep[u].handle.generation \in 0..wheel'.generation_counter
    <3>1. /\ sleep[u].handle.generation \in 0..wheel.generation_counter
          /\ wheel.generation_counter \in Nat /\ wheel'.generation_counter \in Nat
      BY DEF TimerInv, SleepOK, Sound
    <3> QED
      BY <3>1
  <2>2. SleepOK(u)
    BY DEF TimerInv
  <2> QED
    BY <1>1, <2>1, <2>2 DEF SleepOK
<1> QED
  BY <1>1 DEF TimerInv

(* Timer::submit, on the wheel as it is or after a cancel of the timer of  *)
(* s: the sleep is woken at once, or has its timer.                        *)
LEMMA SubmitKeeps ==
  ASSUME TimerInv, NEW s \in Wakers, NEW deadline, NEW ACTION Immediate,
         NEW h, h = sleep[s].handle, ~sleep[s].fired,
         Submit(cancel(wheel, h), s, deadline, Immediate),
         Immediate => /\ DOMAIN sleep' = Wakers /\ DOMAIN polled' = Wakers
                      /\ DOMAIN sleep'[s] = SleepFields /\ sleep'[s].handle = NoHandle
                      /\ sleep'[s].fired => ~polled'[s]
                      /\ \A u \in Wakers : u # s => sleep'[u] = sleep[u] /\ polled'[u] = polled[u]
  PROVE  TimerInv'
<1> DEFINE w == cancel(wheel, h)
<1>1. Sound(w) /\ w.generation_counter = wheel.generation_counter
  BY CancelEntries DEF TimerInv
<1>2. \A u \in Wakers : u # s =>
        /\ Names(w, sleep[u].handle) <=> Names(wheel, sleep[u].handle)
        /\ Names(wheel, sleep[u].handle) =>
             w.entries[sleep[u].handle.slab_index] = wheel.entries[sleep[u].handle.slab_index]
  BY CancelSparesOthers
<1>3. /\ wheel.generation_counter \in Nat
      /\ DOMAIN sleep = Wakers /\ DOMAIN woken = Wakers /\ DOMAIN polled = Wakers
      /\ DOMAIN sleep[s] = SleepFields
  BY DEF TimerInv, Sound, SleepOK
<1> HIDE DEF w
<1>4. CASE Millis(instant, deadline) < 1
  <2>1. wheel' = w /\ woken' = [woken EXCEPT ![s] = TRUE] /\ Immediate
    BY <1>4 DEF Submit, w
  <2>2. woken'[s] /\ DOMAIN woken' = Wakers /\ \A u \in Wakers : u # s => woken'[u] = woken[u]
    BY <1>3, <2>1
  <2>3. SleepOK(s)'
    <3>1. ~Names(wheel', NoHandle) /\ NoHandle.generation = 0
      BY <1>1, <2>1, NoHandleNamesNothing
    <3> QED
      BY <1>1, <1>3, <2>1, <2>2, <3>1 DEF SleepOK
  <2>4. Sound(wheel') /\ wheel'.generation_counter >= wheel.generation_counter
    BY <1>1, <1>3, <2>1
  <2>5. \A u \in Wakers : u # s =>
          /\ Names(wheel', sleep[u].handle) <=> Names(wheel, sleep[u].handle)
          /\ Names(wheel, sleep[u].handle) =>
               wheel'.entries[sleep[u].handle.slab_index].waker
                 = wheel.entries[sleep[u].handle.slab_index].waker
    BY <1>2, <2>1
  <2> QED
    BY Zenon, <1>3, <2>1, <2>2, <2>3, <2>4, <2>5, OneSleepSteps
<1>5. CASE ~(Millis(instant, deadline) < 1)
  <2>1. PICK key \in Keys \ DOMAIN w.entries :
          /\ wheel' = insert(w, s, w.current_tick + Millis(instant, deadline), key)
          /\ sleep' = [sleep EXCEPT ![s].handle =
                         [slab_index |-> key, generation |-> w.generation_counter + 1]]
          /\ polled' = [polled EXCEPT ![s] = TRUE]
          /\ woken' = [woken EXCEPT ![s] = FALSE]
    BY <1>5 DEF Submit, w
  <2> DEFINE new_handle == [slab_index |-> key, generation |-> w.generation_counter + 1]
  <2>2. /\ Sound(wheel')
        /\ wheel'.generation_counter = wheel.generation_counter + 1
        /\ DOMAIN wheel'.entries = DOMAIN w.entries \cup {key}
        /\ wheel'.entries[key].waker = s
        /\ wheel'.entries[key].generation = wheel.generation_counter + 1
        /\ \A k \in DOMAIN w.entries : wheel'.entries[k] = w.entries[k]
    BY <1>1, <2>1, InsertEntries
  <2>3. /\ DOMAIN sleep' = Wakers /\ DOMAIN polled' = Wakers /\ DOMAIN woken' = Wakers
        /\ \A u \in Wakers : u # s => /\ sleep'[u] = sleep[u] /\ polled'[u] = polled[u]
                                      /\ woken'[u] = woken[u]
    BY <1>3, <2>1
  <2>4. /\ DOMAIN sleep'[s] = SleepFields /\ sleep'[s].handle = new_handle
        /\ ~sleep'[s].fired
    BY <1>3, <2>1 DEF SleepFields
  <2>5. Names(wheel', new_handle)
    BY <1>1, <2>2 DEF Names
  <2>6. SleepOK(s)'
    <3>1. new_handle.generation \in 0..wheel'.generation_counter
      BY <1>1, <1>3, <2>2
    <3>2. wheel'.entries[new_handle.slab_index].waker = s
      BY <2>2
    <3> HIDE DEF new_handle
    <3> QED
      BY <2>4, <2>5, <3>1, <3>2 DEF SleepOK
  <2>7. ASSUME NEW u \in Wakers, u # s
        PROVE  /\ Names(wheel', sleep[u].handle) <=> Names(wheel, sleep[u].handle)
               /\ Names(wheel, sleep[u].handle) =>
                    wheel'.entries[sleep[u].handle.slab_index].waker
                      = wheel.entries[sleep[u].handle.slab_index].waker
    <3>1. sleep[u].handle.generation \in 0..wheel.generation_counter
      BY DEF TimerInv, SleepOK
    <3>2. sleep[u].handle.generation # wheel.generation_counter + 1
      BY <1>3, <3>1
    <3>3. Names(wheel', sleep[u].handle) <=> Names(w, sleep[u].handle)
      BY <2>1, <2>2, <3>2 DEF Names
    <3>4. Names(w, sleep[u].handle) =>
            wheel'.entries[sleep[u].handle.slab_index] = w.entries[sleep[u].handle.slab_index]
      BY <2>2 DEF Names
    <3> QED
      BY <1>2, <2>7, <3>3, <3>4
  <2>8. wheel'.generation_counter >= wheel.generation_counter
    BY <1>3, <2>2
  <2> QED
    BY <2>2, <2>3, <2>6, <2>7, <2>8, OneSleepSteps
<1> QED
  BY <1>4, <1>5

-----------------------------------------------------------------------------
(* The steps.                                                              *)

LEMMA PollKeeps ==
  ASSUME TimerInv, NEW s \in Wakers, PollFired(s) \/ PollFirst(s) \/ PollDue(s) \/ PollSpurious(s)
  PROVE  TimerInv'
<1>1. /\ DOMAIN sleep = Wakers /\ DOMAIN woken = Wakers /\ DOMAIN polled = Wakers
      /\ SleepOK(s) /\ Sound(wheel) /\ DOMAIN sleep[s] = SleepFields
      /\ wheel.generation_counter \in Nat
  BY DEF TimerInv, SleepOK, Sound
<1>2. CASE PollFired(s)
  <2>1. /\ sleep[s].fired /\ woken' = [woken EXCEPT ![s] = FALSE]
        /\ UNCHANGED <<wheel, sleep, polled>>
    BY <1>2 DEF PollFired
  <2>2. DOMAIN woken' = Wakers /\ \A u \in Wakers : u # s => woken'[u] = woken[u]
    BY <1>1, <2>1
  <2>3. SleepOK(s)'
    BY <1>1, <2>1 DEF SleepOK
  <2>4. wheel'.generation_counter >= wheel.generation_counter
    BY <1>1, <2>1
  <2> QED
    BY Zenon, <1>1, <2>1, <2>2, <2>3, <2>4, OneSleepSteps
<1>3. CASE PollFirst(s)
  <2>1. ~sleep[s].fired /\ sleep[s].handle = NoHandle
        /\ Submit(wheel, s, sleep[s].deadline, handle_immediate_wakeup(s))
    BY <1>3 DEF PollFirst
  <2>2. wheel = cancel(wheel, NoHandle)
    BY DEF cancel
  <2>3. ASSUME handle_immediate_wakeup(s)
        PROVE  /\ DOMAIN sleep' = Wakers /\ DOMAIN polled' = Wakers
               /\ DOMAIN sleep'[s] = SleepFields /\ sleep'[s].handle = NoHandle
               /\ sleep'[s].fired => ~polled'[s]
               /\ \A u \in Wakers : u # s => sleep'[u] = sleep[u] /\ polled'[u] = polled[u]
    <3> DEFINE yields == sleep[s].zero_behavior = "Yield" /\ ~sleep[s].yield_scheduled
    <3>1. /\ yields => sleep' = [sleep EXCEPT ![s].yield_scheduled = TRUE]
          /\ ~yields => sleep' = [sleep EXCEPT ![s].fired = TRUE]
          /\ polled' = [polled EXCEPT ![s] = yields]
      BY <2>3 DEF handle_immediate_wakeup
    <3> HIDE DEF yields
    <3>2. DOMAIN polled' = Wakers /\ \A u \in Wakers : u # s => polled'[u] = polled[u]
      BY <1>1, <3>1
    <3>3. polled'[s] = yields
      BY <1>1, <3>1
    <3>4. CASE yields
      BY <1>1, <2>1, <3>1, <3>2, <3>4 DEF SleepFields
    <3>5. CASE ~yields
      BY <1>1, <2>1, <3>1, <3>2, <3>3, <3>5 DEF SleepFields
    <3> QED
      BY <3>4, <3>5
  <2> QED
    BY <2>1, <2>2, <2>3, SubmitKeeps
<1>4. CASE PollDue(s)
  <2>1. /\ sleep' = [sleep EXCEPT ![s].fired = TRUE, ![s].handle = NoHandle]
        /\ woken' = [woken EXCEPT ![s] = FALSE]
        /\ polled' = [polled EXCEPT ![s] = FALSE]
        /\ UNCHANGED wheel
    BY <1>4 DEF PollDue
  <2>2. /\ DOMAIN sleep' = Wakers /\ DOMAIN woken' = Wakers /\ DOMAIN polled' = Wakers
        /\ \A u \in Wakers : u # s => /\ sleep'[u] = sleep[u] /\ woken'[u] = woken[u]
                                      /\ polled'[u] = polled[u]
    BY <1>1, <2>1
  <2>3. DOMAIN sleep'[s] = SleepFields /\ sleep'[s].handle = NoHandle /\ ~polled'[s]
    BY <1>1, <2>1 DEF SleepFields
  <2>4. SleepOK(s)'
    BY <1>1, <2>1, <2>3, NoHandleNamesNothing DEF SleepOK
  <2>5. wheel'.generation_counter >= wheel.generation_counter
    BY <1>1, <2>1
  <2> QED
    BY Zenon, <1>1, <2>1, <2>2, <2>4, <2>5, OneSleepSteps
<1>5. CASE PollSpurious(s)
  <2> DEFINE Immediate == /\ sleep' = [sleep EXCEPT ![s].handle = NoHandle, ![s].fired = TRUE]
                          /\ polled' = [polled EXCEPT ![s] = FALSE]
  <2>1. /\ ~sleep[s].fired
        /\ Submit(cancel(wheel, sleep[s].handle), s, sleep[s].deadline, Immediate)
    BY Zenon, <1>5 DEF PollSpurious
  <2>2. ASSUME Immediate
        PROVE  /\ DOMAIN sleep' = Wakers /\ DOMAIN polled' = Wakers
               /\ DOMAIN sleep'[s] = SleepFields /\ sleep'[s].handle = NoHandle
               /\ sleep'[s].fired => ~polled'[s]
               /\ \A u \in Wakers : u # s => sleep'[u] = sleep[u] /\ polled'[u] = polled[u]
    BY <1>1, <2>2 DEF SleepFields
  <2> HIDE DEF Immediate
  <2> QED
    BY <2>1, <2>2, SubmitKeeps
<1> QED
  BY <1>2, <1>3, <1>4, <1>5

(* Steps that leave the sleep without a timer and not pending.             *)
LEMMA EndKeeps ==
  ASSUME TimerInv, NEW s \in Wakers,
         \/ \E d \in Durations, z \in Zero : New(s, d, z)
         \/ \E d \in Durations, inRuntime \in InRuntime : Reset(s, d, inRuntime)
         \/ Drop(s)
  PROVE  TimerInv'
<1>1. /\ DOMAIN sleep = Wakers /\ DOMAIN woken = Wakers /\ DOMAIN polled = Wakers
      /\ Sound(wheel) /\ DOMAIN sleep[s] = SleepFields /\ wheel.generation_counter \in Nat
  BY DEF TimerInv, SleepOK, Sound
<1>2. /\ polled' = [polled EXCEPT ![s] = FALSE] /\ woken' = woken
      /\ wheel' = wheel \/ wheel' = cancel(wheel, sleep[s].handle)
  BY Zenon DEF New, Reset, Drop
<1>3. /\ DOMAIN sleep' = Wakers /\ \A u \in Wakers : u # s => sleep'[u] = sleep[u]
      /\ DOMAIN sleep'[s] = SleepFields /\ sleep'[s].handle = NoHandle
  <2>1. CASE \E d \in Durations, z \in Zero : New(s, d, z)
    <3>1. PICK d \in Durations, z \in Zero : New(s, d, z)
      BY SMTT(60), <2>1
    <3> DEFINE n == [NoSleep EXCEPT !.alive = TRUE, !.deadline = clock + d, !.zero_behavior = z]
    <3>2. sleep' = [sleep EXCEPT ![s] = n]
      BY Zenon, <3>1 DEF New
    <3>3. DOMAIN n = SleepFields /\ n.handle = NoHandle
      BY DEF NoSleep, SleepFields
    <3> HIDE DEF n
    <3> QED
      BY <1>1, <3>2, <3>3
  <2>2. CASE \E d \in Durations, inRuntime \in InRuntime : Reset(s, d, inRuntime)
    <3>1. PICK d \in Durations : sleep' = [sleep EXCEPT ![s].deadline = clock + d,
                                                        ![s].fired = FALSE,
                                                        ![s].yield_scheduled = FALSE,
                                                        ![s].handle = NoHandle]
      BY Zenon, <2>2 DEF Reset
    <3>2. \A u \in Wakers : u # s => sleep'[u] = sleep[u]
      BY <1>1, <3>1
    <3>3. DOMAIN sleep'[s] = SleepFields
      BY <1>1, <3>1
    <3>4. sleep'[s].handle = NoHandle
      BY <1>1, <3>1 DEF SleepFields
    <3> QED
      BY SMTT(60), <1>1, <3>1, <3>2, <3>3, <3>4
  <2>3. CASE Drop(s)
    BY <1>1, <2>3 DEF Drop, NoSleep, SleepFields
  <2> QED
    BY <2>1, <2>2, <2>3
<1>4. /\ DOMAIN polled' = Wakers /\ ~polled'[s]
      /\ \A u \in Wakers : u # s => polled'[u] = polled[u]
  BY <1>1, <1>2
<1>5. Sound(wheel') /\ wheel'.generation_counter = wheel.generation_counter
  <2> DEFINE h == sleep[s].handle
             r == cancel(wheel, h)
  <2> HIDE DEF h
  <2>1. Sound(r) /\ r.generation_counter = wheel.generation_counter
    BY <1>1, CancelEntries, Zenon
  <2> HIDE DEF r
  <2> QED
    BY <1>1, <1>2, <2>1 DEF r, h
<1>6. \A u \in Wakers : u # s =>
        /\ Names(wheel', sleep[u].handle) <=> Names(wheel, sleep[u].handle)
        /\ Names(wheel, sleep[u].handle) =>
             wheel'.entries[sleep[u].handle.slab_index].waker
               = wheel.entries[sleep[u].handle.slab_index].waker
  BY <1>2, CancelSparesOthers
<1>7. SleepOK(s)'
  BY <1>1, <1>3, <1>4, <1>5, NoHandleNamesNothing DEF SleepOK
<1>8. wheel'.generation_counter >= wheel.generation_counter
  BY <1>1, <1>5
<1> QED
  BY Zenon, <1>1, <1>2, <1>3, <1>4, <1>5, <1>6, <1>7, <1>8, OneSleepSteps

(* A spin wakes the task of every timer that it takes out.                 *)
LEMMA SpinKeeps ==
  ASSUME TimerInv, Spin, UNCHANGED <<sleep, polled>>
  PROVE  TimerInv'
<1>1. CASE wheel' = wheel /\ DOMAIN woken' = Wakers /\ \A s \in Wakers : woken[s] => woken'[s]
  BY <1>1 DEF TimerInv, SleepOK
<1>2. CASE DOMAIN wheel.entries = {}
  BY <1>1, <1>2 DEF Spin, TimerInv
<1>3. CASE DOMAIN wheel.entries # {} /\ Elapsed = 0
  BY Zenon, <1>1, <1>3 DEF Spin, advance
<1>4. CASE DOMAIN wheel.entries # {} /\ Elapsed # 0
  <2> DEFINE D == Due(wheel, Elapsed)
  <2>1. /\ wheel' = advance(wheel, Elapsed)
        /\ DOMAIN woken' = Wakers
        /\ \A s \in Wakers : woken[s] => woken'[s]
        /\ \A k \in D : wheel.entries[k].waker \in Wakers => woken'[wheel.entries[k].waker]
    <3>1. /\ wheel' = advance(wheel, Elapsed)
          /\ woken' = [s \in Wakers |-> woken[s] \/ s \in SpinWakes]
      BY <1>4 DEF Spin
    <3>2. \A k \in D : wheel.entries[k].waker \in SpinWakes
      BY <1>4 DEF SpinWakes
    <3> HIDE DEF D
    <3> QED
      BY Zenon, <3>1, <3>2
  <2>2. /\ Sound(wheel')
        /\ wheel'.generation_counter = wheel.generation_counter
        /\ DOMAIN wheel'.entries = DOMAIN wheel.entries \ D
        /\ \A k \in DOMAIN wheel'.entries :
             /\ wheel'.entries[k].waker = wheel.entries[k].waker
             /\ wheel'.entries[k].generation = wheel.entries[k].generation
    BY <1>4, <2>1, AdvanceEntries DEF TimerInv
  <2> HIDE DEF D
  <2>3. ASSUME NEW s \in Wakers PROVE SleepOK(s)'
    <3> DEFINE h == sleep[s].handle
    <3>1. SleepOK(s)
      BY DEF TimerInv
    <3>2. Names(wheel', h) => Names(wheel, h) /\ wheel'.entries[h.slab_index].waker = s
      BY <2>2, <3>1 DEF Names, SleepOK
    <3>3. Names(wheel, h) => Names(wheel', h) \/ woken'[s]
      <4>1. CASE Names(wheel, h) /\ h.slab_index \in D
        BY <2>1, <3>1, <4>1 DEF SleepOK
      <4>2. CASE Names(wheel, h) /\ h.slab_index \notin D
        BY <2>2, <4>2 DEF Names
      <4> QED
        BY <4>1, <4>2
    <3> QED
      BY <2>1, <2>2, <3>1, <3>2, <3>3 DEF SleepOK
  <2> QED
    BY <2>1, <2>2, <2>3 DEF TimerInv
<1> QED
  BY <1>2, <1>3, <1>4

(* A sleep whose poll returned Pending has been woken or has its own timer *)
(* in the wheel, in a wheel of any size and with any number of sleeps.     *)
THEOREM SleepsAreRemembered == Spec => []NoSleepForgotten
<1>1. Init => TimerInv
  <2> SUFFICES ASSUME Init PROVE TimerInv
    OBVIOUS
  <2>1. Sound(wheel) /\ wheel.generation_counter = 0
    BY DEF Init, new, Sound, WheelFields
  <2>2. ASSUME NEW s \in Wakers PROVE SleepOK(s)
    <3>1. sleep[s] = NoSleep /\ ~polled[s]
      BY DEF Init
    <3> QED
      BY <2>1, <3>1, NoHandleNamesNothing DEF SleepOK, NoSleep, SleepFields
  <2> QED
    BY <2>1, <2>2 DEF TimerInv, Init
<1>2. TimerInv /\ [Next]_vars => TimerInv'
  <2> SUFFICES ASSUME TimerInv, [Next]_vars PROVE TimerInv'
    OBVIOUS
  <2>1. CASE SpinTop \/ SpinAndWait
    BY <2>1, SpinKeeps DEF SpinTop, SpinAndWait
  <2>2. CASE WaitEnds \/ (\E d \in ClockSteps : Elapse(d)) \/ UNCHANGED vars
    BY <2>2 DEF WaitEnds, Elapse, vars, TimerInv, SleepOK
  <2> QED
    BY <2>1, <2>2, PollKeeps, EndKeeps DEF Next
<1>3. TimerInv => NoSleepForgotten
  BY RegisteredIs DEF TimerInv, SleepOK, NoSleepForgotten
<1> QED
  BY <1>1, <1>2, <1>3, PTL DEF Spec
=============================================================================
