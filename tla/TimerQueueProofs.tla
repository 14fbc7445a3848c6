-------------------------- MODULE TimerQueueProofs --------------------------
(***************************************************************************)
(* Proof that the timing wheel implements TimerQueue: for every number of  *)
(* levels, slots, keys and timers, every delay and every step of time.     *)
(***************************************************************************)
EXTENDS TimingWheelProofs

\* No two timers of w have the same generation.
Distinct(w) ==
  \A j, k \in DOMAIN w.entries : w.entries[j].generation = w.entries[k].generation => j = k

(* A handle names one timer: the entry with its generation, if there still *)
(* is one, is under its key.                                               *)
HandlesOwn ==
  \A h \in handles :
    /\ h.generation \in 1..wheel.generation_counter
    /\ \A k \in DOMAIN wheel.entries :
         wheel.entries[k].generation = h.generation => k = h.slab_index

QueueInv == WheelInv /\ Distinct(wheel) /\ HandlesOwn

-----------------------------------------------------------------------------
(* The refinement mapping.                                                 *)

(* The queue has the timers of the wheel, with their expiration.           *)
LEMMA LiveIs ==
  ASSUME NEW w, Distinct(w)
  PROVE  /\ DOMAIN Live(w) = {w.entries[k].generation : k \in DOMAIN w.entries}
         /\ \A k \in DOMAIN w.entries :
              Live(w)[w.entries[k].generation] = w.entries[k].expiration_tick
<1>1. DOMAIN Live(w) = {w.entries[k].generation : k \in DOMAIN w.entries}
  BY DEF Live
<1>2. ASSUME NEW k \in DOMAIN w.entries
      PROVE  Live(w)[w.entries[k].generation] = w.entries[k].expiration_tick
  <2> DEFINE g == w.entries[k].generation
             E == {w.entries[j] : j \in DOMAIN w.entries}
             c == CHOOSE e \in E : e.generation = g
  <2>1. Live(w)[g] = c.expiration_tick
    BY Zenon DEF Live
  <2>2. w.entries[k] \in E
    OBVIOUS
  <2>3. c \in E /\ c.generation = g
    <3> HIDE DEF E, g
    <3>1. \E e \in E : e.generation = g
      BY <2>2 DEF g
    <3> QED
      BY <3>1
  <2> HIDE DEF c
  <2>4. PICK j \in DOMAIN w.entries : c = w.entries[j]
    BY <2>3
  <2>5. j = k
    BY <2>3, <2>4 DEF Distinct
  <2> QED
    BY <2>1, <2>4, <2>5
<1> QED
  BY <1>1, <1>2

(* The cached minimum is the queue's nearest timer.                        *)
LEMMA NearestIs ==
  ASSUME NEW w \in Wheel, Distinct(w), MinIsLeast(w)
  PROVE  w.min_expiration_tick = Queue!NearestOf(Live(w))
<1> DEFINE L == Live(w)
           T == {L[g] : g \in DOMAIN L}
           m == w.min_expiration_tick
<1>1. /\ DOMAIN L = {w.entries[k].generation : k \in DOMAIN w.entries}
      /\ \A k \in DOMAIN w.entries : L[w.entries[k].generation] = w.entries[k].expiration_tick
  BY LiveIs
<1>2. \A k \in DOMAIN w.entries : w.entries[k].expiration_tick \in Nat
  BY Zenon, EntriesType DEF TimerEntry
<1>3. CASE DOMAIN w.entries = {}
  BY <1>1, <1>3 DEF MinIsLeast, None, Queue!NearestOf
<1>4. CASE DOMAIN w.entries # {}
  <2> HIDE DEF L
  <2>1. m \in T /\ \A g \in DOMAIN L : m <= L[g]
    BY <1>1, <1>4 DEF MinIsLeast
  <2>2. T \subseteq Nat
    BY <1>1, <1>2
  <2>3. \A t \in T : (\A g \in DOMAIN L : t <= L[g]) => t = m
    BY <2>1, <2>2
  <2>4. Queue!NearestOf(L) = CHOOSE t \in T : \A g \in DOMAIN L : t <= L[g]
    BY Zenon, <1>1, <1>4 DEF Queue!NearestOf
  <2> HIDE DEF T, m
  <2>5. (CHOOSE t \in T : \A g \in DOMAIN L : t <= L[g]) = m
    BY <2>1, <2>3
  <2> QED
    BY <2>4, <2>5 DEF L, m
<1> QED
  BY <1>3, <1>4

(* When entries go and the others keep generation and expiration, the      *)
(* queue loses the timers of the entries that went.                        *)
LEMMA LiveLoses ==
  ASSUME NEW w, NEW v, Distinct(w), DOMAIN v.entries \subseteq DOMAIN w.entries,
         \A k \in DOMAIN v.entries :
           /\ v.entries[k].expiration_tick = w.entries[k].expiration_tick
           /\ v.entries[k].generation = w.entries[k].generation
  PROVE  /\ Distinct(v)
         /\ Live(v) = Queue!Without(Live(w), {w.entries[k].generation :
                                                k \in DOMAIN w.entries \ DOMAIN v.entries})
<1> DEFINE gone == {w.entries[k].generation : k \in DOMAIN w.entries \ DOMAIN v.entries}
           W == Queue!Without(Live(w), gone)
<1>1. Distinct(v)
  BY DEF Distinct
<1>2. /\ DOMAIN Live(w) = {w.entries[k].generation : k \in DOMAIN w.entries}
      /\ \A k \in DOMAIN w.entries :
           Live(w)[w.entries[k].generation] = w.entries[k].expiration_tick
  BY Zenon, LiveIs
<1>3. /\ DOMAIN Live(v) = {v.entries[k].generation : k \in DOMAIN v.entries}
      /\ \A k \in DOMAIN v.entries :
           Live(v)[v.entries[k].generation] = v.entries[k].expiration_tick
  BY Zenon, <1>1, LiveIs
<1>4. DOMAIN W = DOMAIN Live(w) \ gone /\ \A g \in DOMAIN W : W[g] = Live(w)[g]
  BY DEF Queue!Without
<1>5. DOMAIN Live(v) = DOMAIN Live(w) \ gone
  BY <1>2, <1>3 DEF Distinct
<1>6. ASSUME NEW g \in DOMAIN Live(v)
      PROVE  Live(v)[g] = W[g]
  <2>1. PICK k \in DOMAIN v.entries : g = v.entries[k].generation
    BY <1>3
  <2>2. W[g] = Live(w)[g]
    BY <1>4, <1>5
  <2> QED
    BY <1>2, <1>3, <2>1, <2>2
<1>7. Live(v) = [g \in DOMAIN Live(v) |-> Live(v)[g]]
  BY DEF Live
<1>8. W = [g \in DOMAIN W |-> W[g]]
  BY DEF Queue!Without
<1> HIDE DEF W
<1>9. Live(v) = W
  BY <1>4, <1>5, <1>6, <1>7, <1>8
<1> QED
  BY <1>1, <1>9 DEF W

-----------------------------------------------------------------------------
(* Every step of the wheel is a step of the queue.                         *)

LEMMA QueueInvInit == Init => QueueInv
<1> SUFFICES ASSUME Init PROVE QueueInv
  OBVIOUS
<1>1. handles = {} /\ DOMAIN wheel.entries = {}
  BY DEF Init, new
<1> QED
  BY <1>1, WheelInvInit DEF QueueInv, Distinct, HandlesOwn

LEMMA InsertIsInsert ==
  ASSUME QueueInv, WheelInv', NEW waker \in Wakers, NEW delay \in Delays, NEW key \in Keys,
         Insert(waker, delay, key)
  PROVE  QueueInv' /\ Queue!Insert(delay)
<1> DEFINE gen == wheel.generation_counter + 1
           tick == wheel.current_tick + delay
           raw == [waker |-> waker, expiration_tick |-> tick, generation |-> gen,
                   level |-> 0, slot |-> 0]
           L == Live(wheel)
           M == Live(wheel')
           N == [g \in DOMAIN L \cup {gen} |-> IF g = gen THEN tick ELSE L[g]]
<1>1. /\ wheel \in Wheel /\ HeapNamesLive(wheel) /\ Distinct(wheel)
      /\ wheel' \in Wheel /\ MinIsLeast(wheel')
  BY DEF QueueInv, WheelInv, TypeInv, HeapIsTrusted, NearestIsLeast
<1>2. wheel.generation_counter \in Nat /\ wheel.current_tick \in Nat /\ delay \in Nat
  BY <1>1, CallsAssumption DEF Wheel
<1>3. \A k \in DOMAIN wheel.entries : wheel.entries[k].generation <= wheel.generation_counter
  BY Zenon, <1>1 DEF HeapNamesLive
<1>4. /\ Place(raw, wheel.current_tick).expiration_tick = tick
      /\ Place(raw, wheel.current_tick).generation = gen
  BY DEF Place
<1>5. /\ key \notin DOMAIN wheel.entries
      /\ DOMAIN wheel'.entries = DOMAIN wheel.entries \cup {key}
      /\ wheel'.entries[key] = Place(raw, wheel.current_tick)
      /\ \A k \in DOMAIN wheel.entries : wheel'.entries[k] = wheel.entries[k]
      /\ wheel'.generation_counter = gen
      /\ wheel'.current_tick = wheel.current_tick
  BY DEF Insert, insert
<1>6. /\ handles' = handles \cup {[slab_index |-> key, generation |-> gen]}
      /\ expired' = {} /\ removed' = 0
  BY DEF Insert
<1>7. \A k \in DOMAIN wheel.entries : wheel.entries[k].generation \in Nat
  BY Zenon, <1>1, EntriesType DEF TimerEntry
<1>8. Distinct(wheel')
  BY <1>1, <1>2, <1>3, <1>4, <1>5, <1>7 DEF Distinct
<1>9. HandlesOwn'
  <2> SUFFICES ASSUME NEW h \in handles'
               PROVE  /\ h.generation \in 1..gen
                      /\ \A k \in DOMAIN wheel'.entries :
                           wheel'.entries[k].generation = h.generation => k = h.slab_index
    BY <1>5 DEF HandlesOwn
  <2>1. CASE h \in handles
    <3>1. /\ h.generation \in 1..wheel.generation_counter
          /\ \A k \in DOMAIN wheel.entries :
               wheel.entries[k].generation = h.generation => k = h.slab_index
      BY <2>1 DEF QueueInv, HandlesOwn
    <3> QED
      BY <3>1, <1>2, <1>4, <1>5
  <2>2. CASE h = [slab_index |-> key, generation |-> gen]
    BY <2>2, <1>2, <1>3, <1>5, <1>7
  <2> QED
    BY <2>1, <2>2, <1>6
<1>10. QueueInv'
  BY <1>8, <1>9 DEF QueueInv
<1>11. M = N
  <2>1. /\ DOMAIN L = {wheel.entries[k].generation : k \in DOMAIN wheel.entries}
        /\ \A k \in DOMAIN wheel.entries :
             L[wheel.entries[k].generation] = wheel.entries[k].expiration_tick
    BY Zenon, <1>1, LiveIs
  <2>2. /\ DOMAIN M = {wheel'.entries[k].generation : k \in DOMAIN wheel'.entries}
        /\ \A k \in DOMAIN wheel'.entries :
             M[wheel'.entries[k].generation] = wheel'.entries[k].expiration_tick
    BY Zenon, <1>8, LiveIs
  <2>3. M = [g \in DOMAIN M |-> M[g]]
    BY DEF Live
  <2> HIDE DEF L, M, raw, gen, tick
  <2>4. DOMAIN M = DOMAIN L \cup {gen}
    BY <2>1, <2>2, <1>4, <1>5
  <2>5. M[gen] = tick
    BY <2>2, <1>4, <1>5
  <2>6. \A g \in DOMAIN L : g # gen => M[g] = L[g]
    BY <2>1, <2>2, <1>5
  <2> QED
    BY <2>3, <2>4, <2>5, <2>6
<1>12. wheel'.min_expiration_tick = Queue!NearestOf(M)
  BY <1>1, <1>8, NearestIs
<1> QED
  BY <1>5, <1>6, <1>10, <1>11, <1>12 DEF Queue!Insert

LEMMA RemoveIsCancel ==
  ASSUME QueueInv, WheelInv', NEW handle \in handles, Remove(handle)
  PROVE  QueueInv' /\ handle.generation \in 1..wheel.generation_counter
                   /\ Queue!Cancel(handle.generation)
<1> DEFINE g == handle.generation
           s == handle.slab_index
           v == [wheel EXCEPT !.entries = [k \in DOMAIN wheel.entries \ {s} |-> wheel.entries[k]]]
           left == {wheel.entries[k].generation : k \in DOMAIN wheel.entries \ DOMAIN wheel'.entries}
<1>1. /\ wheel \in Wheel /\ Distinct(wheel) /\ wheel' \in Wheel /\ MinIsLeast(wheel')
  BY DEF QueueInv, WheelInv, TypeInv, NearestIsLeast
<1>2. /\ g \in 1..wheel.generation_counter
      /\ \A k \in DOMAIN wheel.entries : wheel.entries[k].generation = g => k = s
  BY DEF QueueInv, HandlesOwn
<1>3. expired' = {} /\ removed' = g /\ handles' = handles \ {handle}
  BY DEF Remove
<1>4. /\ DOMAIN wheel'.entries = {k \in DOMAIN wheel.entries : wheel.entries[k].generation # g}
      /\ \A k \in DOMAIN wheel'.entries : wheel'.entries[k] = wheel.entries[k]
      /\ wheel'.current_tick = wheel.current_tick
      /\ wheel'.generation_counter = wheel.generation_counter
  <2>1. CASE s \in DOMAIN wheel.entries /\ wheel.entries[s].generation = g
    <3>1. wheel' = refresh_min_expiration(v)
      BY <2>1 DEF Remove, remove, IsLive
    <3>2. v \in Wheel
      BY <1>1, EntriesType DEF Wheel
    <3>3. /\ wheel'.entries = v.entries
          /\ wheel'.current_tick = v.current_tick
          /\ wheel'.generation_counter = v.generation_counter
      BY Zenon, <3>1, <3>2, Refresh
    <3>4. /\ v.entries = [k \in DOMAIN wheel.entries \ {s} |-> wheel.entries[k]]
          /\ v.current_tick = wheel.current_tick
          /\ v.generation_counter = wheel.generation_counter
      BY <1>1 DEF Wheel
    <3> QED
      BY <1>2, <2>1, <3>3, <3>4
  <2>2. CASE ~(s \in DOMAIN wheel.entries /\ wheel.entries[s].generation = g)
    <3>1. wheel' = wheel
      BY <2>2 DEF Remove, remove, IsLive
    <3> QED
      BY <1>2, <2>2, <3>1
  <2> QED
    BY <2>1, <2>2
<1>5. /\ Distinct(wheel')
      /\ Live(wheel') = Queue!Without(Live(wheel), left)
  <2>1. DOMAIN wheel'.entries \subseteq DOMAIN wheel.entries
    BY <1>4
  <2>2. \A k \in DOMAIN wheel'.entries :
          /\ wheel'.entries[k].expiration_tick = wheel.entries[k].expiration_tick
          /\ wheel'.entries[k].generation = wheel.entries[k].generation
    BY <1>4
  <2> QED
    BY <1>1, <2>1, <2>2, LiveLoses, Zenon
<1>6. HandlesOwn'
  BY <1>3, <1>4 DEF QueueInv, HandlesOwn
<1>7. QueueInv'
  BY <1>5, <1>6 DEF QueueInv
<1>8. Queue!Without(Live(wheel), left) = Queue!Without(Live(wheel), {g})
  <2>1. DOMAIN Live(wheel) = {wheel.entries[k].generation : k \in DOMAIN wheel.entries}
    BY DEF Live
  <2>2. DOMAIN Live(wheel) \ left = DOMAIN Live(wheel) \ {g}
    BY <1>4, <2>1
  <2> QED
    BY <2>2 DEF Queue!Without
<1>9. wheel'.min_expiration_tick = Queue!NearestOf(Live(wheel'))
  BY <1>1, <1>5, NearestIs
<1> QED
  BY <1>2, <1>3, <1>4, <1>5, <1>7, <1>8, <1>9 DEF Queue!Cancel

(* The timers that are not due stay, and none of them is a turn late.      *)
LEMMA AdvanceIsAdvance ==
  ASSUME QueueInv, WheelInv', LateByLessThanOneTurn', NEW ticks \in Steps, Advance(ticks)
  PROVE  QueueInv' /\ Queue!Advance(ticks)
<1> DEFINE D == IF ticks = 0 THEN {} ELSE Due(wheel, ticks)
           now == wheel.current_tick + ticks
           v == [wheel EXCEPT !.current_tick = now,
                              !.entries = [k \in DOMAIN wheel.entries \ Due(wheel, ticks) |->
                                             IF k \in Visited(wheel, ticks)
                                               THEN Place(wheel.entries[k], now)
                                               ELSE wheel.entries[k]]]
           left == {wheel.entries[k].generation : k \in DOMAIN wheel.entries \ DOMAIN wheel'.entries}
           L == Live(wheel)
<1>1. /\ wheel \in Wheel /\ Distinct(wheel) /\ wheel' \in Wheel /\ MinIsLeast(wheel')
  BY DEF QueueInv, WheelInv, TypeInv, NearestIsLeast
<1>2. /\ wheel.current_tick \in Nat /\ ticks \in Nat /\ now \in Nat
      /\ \A k \in DOMAIN wheel.entries : wheel.entries[k] \in TimerEntry
      /\ \A k \in DOMAIN wheel.entries : wheel.entries[k].expiration_tick \in Nat
  <2>1. wheel.current_tick \in Nat /\ ticks \in Nat
    BY <1>1, CallsAssumption DEF Wheel
  <2>2. \A k \in DOMAIN wheel.entries : wheel.entries[k] \in TimerEntry
    BY Zenon, <1>1, EntriesType
  <2>3. \A k \in DOMAIN wheel.entries : wheel.entries[k].expiration_tick \in Nat
    BY <2>2 DEF TimerEntry
  <2> QED
    BY <2>1, <2>2, <2>3
<1>3. /\ expired' = {wheel.entries[k] : k \in D} /\ removed' = 0 /\ handles' = handles
      /\ D \subseteq DOMAIN wheel.entries
      /\ \A k \in D : wheel.entries[k].expiration_tick <= now
  BY DEF Advance, Due, Visited
<1>4. /\ DOMAIN wheel'.entries = DOMAIN wheel.entries \ D
      /\ \A k \in DOMAIN wheel'.entries :
           /\ wheel'.entries[k].expiration_tick = wheel.entries[k].expiration_tick
           /\ wheel'.entries[k].generation = wheel.entries[k].generation
      /\ wheel'.current_tick = now
      /\ wheel'.generation_counter = wheel.generation_counter
  <2>1. CASE ticks = 0
    BY <1>2, <2>1 DEF Advance, advance
  <2>2. CASE ticks # 0
    <3>1. wheel' = refresh_min_expiration(v)
      BY <2>2 DEF Advance, advance
    <3>2. ASSUME NEW k \in DOMAIN wheel.entries \ D, k \in Visited(wheel, ticks)
          PROVE  /\ Place(wheel.entries[k], now) \in TimerEntry
                 /\ Place(wheel.entries[k], now).expiration_tick = wheel.entries[k].expiration_tick
                 /\ Place(wheel.entries[k], now).generation = wheel.entries[k].generation
      <4>1. now <= wheel.entries[k].expiration_tick
        BY <1>2, <2>2, <3>2 DEF Due
      <4> HIDE DEF now
      <4> QED
        BY <1>2, <4>1, PlaceKeeps
    <3>3. /\ v.entries = [k \in DOMAIN wheel.entries \ D |->
                            IF k \in Visited(wheel, ticks)
                              THEN Place(wheel.entries[k], now) ELSE wheel.entries[k]]
          /\ v.current_tick = now
          /\ v.generation_counter = wheel.generation_counter
      BY <1>1, <2>2 DEF Wheel
    <3>4. v.entries \in [DOMAIN wheel.entries \ D -> TimerEntry]
      BY <1>2, <3>2, <3>3
    <3>5. DOMAIN wheel.entries \ D \in SUBSET Keys
      BY Zenon, <1>1, EntriesType
    <3>6. v \in Wheel
      <4>1. v.entries \in UNION {[keys -> TimerEntry] : keys \in SUBSET Keys}
        BY Zenon, <3>4, <3>5
      <4> QED
        BY Zenon, <1>1, <1>2, <4>1 DEF Wheel
    <3> HIDE DEF v, D, now
    <3>7. /\ wheel'.entries = v.entries
          /\ wheel'.current_tick = v.current_tick
          /\ wheel'.generation_counter = v.generation_counter
      BY <3>1, <3>6, Refresh
    <3> QED
      BY <3>2, <3>3, <3>7
  <2> QED
    BY <2>1, <2>2
<1>5. Distinct(wheel') /\ Live(wheel') = Queue!Without(L, left)
  BY ZenonT(60), <1>1, <1>4, LiveLoses
<1>6. HandlesOwn'
  BY <1>3, <1>4 DEF QueueInv, HandlesOwn
<1>7. QueueInv'
  BY <1>5, <1>6 DEF QueueInv
<1>8. left = {e.generation : e \in expired'}
  BY <1>3, <1>4
<1>9. /\ DOMAIN L = {wheel.entries[k].generation : k \in DOMAIN wheel.entries}
      /\ \A k \in DOMAIN wheel.entries :
           L[wheel.entries[k].generation] = wheel.entries[k].expiration_tick
  BY Zenon, <1>1, LiveIs
<1> HIDE DEF L, D, now
<1>10. left \in SUBSET {g \in DOMAIN L : L[g] <= now}
  BY <1>3, <1>4, <1>9
<1>11. {g \in DOMAIN L : L[g] + (Slots - 1) < now} \subseteq left
  <2> SUFFICES ASSUME NEW k \in DOMAIN wheel.entries, k \notin D
               PROVE  ~(wheel.entries[k].expiration_tick + (Slots - 1) < now)
    BY <1>3, <1>4, <1>9
  <2>1. now < wheel.entries[k].expiration_tick + Slots
    BY <1>4 DEF LateByLessThanOneTurn
  <2> QED
    BY <1>2, <2>1, WheelAssumption
<1>12. wheel'.min_expiration_tick = Queue!NearestOf(Live(wheel'))
  BY <1>1, <1>5, NearestIs
<1> HIDE DEF left
<1>13. Queue!Advance(ticks)
  BY Zenon, <1>3, <1>4, <1>5, <1>8, <1>10, <1>11, <1>12 DEF Queue!Advance, L, now
<1> QED
  BY <1>7, <1>13

(* The timing wheel implements TimerQueue, for every instance: a timer     *)
(* fires once, never early, less than a turn late, unless cancelled; a     *)
(* stale handle cancels nothing; nearest_wakeup is exact.                  *)
THEOREM WheelImplementsTimerQueue == Spec => ImplementsTimerQueue
<1>1. Init => Queue!Init
  <2> SUFFICES ASSUME Init PROVE Queue!Init
    OBVIOUS
  <2>1. /\ wheel.current_tick = 0 /\ wheel.generation_counter = 0
        /\ wheel.min_expiration_tick = 0 /\ expired = {} /\ removed = 0
        /\ DOMAIN wheel.entries = {}
    BY DEF Init, new, None
  <2>2. Live(wheel) = [g \in {} |-> g]
    BY <2>1 DEF Live
  <2> QED
    BY <2>1, <2>2 DEF Queue!Init
<1>2. QueueInv /\ WheelInv' /\ LateByLessThanOneTurn' /\ [Next]_vars =>
        QueueInv' /\ [Queue!Next]_<<wheel.current_tick, wheel.generation_counter, Live(wheel),
                                    wheel.min_expiration_tick, {e.generation : e \in expired},
                                    removed>>
  <2> SUFFICES ASSUME QueueInv, WheelInv', LateByLessThanOneTurn', [Next]_vars
               PROVE  QueueInv' /\ [Queue!Next]_<<wheel.current_tick, wheel.generation_counter,
                                     Live(wheel), wheel.min_expiration_tick,
                                     {e.generation : e \in expired}, removed>>
    BY Zenon
  <2>1. CASE UNCHANGED vars
    BY <2>1 DEF vars, QueueInv, Distinct, HandlesOwn
  <2>2. CASE \E waker \in Wakers, delay \in Delays, key \in Keys : Insert(waker, delay, key)
    BY <2>2, InsertIsInsert DEF Queue!Next
  <2>3. CASE \E handle \in handles : Remove(handle)
    BY <2>3, RemoveIsCancel DEF Queue!Next
  <2>4. CASE \E ticks \in Steps : Advance(ticks)
    BY <2>4, AdvanceIsAdvance DEF Queue!Next
  <2> QED
    BY <2>1, <2>2, <2>3, <2>4 DEF Next
<1> QED
  BY <1>1, <1>2, QueueInvInit, WheelInvariant, BoundedLateness, PTL
     DEF Spec, ImplementsTimerQueue, Queue!Spec
=============================================================================
