------------------------- MODULE TimingWheelProofs -------------------------
(***************************************************************************)
(* What TLAPS proves about TimingWheel: for every number of levels, slots, *)
(* keys and timers, every delay and every step of time.                    *)
(***************************************************************************)
EXTENDS TimingWheel, FiniteSetTheorems, WellFoundedInduction, TLAPS

\* The wheels whose occupied keys are any set of keys, as one set of records.
Wheel ==
  [entries : UNION {[keys -> TimerEntry] : keys \in SUBSET Keys},
   current_tick : Nat, generation_counter : Nat, min_expiration_tick : Nat,
   expiration_heap : SUBSET (Nat \X Keys \X Nat)]

-----------------------------------------------------------------------------
(* Remainders.                                                             *)

(* A number between two multiples of m has the expected remainder.         *)
LEMMA ModUnique ==
  ASSUME NEW m \in Nat \ {0}, NEW q \in Nat, NEW r \in 0..(m - 1)
  PROVE  (q * m + r) % m = r
  OBVIOUS

(* Adding less than m to a number moves its remainder by as much, round m. *)
LEMMA ModAdd ==
  ASSUME NEW m \in Nat \ {0}, NEW a \in Nat, NEW i \in 0..(m - 1)
  PROVE  (a + i) % m = IF (a % m) + i < m THEN (a % m) + i ELSE (a % m) + i - m
  <1>. DEFINE q == a \div m
              r == a % m
  <1>1. q \in Nat /\ r \in 0..(m - 1) /\ a = q * m + r
    OBVIOUS
  <1>. HIDE DEF q, r
  <1>2. CASE r + i < m
    <2>1. a + i = q * m + (r + i) /\ r + i \in 0..(m - 1)
      BY <1>1, <1>2
    <2>. QED
      BY Zenon, <1>1, <1>2, <2>1, ModUnique DEF r
  <1>3. CASE ~(r + i < m)
    <2>1. a + i = (q + 1) * m + (r + i - m) /\ r + i - m \in 0..(m - 1) /\ q + 1 \in Nat
      BY <1>1, <1>3
    <2>. QED
      BY <1>1, <1>3, <2>1, ModUnique, ZenonT(60) DEF r
  <1>. QED
    BY <1>2, <1>3

(* Among m consecutive numbers every remainder occurs.                     *)
LEMMA ModCovers ==
  ASSUME NEW m \in Nat \ {0}, NEW a \in Nat, NEW s \in 0..(m - 1)
  PROVE  \E t \in a..(a + m - 1) : t % m = s
  <1>. DEFINE r == a % m
  <1>1. r \in 0..(m - 1)
    OBVIOUS
  <1>. HIDE DEF r
  <1>2. CASE r <= s
    <2>1. s - r \in 0..(m - 1) /\ r + (s - r) = s
      BY <1>1, <1>2
    <2>. DEFINE i == s - r
    <2>. HIDE DEF i
    <2>2. (a + i) % m = IF (a % m) + i < m THEN (a % m) + i ELSE (a % m) + i - m
      BY Zenon, <2>1, ModAdd DEF i
    <2>3. (a + i) % m = s /\ a + i \in a..(a + m - 1)
      BY <1>1, <1>2, <2>1, <2>2 DEF r, i
    <2>. QED
      BY <2>3
  <1>3. CASE s < r
    <2>1. s - r + m \in 0..(m - 1) /\ r + (s - r + m) = s + m
      BY <1>1, <1>3
    <2>. DEFINE i == s - r + m
    <2>. HIDE DEF i
    <2>2. (a + i) % m = IF (a % m) + i < m THEN (a % m) + i ELSE (a % m) + i - m
      BY Zenon, <2>1, ModAdd DEF i
    <2>3. (a + i) % m = s /\ a + i \in a..(a + m - 1)
      BY <1>1, <1>3, <2>1, <2>2 DEF r, i
    <2>. QED
      BY <2>3
  <1>. QED
    BY <1>1, <1>2, <1>3

(* advance scans the slot of every tick that it passes.                    *)
LEMMA ScannedCovers ==
  ASSUME NEW start \in Nat, NEW ticks \in Nat, NEW t \in start..(start + ticks)
  PROVE  t % Slots \in ScannedSlots(start, ticks)
  <1>. USE WheelAssumption
  <1>1. t % Slots \in Slot
    BY DEF Slot
  <1>2. CASE ticks >= Slots
    BY <1>1, <1>2 DEF ScannedSlots
  <1>3. CASE ticks < Slots
    <2>. DEFINE s == start % Slots
    <2>1. s \in 0..(Slots - 1)
      OBVIOUS
    <2>2. t - start \in 0..(Slots - 1) /\ ticks \in 0..(Slots - 1)
      BY <1>3
    <2>3. t % Slots = IF s + (t - start) < Slots THEN s + (t - start)
                                                 ELSE s + (t - start) - Slots
      <3>1. t = start + (t - start)
        OBVIOUS
      <3>. QED
        BY Zenon, <2>2, <3>1, ModAdd
    <2>4. (start + ticks) % Slots = IF s + ticks < Slots THEN s + ticks ELSE s + ticks - Slots
      BY Zenon, <2>2, ModAdd
    <2>. HIDE DEF s
    <2>5. start % Slots = s
      BY DEF s
    <2>. QED
      BY <1>1, <1>3, <2>1, <2>2, <2>3, <2>4, <2>5 DEF ScannedSlots
  <1>. QED
    BY <1>2, <1>3

-----------------------------------------------------------------------------
(* The functions of the wheel.                                             *)

(* A non-empty set of numbers has a least one.                             *)
LEMMA NatLeast ==
  ASSUME NEW T, T \subseteq Nat, T # {}
  PROVE  \E x \in T : \A y \in T : x <= y
  <1>1. PICK x \in T : \A y \in T : ~(<<y, x>> \in OpToRel(<, Nat))
    BY Zenon, NatLessThanWellFounded, WFMin
  <1>2. \A y \in T : ~(y < x)
    BY Zenon, <1>1 DEF OpToRel
  <1>. QED
    BY <1>2

(* calculate_level_and_slot returns a level and a slot that exist.         *)
LEMMA PlaceExists ==
  ASSUME NEW delay \in Nat
  PROVE  LevelOf(delay) \in 0..(Levels - 1) /\ SlotOf(delay) \in Slot
  <1>. USE WheelAssumption
  <1>1. LevelOf(delay) \in 0..(Levels - 1)
    <2>. DEFINE L == {l \in 1..(Levels - 1) : delay >= Slots^l}
    <2>1. /\ IsFiniteSet(1..(Levels - 1))
          /\ Cardinality(1..(Levels - 1)) = Levels - 1
      BY FS_Interval
    <2>2. L \in SUBSET (1..(Levels - 1))
      OBVIOUS
    <2>. HIDE DEF L
    <2>3. IsFiniteSet(L) /\ Cardinality(L) <= Cardinality(1..(Levels - 1))
      BY <2>1, <2>2, FS_Subset, Zenon
    <2>4. Cardinality(L) \in Nat
      BY <2>3, FS_CardinalityType
    <2>. QED
      BY <2>1, <2>3, <2>4 DEF LevelOf, L
  <1>2. SlotOf(delay) \in Slot
    <2>. DEFINE p == Slots^LevelOf(delay)
    <2>1. p \in Nat \ {0}
      BY <1>1
    <2>. HIDE DEF p
    <2>2. delay \div p \in Nat
      BY <2>1
    <2>3. (delay \div p) % Slots \in 0..(Slots - 1)
      BY <2>2
    <2>. QED
      BY <2>3 DEF SlotOf, Slot, p
  <1>. QED
    BY <1>1, <1>2

(* Putting an entry in its place keeps everything but level and slot.      *)
LEMMA PlaceKeeps ==
  ASSUME NEW e \in TimerEntry, NEW tick \in Nat, tick <= e.expiration_tick
  PROVE  /\ Place(e, tick) \in TimerEntry
         /\ Place(e, tick).expiration_tick = e.expiration_tick
         /\ Place(e, tick).generation = e.generation
  <1>1. e.expiration_tick - tick \in Nat
    BY DEF TimerEntry
  <1>2. LevelOf(e.expiration_tick - tick) \in Nat /\ SlotOf(e.expiration_tick - tick) \in Slot
    BY <1>1, PlaceExists, WheelAssumption
  <1>. QED
    BY Zenon, <1>2 DEF Place, TimerEntry

(* refresh_min_expiration changes the minimum and the heap only; it keeps  *)
(* the live heap elements, and finds the least of them.                    *)
LEMMA Refresh ==
  ASSUME NEW w \in Wheel
  PROVE  LET r == refresh_min_expiration(w)
         IN  /\ r \in Wheel
             /\ r.entries = w.entries
             /\ r.current_tick = w.current_tick
             /\ r.generation_counter = w.generation_counter
             /\ r.expiration_heap \subseteq w.expiration_heap
             /\ \A h \in w.expiration_heap : IsLive(w.entries, h) => h \in r.expiration_heap
             /\ ~HasLive(w.entries, w.expiration_heap) => r.min_expiration_tick = None
             /\ HasLive(w.entries, w.expiration_heap) =>
                  \E top \in w.expiration_heap :
                    /\ IsLive(w.entries, top)
                    /\ \A g \in w.expiration_heap : IsLive(w.entries, g) => top[1] <= g[1]
                    /\ r.min_expiration_tick = w.entries[top[2]].expiration_tick
  <1>. DEFINE heap == w.expiration_heap
              live == {h \in heap : IsLive(w.entries, h)}
  <1>1. heap \subseteq Nat \X Keys \X Nat
    BY DEF Wheel
  <1>2. CASE ~HasLive(w.entries, heap)
    BY Zenon, <1>2 DEF refresh_min_expiration, HasLive, Wheel, None
  <1>3. CASE HasLive(w.entries, heap)
    <2>. DEFINE top == FirstLive(w.entries, heap)
    <2>1. \E h \in heap : IsLive(w.entries, h)
                          /\ \A g \in heap : IsLive(w.entries, g) => h[1] <= g[1]
      <3>1. {h[1] : h \in live} \subseteq Nat /\ {h[1] : h \in live} # {}
        BY <1>1, <1>3 DEF HasLive
      <3>2. PICK x \in {h[1] : h \in live} : \A y \in {h[1] : h \in live} : x <= y
        BY Zenon, <3>1, NatLeast
      <3>. QED
        BY <3>2
    <2>2. /\ top \in heap
          /\ IsLive(w.entries, top)
          /\ \A g \in heap : IsLive(w.entries, g) => top[1] <= g[1]
      BY <2>1 DEF FirstLive
    <2>. HIDE DEF top
    <2>3. w.entries[top[2]].expiration_tick \in Nat
      <3>1. PICK keys \in SUBSET Keys : w.entries \in [keys -> TimerEntry]
        BY DEF Wheel
      <3>2. top[2] \in keys
        BY <2>2, <3>1 DEF IsLive
      <3>. QED
        BY <3>1, <3>2 DEF TimerEntry
    <2>4. refresh_min_expiration(w)
            = [w EXCEPT !.min_expiration_tick = w.entries[top[2]].expiration_tick,
                        !.expiration_heap = {h \in heap : top[1] <= h[1]}]
      BY <1>3 DEF refresh_min_expiration, top
    <2>. QED
      BY ZenonT(60), <1>3, <2>2, <2>3, <2>4 DEF Wheel
  <1>. QED
    BY <1>2, <1>3

(* The functions keep the type of the wheel.                               *)
LEMMA EntriesType ==
  ASSUME NEW w \in Wheel
  PROVE  /\ DOMAIN w.entries \subseteq Keys
         /\ \A k \in DOMAIN w.entries : w.entries[k] \in TimerEntry
         /\ w.entries = [k \in DOMAIN w.entries |-> w.entries[k]]
  <1>1. PICK keys \in SUBSET Keys : w.entries \in [keys -> TimerEntry]
    BY DEF Wheel
  <1>. QED
    BY <1>1

(* After entries have gone or moved, with expirations and generations as   *)
(* they were, refreshing restores the minimum and keeps the heap right.    *)
LEMMA RefreshRestores ==
  ASSUME NEW w \in Wheel, HeapNamesLive(w), NEW v \in Wheel,
         v.expiration_heap = w.expiration_heap,
         v.generation_counter = w.generation_counter,
         DOMAIN v.entries \subseteq DOMAIN w.entries,
         \A k \in DOMAIN v.entries :
           /\ v.entries[k].expiration_tick = w.entries[k].expiration_tick
           /\ v.entries[k].generation = w.entries[k].generation
  PROVE  LET r == refresh_min_expiration(v)
         IN  HeapNamesLive(r) /\ MinIsLeast(r)
  <1>. DEFINE r == refresh_min_expiration(v)
  <1>1. /\ r.entries = v.entries
        /\ r.generation_counter = v.generation_counter
        /\ r.expiration_heap \subseteq v.expiration_heap
        /\ \A h \in v.expiration_heap : IsLive(v.entries, h) => h \in r.expiration_heap
        /\ ~HasLive(v.entries, v.expiration_heap) => r.min_expiration_tick = None
        /\ HasLive(v.entries, v.expiration_heap) =>
             \E top \in v.expiration_heap :
               /\ IsLive(v.entries, top)
               /\ \A g \in v.expiration_heap : IsLive(v.entries, g) => top[1] <= g[1]
               /\ r.min_expiration_tick = v.entries[top[2]].expiration_tick
    BY Refresh
  <1>. HIDE DEF r
  <1>2. \A k \in DOMAIN v.entries :
          LET e == v.entries[k]
          IN  /\ e.generation <= w.generation_counter
              /\ e.expiration_tick # None
              /\ <<e.expiration_tick, k, e.generation>> \in v.expiration_heap
              /\ IsLive(v.entries, <<e.expiration_tick, k, e.generation>>)
    BY DEF HeapNamesLive, IsLive
  <1>3. \A h \in v.expiration_heap :
          /\ h[3] <= w.generation_counter
          /\ IsLive(v.entries, h) => v.entries[h[2]].expiration_tick = h[1]
    BY DEF HeapNamesLive, IsLive
  <1>4. HeapNamesLive(r)
    BY <1>1, <1>2, <1>3 DEF HeapNamesLive
  <1>5. MinIsLeast(r)
    <2>1. CASE DOMAIN v.entries = {}
      BY <1>1, <2>1 DEF MinIsLeast, HasLive, IsLive
    <2>2. CASE DOMAIN v.entries # {}
      <3>1. HasLive(v.entries, v.expiration_heap)
        BY Zenon, <1>2, <2>2 DEF HasLive
      <3>2. PICK top \in v.expiration_heap :
              /\ IsLive(v.entries, top)
              /\ \A g \in v.expiration_heap : IsLive(v.entries, g) => top[1] <= g[1]
              /\ r.min_expiration_tick = v.entries[top[2]].expiration_tick
        BY <1>1, <3>1
      <3>3. top[2] \in DOMAIN v.entries /\ r.min_expiration_tick = top[1]
        BY <1>3, <3>2 DEF IsLive
      <3>4. ASSUME NEW k \in DOMAIN v.entries
            PROVE  r.min_expiration_tick <= v.entries[k].expiration_tick
        <4>. DEFINE g == <<v.entries[k].expiration_tick, k, v.entries[k].generation>>
        <4>1. g \in v.expiration_heap /\ IsLive(v.entries, g)
          BY <1>2, <3>4
        <4>2. top[1] <= g[1]
          BY <3>2, <4>1
        <4>. QED
          BY <3>3, <4>2
      <3>. QED
        BY Zenon, <1>1, <2>2, <3>2, <3>3, <3>4 DEF MinIsLeast
    <2>. QED
      BY <2>1, <2>2
  <1>. QED
    BY <1>4, <1>5 DEF r

-----------------------------------------------------------------------------
(* The inductive invariant.                                                *)

\* TypeOK, with Wheel.
TypeInv ==
  /\ wheel \in Wheel
  /\ handles \subseteq [slab_index : Keys, generation : Nat]
  /\ expired \subseteq TimerEntry
  /\ removed \in Nat

WheelInv == TypeInv /\ OverdueOnlyOffSlot /\ HeapIsTrusted /\ NearestIsLeast /\ NeverEarly

(* insert: the new entry expires in the future, and its generation is new. *)
LEMMA InsertKeeps ==
  ASSUME WheelInv, NEW waker \in Wakers, NEW delay \in Delays, NEW key \in Keys,
         Insert(waker, delay, key)
  PROVE  WheelInv'
  <1>. DEFINE tick == wheel.current_tick + delay
              gen == wheel.generation_counter + 1
              raw == [waker |-> waker, expiration_tick |-> tick, generation |-> gen,
                      level |-> 0, slot |-> 0]
              e == Place(raw, wheel.current_tick)
              w == insert(wheel, waker, tick, key)
  <1>1. wheel \in Wheel /\ HeapNamesLive(wheel) /\ MinIsLeast(wheel)
    BY DEF WheelInv, TypeInv, HeapIsTrusted, NearestIsLeast
  <1>2. /\ tick \in Nat /\ gen \in Nat /\ tick > wheel.current_tick /\ tick # None
        /\ wheel.current_tick \in Nat /\ wheel.generation_counter \in Nat
    BY <1>1, CallsAssumption DEF Wheel, None
  <1>3. raw \in TimerEntry
    BY <1>2, WheelAssumption DEF TimerEntry, Slot
  <1>4. e \in TimerEntry /\ e.expiration_tick = tick /\ e.generation = gen
    BY SMTT(60), <1>2, <1>3, PlaceKeeps
  <1>5. /\ w.entries = [k \in DOMAIN wheel.entries \cup {key} |->
                          IF k = key THEN e ELSE wheel.entries[k]]
        /\ w.current_tick = wheel.current_tick
        /\ w.generation_counter = gen
        /\ w.min_expiration_tick = (IF wheel.min_expiration_tick = None
                                       \/ tick < wheel.min_expiration_tick
                                      THEN tick ELSE wheel.min_expiration_tick)
        /\ w.expiration_heap = wheel.expiration_heap \cup {<<tick, key, gen>>}
        /\ w = [entries |-> w.entries, current_tick |-> w.current_tick,
                generation_counter |-> w.generation_counter,
                min_expiration_tick |-> w.min_expiration_tick,
                expiration_heap |-> w.expiration_heap]
    BY DEF insert
  <1>6. wheel' = w /\ key \notin DOMAIN wheel.entries /\ expired' = {} /\ removed' = 0
        /\ handles' = handles \cup {[slab_index |-> key, generation |-> gen]}
    BY DEF Insert
  <1>. HIDE DEF tick, gen, raw, e, w
  <1>7. w \in Wheel
    <2>1. w.entries \in [DOMAIN wheel.entries \cup {key} -> TimerEntry]
      BY Zenon, <1>1, <1>4, <1>5, EntriesType
    <2>2. DOMAIN wheel.entries \cup {key} \in SUBSET Keys
      BY Zenon, <1>1, EntriesType
    <2>3. w.entries \in UNION {[keys -> TimerEntry] : keys \in SUBSET Keys}
      BY <2>1, <2>2
    <2>4. w.expiration_heap \in SUBSET (Nat \X Keys \X Nat)
      BY <1>1, <1>2, <1>5 DEF Wheel
    <2>5. w.current_tick \in Nat /\ w.generation_counter \in Nat /\ w.min_expiration_tick \in Nat
      BY <1>1, <1>2, <1>5 DEF Wheel
    <2>. QED
      BY <1>5, <2>3, <2>4, <2>5 DEF Wheel
  <1>8. TypeInv'
    BY <1>2, <1>6, <1>7 DEF WheelInv, TypeInv
  <1>9. OverdueOnlyOffSlot'
    <2>1. ASSUME NEW k \in DOMAIN w.entries
          PROVE  /\ w.entries[k].level # 0 => w.current_tick < w.entries[k].expiration_tick
                 /\ \A t \in w.entries[k].expiration_tick..w.current_tick :
                      t % Slots # w.entries[k].slot
      <3>1. CASE k = key
        BY <1>2, <1>4, <1>5, <3>1
      <3>2. CASE k # key
        <4>1. k \in DOMAIN wheel.entries /\ w.entries[k] = wheel.entries[k]
          BY <1>5, <2>1, <3>2
        <4>. QED
          BY <1>5, <4>1 DEF WheelInv, OverdueOnlyOffSlot
      <3>. QED
        BY <3>1, <3>2
    <2>. QED
      BY <1>6, <2>1 DEF OverdueOnlyOffSlot
  <1>10. HeapNamesLive(w)
    <2>1. ASSUME NEW k \in DOMAIN w.entries
          PROVE  /\ w.entries[k].generation <= w.generation_counter
                 /\ w.entries[k].expiration_tick # None
                 /\ <<w.entries[k].expiration_tick, k, w.entries[k].generation>>
                      \in w.expiration_heap
      <3>1. CASE k = key
        BY <1>2, <1>4, <1>5, <3>1
      <3>2. CASE k # key
        <4>1. k \in DOMAIN wheel.entries /\ w.entries[k] = wheel.entries[k]
          BY <1>5, <2>1, <3>2
        <4>2. wheel.entries[k].generation \in Nat
          BY Zenon, <1>1, <4>1, EntriesType DEF TimerEntry
        <4>. QED
          BY <1>1, <1>2, <1>5, <4>1, <4>2 DEF HeapNamesLive, gen
      <3>. QED
        BY <3>1, <3>2
    <2>2. ASSUME NEW h \in w.expiration_heap
          PROVE  /\ h[3] <= w.generation_counter
                 /\ IsLive(w.entries, h) => w.entries[h[2]].expiration_tick = h[1]
      <3>1. CASE h = <<tick, key, gen>>
        BY <1>2, <1>4, <1>5, <3>1 DEF IsLive
      <3>2. CASE h \in wheel.expiration_heap
        <4>1. h[3] \in Nat /\ h[3] <= wheel.generation_counter
          BY <1>1, <3>2 DEF Wheel, HeapNamesLive
        <4>2. h[3] < gen
          BY <1>2, <4>1 DEF gen
        <4>3. ASSUME IsLive(w.entries, h)
              PROVE  IsLive(wheel.entries, h) /\ w.entries[h[2]] = wheel.entries[h[2]]
          <5>1. h[2] # key
            BY <1>2, <1>4, <1>5, <4>1, <4>2, <4>3 DEF IsLive
          <5>. QED
            BY <1>5, <4>3, <5>1 DEF IsLive
        <4>. QED
          BY <1>1, <1>2, <1>5, <3>2, <4>1, <4>2, <4>3 DEF HeapNamesLive
      <3>. QED
        BY <1>5, <2>2, <3>1, <3>2
    <2>. QED
      BY <2>1, <2>2 DEF HeapNamesLive
  <1>11. MinIsLeast(w)
    <2>1. DOMAIN w.entries = DOMAIN wheel.entries \cup {key} /\ w.entries[key] = e
          /\ \A k \in DOMAIN wheel.entries : w.entries[k] = wheel.entries[k]
      BY <1>5, <1>6
    <2>2. \A k \in DOMAIN wheel.entries : wheel.entries[k].expiration_tick \in Nat \ {None}
      BY Zenon, <1>1, EntriesType DEF HeapNamesLive, TimerEntry
    <2>3. wheel.min_expiration_tick \in Nat
      BY <1>1 DEF Wheel
    <2>4. CASE DOMAIN wheel.entries = {}
      BY <1>1, <1>2, <1>4, <1>5, <2>1, <2>4 DEF MinIsLeast
    <2>5. CASE DOMAIN wheel.entries # {}
      <3>1. PICK k \in DOMAIN wheel.entries :
              wheel.entries[k].expiration_tick = wheel.min_expiration_tick
        BY <1>1, <2>5 DEF MinIsLeast
      <3>2. \A j \in DOMAIN wheel.entries :
              wheel.min_expiration_tick <= wheel.entries[j].expiration_tick
        BY <1>1, <2>5 DEF MinIsLeast
      <3>3. wheel.min_expiration_tick # None
        BY <2>2, <3>1
      <3>4. /\ \E j \in DOMAIN w.entries :
                 w.entries[j].expiration_tick = w.min_expiration_tick
            /\ \A j \in DOMAIN w.entries :
                 w.min_expiration_tick <= w.entries[j].expiration_tick
        <4>1. CASE tick < wheel.min_expiration_tick
          <5>1. w.min_expiration_tick = tick
            BY <1>5, <4>1
          <5>2. \A j \in DOMAIN wheel.entries : tick <= wheel.entries[j].expiration_tick
            BY <1>2, <2>2, <2>3, <3>2, <4>1
          <5>. QED
            BY <1>2, <1>4, <2>1, <5>1, <5>2
        <4>2. CASE ~(tick < wheel.min_expiration_tick)
          <5>1. w.min_expiration_tick = wheel.min_expiration_tick
            BY <1>5, <3>3, <4>2
          <5>2. wheel.min_expiration_tick <= tick
            BY <1>2, <2>3, <4>2
          <5>. QED
            BY <1>4, <2>1, <3>1, <3>2, <5>1, <5>2
        <4>. QED
          BY <4>1, <4>2
      <3>. QED
        BY <2>1, <3>4 DEF MinIsLeast
    <2>. QED
      BY <2>4, <2>5
  <1>. QED
    BY <1>6, <1>8, <1>9, <1>10, <1>11
       DEF WheelInv, HeapIsTrusted, NearestIsLeast, NeverEarly

(* remove: entries only go, and the rest stays where it is.                *)
LEMMA RemoveKeeps ==
  ASSUME WheelInv, NEW handle \in handles, Remove(handle)
  PROVE  WheelInv'
  <1>. DEFINE v == [wheel EXCEPT !.entries = [k \in DOMAIN wheel.entries \ {handle.slab_index} |->
                                                wheel.entries[k]]]
              r == refresh_min_expiration(v)
  <1>1. wheel \in Wheel /\ HeapNamesLive(wheel) /\ MinIsLeast(wheel)
    BY DEF WheelInv, TypeInv, HeapIsTrusted, NearestIsLeast
  <1>2. wheel' = wheel \/ wheel' = r
    BY DEF Remove, remove
  <1>3. /\ expired' = {} /\ removed' = handle.generation
        /\ handles' = handles \ {handle} /\ handle.generation \in Nat
    BY DEF Remove, WheelInv, TypeInv
  <1>4. CASE wheel' = wheel
    BY <1>3, <1>4 DEF WheelInv, TypeInv, OverdueOnlyOffSlot, HeapIsTrusted, NearestIsLeast,
                      NeverEarly
  <1>5. CASE wheel' = r
    <2>1. /\ v.entries = [k \in DOMAIN wheel.entries \ {handle.slab_index} |-> wheel.entries[k]]
          /\ v.current_tick = wheel.current_tick
          /\ v.generation_counter = wheel.generation_counter
          /\ v.expiration_heap = wheel.expiration_heap
      BY <1>1 DEF Wheel
    <2>2. v \in Wheel
      <3>1. v.entries \in UNION {[keys -> TimerEntry] : keys \in SUBSET Keys}
        <4>1. v.entries \in [DOMAIN wheel.entries \ {handle.slab_index} -> TimerEntry]
          BY Zenon, <1>1, <2>1, EntriesType
        <4>2. DOMAIN wheel.entries \ {handle.slab_index} \in SUBSET Keys
          BY Zenon, <1>1, EntriesType
        <4>. QED
          BY Zenon, <4>1, <4>2
      <3>. QED
        BY <1>1, <3>1 DEF Wheel
    <2>. HIDE DEF v
    <2>3. /\ r \in Wheel
          /\ r.entries = v.entries
          /\ r.current_tick = v.current_tick
      BY <2>2, Refresh
    <2>4. HeapNamesLive(r) /\ MinIsLeast(r)
      BY <1>1, <2>1, <2>2, RefreshRestores
    <2>. HIDE DEF r
    <2>5. TypeInv'
      BY <1>3, <1>5, <2>3 DEF WheelInv, TypeInv
    <2>6. OverdueOnlyOffSlot'
      BY <1>5, <2>1, <2>3 DEF WheelInv, OverdueOnlyOffSlot
    <2>. QED
      BY <1>3, <1>5, <2>4, <2>5, <2>6
         DEF WheelInv, HeapIsTrusted, NearestIsLeast, NeverEarly
  <1>. QED
    BY <1>2, <1>4, <1>5

(* advance: what it visits is taken or put in a place in the future, and   *)
(* it visits the slot of every tick that passes.                           *)
LEMMA AdvanceKeeps ==
  ASSUME WheelInv, NEW ticks \in Steps, Advance(ticks)
  PROVE  WheelInv'
  <1>. DEFINE now == wheel.current_tick + ticks
              v == [wheel EXCEPT !.current_tick = now,
                                 !.entries = [k \in DOMAIN wheel.entries \ Due(wheel, ticks) |->
                                                IF k \in Visited(wheel, ticks)
                                                  THEN Place(wheel.entries[k], now)
                                                  ELSE wheel.entries[k]]]
              r == refresh_min_expiration(v)
  <1>1. wheel \in Wheel /\ HeapNamesLive(wheel) /\ MinIsLeast(wheel)
    BY DEF WheelInv, TypeInv, HeapIsTrusted, NearestIsLeast
  <1>2. /\ removed' = 0 /\ handles' = handles
        /\ ticks \in Nat /\ now \in Nat /\ wheel.current_tick \in Nat
    BY <1>1, CallsAssumption DEF Advance, Wheel
  <1>3. CASE ticks = 0
    <2>1. wheel' = wheel /\ expired' = {}
      BY <1>3 DEF Advance, advance
    <2>. QED
      BY <1>2, <2>1 DEF WheelInv, TypeInv, OverdueOnlyOffSlot, HeapIsTrusted, NearestIsLeast,
                        NeverEarly
  <1>4. CASE ticks # 0
    <2>1. wheel' = r /\ expired' = {wheel.entries[k] : k \in Due(wheel, ticks)}
      BY <1>4 DEF Advance, advance
    <2>2. /\ v.entries = [k \in DOMAIN wheel.entries \ Due(wheel, ticks) |->
                            IF k \in Visited(wheel, ticks)
                              THEN Place(wheel.entries[k], now)
                              ELSE wheel.entries[k]]
          /\ v.current_tick = now
          /\ v.generation_counter = wheel.generation_counter
          /\ v.expiration_heap = wheel.expiration_heap
      BY <1>1 DEF Wheel
    <2>3. ASSUME NEW k \in DOMAIN v.entries
          PROVE  /\ k \in DOMAIN wheel.entries
                 /\ v.entries[k] \in TimerEntry
                 /\ v.entries[k].expiration_tick = wheel.entries[k].expiration_tick
                 /\ v.entries[k].generation = wheel.entries[k].generation
                 /\ k \in Visited(wheel, ticks) => now < v.entries[k].expiration_tick
                 /\ k \notin Visited(wheel, ticks) => v.entries[k] = wheel.entries[k]
      <3>1. k \in DOMAIN wheel.entries /\ k \notin Due(wheel, ticks)
        BY <2>2, <2>3
      <3>2. wheel.entries[k] \in TimerEntry /\ wheel.entries[k].expiration_tick \in Nat
        BY Zenon, <1>1, <3>1, EntriesType DEF TimerEntry
      <3>3. CASE k \in Visited(wheel, ticks)
        <4>1. now < wheel.entries[k].expiration_tick
          BY <1>2, <3>1, <3>2, <3>3 DEF Due
        <4>2. v.entries[k] = Place(wheel.entries[k], now)
          BY <2>2, <3>1, <3>3
        <4>. QED
          BY <1>2, <3>1, <3>2, <3>3, <4>1, <4>2, PlaceKeeps
      <3>4. CASE k \notin Visited(wheel, ticks)
        BY <2>2, <3>1, <3>2, <3>4
      <3>. QED
        BY <3>3, <3>4
    <2>4. v \in Wheel
      <3>1. v.entries \in UNION {[keys -> TimerEntry] : keys \in SUBSET Keys}
        <4>1. DOMAIN v.entries \in SUBSET Keys
          BY Zenon, <1>1, <2>3, EntriesType
        <4>2. v.entries \in [DOMAIN v.entries -> TimerEntry]
          BY Zenon, <2>2, <2>3
        <4>. QED
          BY Zenon, <4>1, <4>2
      <3>. QED
        BY Zenon, <1>1, <1>2, <3>1 DEF Wheel
    <2>. HIDE DEF v
    <2>5. /\ r \in Wheel
          /\ r.entries = v.entries
          /\ r.current_tick = now
      BY <2>2, <2>4, Refresh
    <2>6. HeapNamesLive(r) /\ MinIsLeast(r)
      BY Zenon, <1>1, <2>2, <2>3, <2>4, RefreshRestores
    <2>. HIDE DEF r
    <2>7. \A e \in expired' : e \in TimerEntry /\ e.expiration_tick <= now
      <3>1. ASSUME NEW k \in Due(wheel, ticks)
            PROVE  wheel.entries[k] \in TimerEntry /\ wheel.entries[k].expiration_tick <= now
        BY Zenon, <1>1, <3>1, EntriesType DEF Due, Visited
      <3>. QED
        BY <2>1, <3>1
    <2>8. OverdueOnlyOffSlot'
      <3>1. ASSUME NEW k \in DOMAIN v.entries, NEW e, e = v.entries[k]
            PROVE  /\ e.level # 0 => now < e.expiration_tick
                   /\ \A t \in e.expiration_tick..now : t % Slots # e.slot
        <4>1. CASE k \in Visited(wheel, ticks)
          <5>1. now < e.expiration_tick /\ e.expiration_tick \in Nat
            BY <2>3, <3>1, <4>1 DEF TimerEntry
          <5>. QED
            BY <1>2, <5>1
        <4>2. CASE k \notin Visited(wheel, ticks)
          <5>1. k \in DOMAIN wheel.entries /\ e = wheel.entries[k] /\ e \in TimerEntry
            BY <2>3, <3>1, <4>2
          <5>2. e.level = 0 /\ e.slot \notin ScannedSlots(wheel.current_tick, ticks)
            BY <4>2, <5>1 DEF Visited
          <5>3. \A t \in e.expiration_tick..wheel.current_tick : t % Slots # e.slot
            BY <5>1 DEF WheelInv, OverdueOnlyOffSlot
          <5>4. ASSUME NEW t \in e.expiration_tick..now
                PROVE  t % Slots # e.slot
            <6>1. e.expiration_tick \in Nat /\ t \in Nat
              BY <1>2, <5>1, <5>4 DEF TimerEntry
            <6>2. CASE t <= wheel.current_tick
              BY <1>2, <5>3, <5>4, <6>1, <6>2
            <6>3. CASE t > wheel.current_tick
              <7>1. t \in wheel.current_tick..(wheel.current_tick + ticks)
                BY <1>2, <5>4, <6>1, <6>3
              <7>2. t % Slots \in ScannedSlots(wheel.current_tick, ticks)
                BY <1>2, <7>1, ScannedCovers
              <7>. QED
                BY <5>2, <7>2
            <6>. QED
              BY <1>2, <6>1, <6>2, <6>3
          <5>. QED
            BY <5>2, <5>4
        <4>. QED
          BY <4>1, <4>2
      <3>2. wheel'.entries = v.entries /\ wheel'.current_tick = now
        BY <2>1, <2>5
      <3>. QED
        BY <3>1, <3>2 DEF OverdueOnlyOffSlot
    <2>9. TypeInv'
      BY <1>2, <2>1, <2>5, <2>7 DEF WheelInv, TypeInv
    <2>. QED
      BY <2>1, <2>5, <2>6, <2>7, <2>8, <2>9
         DEF WheelInv, HeapIsTrusted, NearestIsLeast, NeverEarly
  <1>. QED
    BY <1>3, <1>4

LEMMA WheelInvInit == Init => WheelInv
  <1>. SUFFICES ASSUME Init PROVE WheelInv
    OBVIOUS
  <1>1. wheel = new /\ handles = {} /\ expired = {} /\ removed = 0
    BY DEF Init
  <1>2. new \in Wheel
    <2>1. [k \in {} |-> k] \in [{} -> TimerEntry]
      OBVIOUS
    <2>2. {} \in SUBSET Keys
      OBVIOUS
    <2>3. [k \in {} |-> k] \in UNION {[keys -> TimerEntry] : keys \in SUBSET Keys}
      BY <2>1, <2>2
    <2>. QED
      BY <2>3 DEF new, Wheel, None
  <1>3. DOMAIN new.entries = {} /\ new.expiration_heap = {} /\ new.min_expiration_tick = None
    BY DEF new
  <1>. QED
    BY <1>1, <1>2, <1>3 DEF WheelInv, TypeInv, OverdueOnlyOffSlot, HeapIsTrusted, HeapNamesLive,
                            NearestIsLeast, MinIsLeast, NeverEarly

(* The inductive invariant holds in every reachable state.                 *)
THEOREM WheelInvariant == Spec => []WheelInv
  <1>1. WheelInv /\ [Next]_vars => WheelInv'
    <2>. SUFFICES ASSUME WheelInv, [Next]_vars PROVE WheelInv'
      OBVIOUS
    <2>1. CASE UNCHANGED vars
      BY <2>1 DEF vars, WheelInv, TypeInv, OverdueOnlyOffSlot, HeapIsTrusted, NearestIsLeast,
                  NeverEarly
    <2>. QED
      BY <2>1, InsertKeeps, RemoveKeeps, AdvanceKeeps DEF Next
  <1>. QED
    BY <1>1, WheelInvInit, PTL DEF Spec

(* Every call leaves a well-formed wheel: in particular a slot number is   *)
(* always below SLOTS_PER_LEVEL, the length of the vectors it indexes.     *)
THEOREM WheelTypeCorrect == Spec => []TypeOK
  <1>1. WheelInv => TypeOK
    <2>. SUFFICES ASSUME WheelInv PROVE TypeOK
      OBVIOUS
    <2>1. wheel \in Wheel
      BY DEF WheelInv, TypeInv
    <2>2. PICK keys \in SUBSET Keys : wheel.entries \in [keys -> TimerEntry]
      BY <2>1 DEF Wheel
    <2>3. wheel \in WheelWith(keys)
      BY <2>1, <2>2 DEF Wheel, WheelWith
    <2>. QED
      BY <2>3 DEF WheelInv, TypeInv, TypeOK
  <1>. QED
    BY <1>1, WheelInvariant, PTL

(* Every timer is taken less than SLOTS_PER_LEVEL ticks after it expires,  *)
(* in a wheel of any size: among that many ticks one has the number of the *)
(* slot that the entry is in.                                              *)
THEOREM BoundedLateness == Spec => []LateByLessThanOneTurn
  <1>1. WheelInv => LateByLessThanOneTurn
    <2>. SUFFICES ASSUME WheelInv, NEW k \in DOMAIN wheel.entries,
                         ~(wheel.current_tick < wheel.entries[k].expiration_tick + Slots)
                  PROVE  FALSE
      BY DEF LateByLessThanOneTurn
    <2>. DEFINE e == wheel.entries[k]
    <2>1. e.expiration_tick \in Nat /\ e.slot \in Slot /\ wheel.current_tick \in Nat
      BY EntriesType DEF WheelInv, TypeInv, TimerEntry, Wheel
    <2>2. PICK t \in e.expiration_tick..(e.expiration_tick + Slots - 1) : t % Slots = e.slot
      BY Zenon, <2>1, ModCovers, WheelAssumption DEF Slot
    <2>3. t \in e.expiration_tick..wheel.current_tick
      BY <2>1, <2>2, WheelAssumption
    <2>. QED
      BY <2>2, <2>3 DEF WheelInv, OverdueOnlyOffSlot
  <1>. QED
    BY <1>1, WheelInvariant, PTL

(* The wheel never returns a waker before the tick of its timer.           *)
THEOREM NoTimerIsEarly == Spec => []NeverEarly
  BY WheelInvariant, PTL DEF WheelInv

(* nearest_wakeup is exact whatever was inserted, cancelled and fired.     *)
THEOREM NearestIsExact == Spec => []NearestIsLeast
  BY WheelInvariant, PTL DEF WheelInv
=============================================================================
