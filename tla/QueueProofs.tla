---------------------------- MODULE QueueProofs ----------------------------
(***************************************************************************)
(* Proof that a task that was woken is in a queue, and in one only, for    *)
(* every set of tasks and threads, with and without store buffers.         *)
(***************************************************************************)
EXTENDS ExecutorProofs, FiniteSetTheorems

-----------------------------------------------------------------------------
(* Counting in queues.                                                     *)

(* A queue is finite, and what occurs in it is a member of it.             *)
LEMMA OccType ==
  ASSUME NEW S, NEW s \in Seq(S), NEW t
  PROVE  /\ IsFiniteSet({i \in 1..Len(s) : s[i] = t})
         /\ Occurrences(t, s) \in Nat
         /\ Occurrences(t, s) = 0 <=> t \notin Members(s)
<1> DEFINE I == {i \in 1..Len(s) : s[i] = t}
<1>1. IsFiniteSet(1..Len(s))
  BY FS_Interval
<1>2. IsFiniteSet(I)
  <2>1. I \in SUBSET (1..Len(s))
    OBVIOUS
  <2> HIDE DEF I
  <2> QED
    BY Zenon, <1>1, <2>1, FS_Subset
<1>3. Cardinality(I) \in Nat /\ (Cardinality(I) = 0 <=> I = {})
  <2> HIDE DEF I
  <2> QED
    BY <1>2, FS_CardinalityType, FS_EmptySet
<1> QED
  BY <1>2, <1>3 DEF Occurrences, Members

(* A push adds one occurrence.                                             *)
LEMMA OccAppend ==
  ASSUME NEW S, NEW s \in Seq(S), NEW e \in S, NEW t
  PROVE  /\ Occurrences(t, s) \in Nat
         /\ Occurrences(t, Append(s, e)) = Occurrences(t, s) + (IF e = t THEN 1 ELSE 0)
         /\ Members(Append(s, e)) = Members(s) \cup {e}
<1> DEFINE I == {i \in 1..Len(s) : s[i] = t}
           a == Append(s, e)
           J == {i \in 1..Len(a) : a[i] = t}
           n == Len(s) + 1
<1>1. /\ Len(s) \in Nat /\ Len(a) = n /\ a[n] = e
      /\ \A i \in 1..Len(s) : a[i] = s[i]
  OBVIOUS
<1>2. IsFiniteSet(I) /\ Cardinality(I) \in Nat
  BY Zenon, OccType DEF Occurrences
<1>3. J = IF e = t THEN I \cup {n} ELSE I
  BY <1>1
<1>4. n \notin I
  BY <1>1
<1>5. Members(a) = Members(s) \cup {e}
  BY <1>1 DEF Members
<1> HIDE DEF I, J, n
<1>6. Cardinality(J) = Cardinality(I) + (IF e = t THEN 1 ELSE 0)
  <2>1. Cardinality(I \cup {n}) = Cardinality(I) + 1
    BY Zenon, <1>2, <1>4, FS_AddElement
  <2>2. CASE e = t
    BY <1>2, <1>3, <2>1, <2>2
  <2>3. CASE e # t
    BY <1>2, <1>3, <2>3
  <2> QED
    BY <2>2, <2>3
<1> QED
  BY Zenon, <1>2, <1>5, <1>6 DEF Occurrences, I, J

(* A pop takes one occurrence of the head.                                 *)
LEMMA OccTail ==
  ASSUME NEW S, NEW s \in Seq(S), s # <<>>, NEW t
  PROVE  /\ Occurrences(t, Tail(s)) \in Nat
         /\ Occurrences(t, s) = Occurrences(t, Tail(s)) + (IF Head(s) = t THEN 1 ELSE 0)
         /\ Members(s) = Members(Tail(s)) \cup {Head(s)}
<1> DEFINE r == Tail(s)
           I == {i \in 1..Len(s) : s[i] = t}
           J == {i \in 1..Len(r) : r[i] = t}
           K == I \ {1}
           f == [i \in J |-> i + 1]
<1>1. /\ Len(s) \in Nat /\ Len(s) >= 1 /\ Len(r) = Len(s) - 1 /\ r \in Seq(S)
      /\ \A i \in 1..Len(r) : r[i] = s[i + 1]
      /\ Head(s) = s[1]
  OBVIOUS
<1>2. Members(s) = Members(r) \cup {Head(s)}
  <2>1. \A i \in 1..Len(s) : i = 1 \/ (i - 1 \in 1..Len(r) /\ r[i - 1] = s[i])
    BY <1>1
  <2>2. \A i \in 1..Len(r) : i + 1 \in 1..Len(s) /\ s[i + 1] = r[i]
    BY <1>1
  <2>3. 1 \in 1..Len(s)
    BY <1>1
  <2> QED
    BY SMTT(60), <1>1, <2>1, <2>2, <2>3 DEF Members
<1>3. IsFiniteSet(J) /\ IsFiniteSet(I) /\ Cardinality(I) \in Nat
  <2> HIDE DEF r
  <2>1. IsFiniteSet(J)
    BY <1>1, OccType, ZenonT(60)
  <2>2. IsFiniteSet(I) /\ Cardinality(I) \in Nat
    BY OccType, ZenonT(60) DEF Occurrences
  <2> QED
    BY <2>1, <2>2
<1>4. f \in Bijection(J, K)
  <2>1. \A i \in J : i + 1 \in K
    BY <1>1
  <2>2. \A k \in K : k - 1 \in J /\ (k - 1) + 1 = k
    BY <1>1
  <2>3. J \subseteq Int
    OBVIOUS
  <2> HIDE DEF J, K
  <2>4. f \in [J -> K]
    BY <2>1
  <2>5. \A i, j \in J : f[i] = f[j] => i = j
    BY <2>3
  <2>6. \A k \in K : \E i \in J : f[i] = k
    BY <2>2
  <2> QED
    BY <2>4, <2>5, <2>6 DEF Bijection, Injection, Surjection, IsInjective
<1>5. 1 \in I <=> Head(s) = t
  BY <1>1
<1> HIDE DEF I, J, f
<1>6. Cardinality(K) = Cardinality(J)
  <2> HIDE DEF K
  <2> QED
    BY <1>3, <1>4, FS_Bijection DEF ExistsBijection
<1>7. Cardinality(I) = Cardinality(J) + (IF Head(s) = t THEN 1 ELSE 0)
  <2>1. Cardinality(K) = IF 1 \in I THEN Cardinality(I) - 1 ELSE Cardinality(I)
    BY Zenon, <1>3, FS_RemoveElement
  <2> QED
    BY <1>3, <1>5, <1>6, <2>1
<1>8. Cardinality(J) \in Nat
  BY <1>3, FS_CardinalityType
<1> QED
  BY Zenon, <1>2, <1>7, <1>8 DEF Occurrences, I, J

-----------------------------------------------------------------------------
(* The invariant.                                                          *)

Pushers(t) == {w \in Threads : tpc[w] = "push" /\ target[w] = t}

(* Tasks are in the batch only while it is filled and polled.              *)
BatchPhase ==
  batch # <<>> => \/ pc \in {"drainNext", "drainRemote", "drainMain", "batch"}
                  \/ pc = "poll" /\ current # Root

(* A buffered store to Task::queued clears it, and its task has not left   *)
(* the batch: a poll waits until the buffer is empty.                      *)
StoresClear ==
  \A x \in Members(sb) : x[1] \in Tasks => x[2] = FALSE /\ x[1] \in Members(batch)

(* A task that is not spawned is not queued.                               *)
UnspawnedIsOut == \A t \in Tasks : slot[t] = "none" => ~queued[t]

FewPush == \A t \in Tasks : IsFiniteSet(Pushers(t))

(* QueuedOnce, with its terms named.                                       *)
Count(t) ==
  Occurrences(t, next_task) + Occurrences(t, queue) + Occurrences(t, remote_queue)
    + Occurrences(<<t, FALSE>>, sb) + Cardinality(Pushers(t))

CountsOnce == \A t \in Tasks : Count(t) = IF queued[t] THEN 1 ELSE 0

QueueInv == StoresClear /\ UnspawnedIsOut /\ FewPush /\ CountsOnce /\ WakeIsPending

(* The terms of QueuedOnce are numbers.                                    *)
LEMMA CountType ==
  ASSUME TypeOK, FewPush, NEW t \in Tasks
  PROVE  /\ Occurrences(t, next_task) \in Nat
         /\ Occurrences(t, queue) \in Nat
         /\ Occurrences(t, remote_queue) \in Nat
         /\ Occurrences(<<t, FALSE>>, sb) \in Nat
         /\ Cardinality(Pushers(t)) \in Nat
<1>1. Cardinality(Pushers(t)) \in Nat
  BY FS_CardinalityType DEF FewPush
<1> QED
  BY Zenon, <1>1, OccType DEF TypeOK

(* A task whose flag is set is somewhere.                                  *)
LEMMA QueuedIsSomewhere ==
  ASSUME TypeOK, QueueInv, NEW t \in Tasks, queued[t]
  PROVE  \/ t \in Members(next_task) \cup Members(queue) \cup Members(remote_queue)
         \/ <<t, FALSE>> \in Members(sb)
         \/ \E w \in Threads : tpc[w] = "push" /\ target[w] = t
<1>1. \/ Occurrences(t, next_task) # 0 \/ Occurrences(t, queue) # 0
      \/ Occurrences(t, remote_queue) # 0 \/ Occurrences(<<t, FALSE>>, sb) # 0
      \/ Cardinality(Pushers(t)) # 0
  <2>1. FewPush /\ Count(t) = 1
    BY DEF QueueInv, CountsOnce
  <2> QED
    BY <2>1, CountType DEF Count
<1>2. Cardinality(Pushers(t)) # 0 => Pushers(t) # {}
  BY FS_EmptySet
<1>3. /\ Occurrences(t, next_task) # 0 => t \in Members(next_task)
      /\ Occurrences(t, queue) # 0 => t \in Members(queue)
      /\ Occurrences(t, remote_queue) # 0 => t \in Members(remote_queue)
  BY Zenon, OccType DEF TypeOK
<1>4. Occurrences(<<t, FALSE>>, sb) # 0 => <<t, FALSE>> \in Members(sb)
  BY Zenon, OccType DEF TypeOK
<1> QED
  BY <1>1, <1>2, <1>3, <1>4 DEF Pushers

(* Steps that do not touch the queues.                                     *)
LEMMA NothingMoves ==
  ASSUME QueueInv, UNCHANGED <<batch, sb, next_task, queue, remote_queue, queued, woken>>,
         \A t \in Tasks : Pushers(t)' = Pushers(t) /\ (slot'[t] = "none" => slot[t] = "none"),
         ready => ready', UNCHANGED rb
  PROVE  QueueInv'
<1>1. StoresClear' /\ UnspawnedIsOut'
  BY DEF QueueInv, StoresClear, UnspawnedIsOut
<1>2. FewPush' /\ CountsOnce'
  BY Zenon DEF QueueInv, FewPush, CountsOnce, Count, Pushers
<1>3. WakeIsPending'
  <2>1. ASSUME NEW t \in Tasks, woken'[t]
        PROVE  \/ t \in Members(batch) \cup Members(next_task) \cup Members(queue)
                          \cup Members(remote_queue)
               \/ Pushers(t)' # {}
    BY <2>1 DEF QueueInv, WakeIsPending, Pushers
  <2>2. woken'[Root] => ready' \/ \E w \in Threads : rb'[w]
    BY DEF QueueInv, WakeIsPending
  <2> QED
    BY <2>1, <2>2 DEF WakeIsPending, Pushers
<1> QED
  BY <1>1, <1>2, <1>3 DEF QueueInv

(* A wake on the scheduler thread queues the task unless it is queued.     *)
LEMMA LocalWakeKeeps ==
  ASSUME TypeOK, QueueInv, NEW f \in Futures, LocalWake(f),
         UNCHANGED <<batch, sb, remote_queue, slot, tpc, target, rb>>
  PROVE  QueueInv'
<1>1. CASE f = Root
  <2>1. /\ ready' = TRUE /\ UNCHANGED <<next_task, queue, queued>>
        /\ \A t \in Tasks : woken'[t] = woken[t]
    BY Zenon, <1>1, ExecutorAssumption DEF LocalWake, LocalWakeRoot, TypeOK, Futures
  <2>2. StoresClear' /\ UnspawnedIsOut' /\ FewPush' /\ CountsOnce'
    BY Zenon, <2>1 DEF QueueInv, StoresClear, UnspawnedIsOut, FewPush, CountsOnce, Count, Pushers
  <2>3. WakeIsPending'
    BY <2>1 DEF QueueInv, WakeIsPending
  <2> QED
    BY <2>2, <2>3 DEF QueueInv
<1>2. CASE f # Root
  <2>1. /\ f \in Tasks /\ Drained /\ ready' = ready /\ slot[f] # "none"
        /\ woken' = [woken EXCEPT ![f] = TRUE]
    BY <1>2 DEF LocalWake, LocalEnqueue, Futures, HasWaker
  <2>2. woken'[Root] = woken[Root] /\ \A t \in Tasks : t # f => woken'[t] = woken[t]
    BY Zenon, <2>1, <1>2 DEF TypeOK, Futures
  <2>3. CASE queued[f]
    <3>1. UNCHANGED <<next_task, queue, queued>>
      BY <1>2, <2>3 DEF LocalWake, LocalEnqueue
    <3>2. StoresClear' /\ UnspawnedIsOut' /\ FewPush' /\ CountsOnce'
      BY Zenon, <3>1 DEF QueueInv, StoresClear, UnspawnedIsOut, FewPush, CountsOnce, Count, Pushers
    <3>3. \/ f \in Members(next_task) \cup Members(queue) \cup Members(remote_queue)
          \/ \E w \in Threads : tpc[w] = "push" /\ target[w] = f
      BY <2>1, <2>3, QueuedIsSomewhere DEF Drained, Members
    <3>4. WakeIsPending'
      BY Zenon, <2>1, <2>2, <3>1, <3>3 DEF QueueInv, WakeIsPending
    <3> QED
      BY <3>2, <3>4 DEF QueueInv
  <2>4. CASE ~queued[f]
    <3>1. /\ queued' = [queued EXCEPT ![f] = TRUE]
          /\ \/ next_task' = Append(next_task, f) /\ queue' = queue
             \/ queue' = Append(queue, f) /\ next_task' = next_task
      BY <1>2, <2>4 DEF LocalWake, LocalEnqueue
    <3>2. /\ next_task \in Seq(Tasks) /\ queue \in Seq(Tasks)
          /\ next_task' \in Seq(Tasks) /\ queue' \in Seq(Tasks)
      BY LocalWakeType DEF TypeOK
    <3>3. /\ \A t \in Tasks : Count(t)' = Count(t) + (IF f = t THEN 1 ELSE 0)
          /\ Members(next_task') \cup Members(queue')
               = Members(next_task) \cup Members(queue) \cup {f}
      <4>1. ASSUME NEW t \in Tasks
            PROVE  /\ Occurrences(t, next_task') + Occurrences(t, queue')
                        = Occurrences(t, next_task) + Occurrences(t, queue)
                            + (IF f = t THEN 1 ELSE 0)
                   /\ Members(next_task') \cup Members(queue')
                        = Members(next_task) \cup Members(queue) \cup {f}
        <5>1. Occurrences(t, next_task) \in Nat /\ Occurrences(t, queue) \in Nat
          BY Zenon, <3>2, OccType
        <5>2. CASE next_task' = Append(next_task, f) /\ queue' = queue
          <6>1. /\ Occurrences(t, Append(next_task, f))
                     = Occurrences(t, next_task) + (IF f = t THEN 1 ELSE 0)
                /\ Members(Append(next_task, f)) = Members(next_task) \cup {f}
            BY SMTT(60), <2>1, <3>2, OccAppend
          <6> QED
            BY <5>1, <5>2, <6>1
        <5>3. CASE queue' = Append(queue, f) /\ next_task' = next_task
          <6>1. /\ Occurrences(t, Append(queue, f))
                     = Occurrences(t, queue) + (IF f = t THEN 1 ELSE 0)
                /\ Members(Append(queue, f)) = Members(queue) \cup {f}
            BY SMTT(60), <2>1, <3>2, OccAppend
          <6> QED
            BY <5>1, <5>3, <6>1
        <5> QED
          BY <3>1, <5>2, <5>3
      <4>2. ASSUME NEW t \in Tasks
            PROVE  Count(t)' = Count(t) + (IF f = t THEN 1 ELSE 0)
        <5>1. FewPush
          BY DEF QueueInv
        <5>2. /\ Occurrences(t, next_task) \in Nat /\ Occurrences(t, queue) \in Nat
              /\ Occurrences(t, remote_queue) \in Nat /\ Occurrences(<<t, FALSE>>, sb) \in Nat
              /\ Cardinality(Pushers(t)) \in Nat
          BY Zenon, <5>1, CountType
        <5>3. Occurrences(t, next_task') \in Nat /\ Occurrences(t, queue') \in Nat
          BY Zenon, <3>2, OccType
        <5>4. Pushers(t)' = Pushers(t) /\ sb' = sb /\ remote_queue' = remote_queue
          BY DEF Pushers
        <5> QED
          BY <4>1, <5>2, <5>3, <5>4 DEF Count
      <4> QED
        BY <2>1, <4>1, <4>2
    <3>4. StoresClear' /\ FewPush'
      BY DEF QueueInv, StoresClear, FewPush, Pushers
    <3>5. UnspawnedIsOut'
      BY <2>1, <3>1 DEF QueueInv, UnspawnedIsOut, TypeOK
    <3>6. CountsOnce'
      <4> SUFFICES ASSUME NEW t \in Tasks
                   PROVE  Count(t)' = IF queued'[t] THEN 1 ELSE 0
        BY DEF CountsOnce
      <4>1. Count(t) = IF queued[t] THEN 1 ELSE 0
        BY DEF QueueInv, CountsOnce
      <4>2. queued'[f] /\ (t # f => queued'[t] = queued[t])
        BY Zenon, <2>1, <3>1 DEF TypeOK
      <4> HIDE DEF Count
      <4>3. CASE t = f
        BY <2>4, <3>3, <4>1, <4>2, <4>3
      <4>4. CASE t # f
        BY <3>3, <4>1, <4>2, <4>4
      <4> QED
        BY <4>3, <4>4
    <3>7. WakeIsPending'
      BY Zenon, <2>1, <2>2, <3>3 DEF QueueInv, WakeIsPending
    <3> QED
      BY <3>4, <3>5, <3>6, <3>7 DEF QueueInv
  <2> QED
    BY <2>3, <2>4
<1> QED
  BY <1>1, <1>2

(* A spawn queues the task for the first time.                             *)
LEMMA SpawnKeeps ==
  ASSUME TypeOK, QueueInv, NEW f \in Tasks, Spawn(f)
  PROVE  QueueInv'
<1>1. /\ slot[f] = "none" /\ slot' = [slot EXCEPT ![f] = "some"]
      /\ queued' = [queued EXCEPT ![f] = TRUE]
      /\ queue' = Append(queue, f)
      /\ woken' = [woken EXCEPT ![f] = TRUE]
      /\ UNCHANGED <<batch, sb, next_task, remote_queue, tpc, target, ready, rb>>
  BY DEF Spawn, schedVars, flagVars, threadVars
<1>2. ~queued[f] /\ FewPush
  BY <1>1 DEF QueueInv, UnspawnedIsOut
<1>3. /\ queued'[f] /\ slot'[f] = "some"
      /\ \A t \in Tasks : t # f => queued'[t] = queued[t] /\ slot'[t] = slot[t]
                                     /\ woken'[t] = woken[t]
      /\ woken'[Root] = woken[Root]
  BY Zenon, <1>1, ExecutorAssumption DEF TypeOK, Futures
<1>4. Members(queue') = Members(queue) \cup {f}
  BY Zenon, <1>1, OccAppend DEF TypeOK
<1>5. StoresClear' /\ FewPush'
  BY <1>1 DEF QueueInv, StoresClear, FewPush, Pushers
<1>6. UnspawnedIsOut'
  BY <1>3 DEF QueueInv, UnspawnedIsOut
<1>7. CountsOnce'
  <2> SUFFICES ASSUME NEW t \in Tasks
               PROVE  Count(t)' = IF queued'[t] THEN 1 ELSE 0
    BY DEF CountsOnce
  <2>1. Count(t)' = Count(t) + (IF f = t THEN 1 ELSE 0)
    <3>1. Occurrences(t, Append(queue, f)) = Occurrences(t, queue) + (IF f = t THEN 1 ELSE 0)
      BY OccAppend DEF TypeOK
    <3>2. Pushers(t)' = Pushers(t)
      BY <1>1 DEF Pushers
    <3>3. /\ Occurrences(t, next_task) \in Nat /\ Occurrences(t, queue) \in Nat
          /\ Occurrences(t, remote_queue) \in Nat /\ Occurrences(<<t, FALSE>>, sb) \in Nat
          /\ Cardinality(Pushers(t)) \in Nat
      BY Zenon, <1>2, CountType
    <3> QED
      BY SMTT(60), <1>1, <3>1, <3>2, <3>3 DEF Count
  <2>2. Count(t) = IF queued[t] THEN 1 ELSE 0
    BY DEF QueueInv, CountsOnce
  <2>3. CASE t = f
    BY <1>2, <1>3, <2>1, <2>2, <2>3
  <2>4. CASE t # f
    BY <1>3, <2>1, <2>2, <2>4
  <2> QED
    BY <2>3, <2>4
<1>8. WakeIsPending'
  BY ZenonT(60), <1>1, <1>3, <1>4 DEF QueueInv, WakeIsPending
<1> QED
  BY <1>5, <1>6, <1>7, <1>8 DEF QueueInv

(* A task leaves the batch to be polled, when no store is buffered.        *)
LEMMA NextOfBatchKeeps ==
  ASSUME TypeOK, QueueInv, NextOfBatch, batch # <<>>
  PROVE  QueueInv'
<1>1. /\ sb = <<>> /\ batch' = Tail(batch)
      /\ woken' = [woken EXCEPT ![Head(batch)] = FALSE]
      /\ UNCHANGED <<sb, next_task, queue, remote_queue, queued, slot, tpc, target, ready, rb>>
  BY DEF NextOfBatch, Drained, queueVars, flagVars, threadVars
<1>2. /\ Head(batch) \in Tasks
      /\ Members(batch) = Members(batch') \cup {Head(batch)}
  <2>1. batch \in Seq(Tasks)
    BY DEF TypeOK
  <2>2. Members(batch) = Members(Tail(batch)) \cup {Head(batch)}
    BY <2>1, OccTail
  <2> QED
    BY <1>1, <2>1, <2>2
<1>3. /\ ~woken'[Head(batch)] /\ woken'[Root] = woken[Root]
      /\ \A t \in Tasks : t # Head(batch) => woken'[t] = woken[t]
  BY Zenon, <1>1, <1>2, ExecutorAssumption DEF TypeOK, Futures
<1>4. StoresClear'
  BY <1>1 DEF StoresClear, Members
<1>5. UnspawnedIsOut' /\ FewPush' /\ CountsOnce'
  BY Zenon, <1>1 DEF QueueInv, UnspawnedIsOut, FewPush, CountsOnce, Count, Pushers
<1>6. WakeIsPending'
  BY <1>1, <1>2, <1>3 DEF QueueInv, WakeIsPending
<1> QED
  BY <1>4, <1>5, <1>6 DEF QueueInv

(* A task goes from a queue to the batch, and its flag is cleared, or a    *)
(* store that clears it is buffered.                                       *)
LEMMA PopKeeps ==
  ASSUME TypeOK, QueueInv, NEW q \in Seq(Tasks), q # <<>>, Pop(q),
         UNCHANGED <<slot, tpc, target, woken, ready, rb>>,
         next_task' \in Seq(Tasks), queue' \in Seq(Tasks), remote_queue' \in Seq(Tasks),
         \A t \in Tasks :
           Occurrences(t, next_task) + Occurrences(t, queue) + Occurrences(t, remote_queue)
             = Occurrences(t, next_task') + Occurrences(t, queue')
                 + Occurrences(t, remote_queue') + (IF Head(q) = t THEN 1 ELSE 0),
         Members(next_task) \cup Members(queue) \cup Members(remote_queue)
           \subseteq Members(next_task') \cup Members(queue') \cup Members(remote_queue')
                       \cup {Head(q)}
  PROVE  QueueInv'
<1> DEFINE h == Head(q)
<1>1. h \in Tasks /\ batch' = Append(batch, h)
  BY DEF Pop
<1>2. Members(batch') = Members(batch) \cup {h}
  BY ZenonT(60), <1>1, OccAppend DEF TypeOK
<1>3. \A t \in Tasks : Pushers(t)' = Pushers(t)
  BY DEF Pushers
<1>4. FewPush /\ FewPush'
  BY <1>3 DEF QueueInv, FewPush
<1>5. WakeIsPending'
  BY <1>2, <1>3 DEF QueueInv, WakeIsPending, Pushers
<1> HIDE DEF h
<1>6. ASSUME NEW t \in Tasks
      PROVE  /\ Occurrences(t, next_task') \in Nat /\ Occurrences(t, queue') \in Nat
             /\ Occurrences(t, remote_queue') \in Nat
  BY Zenon, OccType
<1>7. CASE StoreBuffer
  <2>1. sb' = Append(sb, <<h, FALSE>>) /\ queued' = queued
    BY Zenon, <1>7 DEF Pop, h
  <2>2. sb \in Seq(BufferedStore) /\ <<h, FALSE>> \in BufferedStore
    BY Zenon, <1>1 DEF TypeOK, BufferedStore
  <2>3. Members(sb') = Members(sb) \cup {<<h, FALSE>>}
    BY ZenonT(60), <2>1, <2>2, OccAppend
  <2>4. StoresClear'
    <3>1. <<h, FALSE>>[1] = h /\ <<h, FALSE>>[2] = FALSE
      OBVIOUS
    <3>2. ASSUME NEW x \in Members(sb'), x[1] \in Tasks
          PROVE  x[2] = FALSE /\ x[1] \in Members(batch')
      <4>1. CASE x \in Members(sb)
        BY <1>2, <3>2, <4>1 DEF QueueInv, StoresClear
      <4>2. CASE x = <<h, FALSE>>
        BY <1>2, <3>1, <4>2
      <4> QED
        BY Zenon, <2>3, <4>1, <4>2
    <3> QED
      BY Zenon, <3>2 DEF StoresClear
  <2>5. UnspawnedIsOut'
    BY <2>1 DEF QueueInv, UnspawnedIsOut
  <2>6. ASSUME NEW t \in Tasks PROVE Count(t)' = Count(t)
    <3>1. Occurrences(<<t, FALSE>>, Append(sb, <<h, FALSE>>))
            = Occurrences(<<t, FALSE>>, sb) + (IF <<h, FALSE>> = <<t, FALSE>> THEN 1 ELSE 0)
      <4> DEFINE x == <<t, FALSE>>
                 y == <<h, FALSE>>
      <4> HIDE DEF x, y
      <4>1. Occurrences(x, Append(sb, y)) = Occurrences(x, sb) + (IF y = x THEN 1 ELSE 0)
        BY ZenonT(60), <2>2, OccAppend DEF y
      <4> QED
        BY <4>1 DEF x, y
    <3>2. <<h, FALSE>> = <<t, FALSE>> <=> h = t
      OBVIOUS
    <3>3. Occurrences(<<t, FALSE>>, sb')
            = Occurrences(<<t, FALSE>>, sb) + (IF h = t THEN 1 ELSE 0)
      BY <2>1, <3>1, <3>2
    <3>4. Occurrences(t, next_task) + Occurrences(t, queue) + Occurrences(t, remote_queue)
            = Occurrences(t, next_task') + Occurrences(t, queue')
                + Occurrences(t, remote_queue') + (IF h = t THEN 1 ELSE 0)
      BY DEF h
    <3>5. /\ Occurrences(t, next_task) \in Nat /\ Occurrences(t, queue) \in Nat
          /\ Occurrences(t, remote_queue) \in Nat /\ Occurrences(<<t, FALSE>>, sb) \in Nat
          /\ Cardinality(Pushers(t)) \in Nat
      BY Zenon, <1>4, CountType
    <3>6. /\ Occurrences(t, next_task') \in Nat /\ Occurrences(t, queue') \in Nat
          /\ Occurrences(t, remote_queue') \in Nat /\ Pushers(t)' = Pushers(t)
      BY <1>3, <1>6
    <3>7. CASE h = t
      BY SMTT(60), <3>3, <3>4, <3>5, <3>6, <3>7 DEF Count
    <3>8. CASE h # t
      BY SMTT(60), <3>3, <3>4, <3>5, <3>6, <3>8 DEF Count
    <3> QED
      BY <3>7, <3>8
  <2>7. CountsOnce'
    BY SMTT(60), <2>1, <2>6 DEF QueueInv, CountsOnce
  <2> QED
    BY <1>4, <1>5, <2>4, <2>5, <2>7 DEF QueueInv
<1>8. CASE ~StoreBuffer
  <2>1. queued' = [queued EXCEPT ![h] = FALSE] /\ sb' = sb
    BY <1>8 DEF Pop, h
  <2>2. ~queued'[h] /\ \A t \in Tasks : t # h => queued'[t] = queued[t]
    BY <1>1, <2>1 DEF TypeOK
  <2>3. StoresClear'
    BY <1>2, <2>1 DEF QueueInv, StoresClear
  <2>4. UnspawnedIsOut'
    BY <2>2 DEF QueueInv, UnspawnedIsOut
  <2>5. ASSUME NEW t \in Tasks
        PROVE  Count(t) = Count(t)' + (IF h = t THEN 1 ELSE 0) /\ Count(t)' \in Nat
    <3>1. Occurrences(t, next_task) + Occurrences(t, queue) + Occurrences(t, remote_queue)
            = Occurrences(t, next_task') + Occurrences(t, queue')
                + Occurrences(t, remote_queue') + (IF h = t THEN 1 ELSE 0)
      BY DEF h
    <3>2. /\ Occurrences(t, next_task) \in Nat /\ Occurrences(t, queue) \in Nat
          /\ Occurrences(t, remote_queue) \in Nat /\ Occurrences(<<t, FALSE>>, sb) \in Nat
          /\ Cardinality(Pushers(t)) \in Nat
      BY <1>4, CountType
    <3>3. /\ Occurrences(t, next_task') \in Nat /\ Occurrences(t, queue') \in Nat
          /\ Occurrences(t, remote_queue') \in Nat /\ Pushers(t)' = Pushers(t)
      BY <1>3, <1>6
    <3>4. Count(t)' = Occurrences(t, next_task') + Occurrences(t, queue')
                        + Occurrences(t, remote_queue') + Occurrences(<<t, FALSE>>, sb)
                        + Cardinality(Pushers(t))
      BY SMTT(60), <2>1, <3>3 DEF Count
    <3>5. Count(t)' \in Nat
      BY SMTT(60), <3>2, <3>3, <3>4
    <3>6. Count(t) = Occurrences(t, next_task) + Occurrences(t, queue)
                       + Occurrences(t, remote_queue) + Occurrences(<<t, FALSE>>, sb)
                       + Cardinality(Pushers(t))
      BY DEF Count
    <3>7. Count(t) = Count(t)' + (IF h = t THEN 1 ELSE 0)
      <4> DEFINE d == IF h = t THEN 1 ELSE 0
                 A == Occurrences(t, next_task') + Occurrences(t, queue')
                        + Occurrences(t, remote_queue')
                 b == Occurrences(<<t, FALSE>>, sb)
                 c == Cardinality(Pushers(t))
      <4>1. d \in Nat /\ A \in Nat /\ b \in Nat /\ c \in Nat
        BY SMTT(60), <3>2, <3>3
      <4>2. Count(t) = (A + d) + b + c /\ Count(t)' = A + b + c
        BY SMTT(60), <3>1, <3>4, <3>6
      <4> HIDE DEF d, A, b, c
      <4>3. Count(t) = Count(t)' + d
        BY <4>1, <4>2
      <4> QED
        BY <4>3 DEF d
    <3> QED
      BY SMTT(60), <3>5, <3>7
  <2>6. CountsOnce'
    <3> SUFFICES ASSUME NEW t \in Tasks
                 PROVE  Count(t)' = IF queued'[t] THEN 1 ELSE 0
      BY DEF CountsOnce
    <3>1. Count(t) = IF queued[t] THEN 1 ELSE 0
      BY DEF QueueInv, CountsOnce
    <3>2. CASE t = h
      BY SMTT(60), <2>2, <2>5, <3>1, <3>2
    <3>3. CASE t # h
      BY SMTT(60), <2>2, <2>5, <3>1, <3>3
    <3> QED
      BY <3>2, <3>3
  <2> QED
    BY <1>4, <1>5, <2>3, <2>4, <2>6 DEF QueueInv
<1> QED
  BY <1>7, <1>8

(* The three queues are drained in the same way.                           *)
LEMMA DrainKeeps ==
  ASSUME TypeOK, TypeOK', QueueInv, DrainNext \/ DrainRemote \/ DrainMain
  PROVE  QueueInv'
<1> USE DEF queueVars, flagVars, threadVars
<1>0. /\ next_task \in Seq(Tasks) /\ queue \in Seq(Tasks) /\ remote_queue \in Seq(Tasks)
      /\ next_task' \in Seq(Tasks) /\ queue' \in Seq(Tasks) /\ remote_queue' \in Seq(Tasks)
      /\ UNCHANGED <<slot, tpc, target, woken, ready, rb>>
  BY DEF TypeOK, DrainNext, DrainRemote, DrainMain
<1>1. CASE UNCHANGED <<batch, sb, next_task, queue, remote_queue, queued>>
  BY SMTT(60), <1>0, <1>1, NothingMoves DEF Pushers
<1>2. CASE /\ next_task # <<>> /\ Pop(next_task) /\ next_task' = Tail(next_task)
           /\ UNCHANGED <<queue, remote_queue>>
  <2>1. Members(next_task) = Members(next_task') \cup {Head(next_task)}
    BY Zenon, <1>0, <1>2, OccTail
  <2>2. ASSUME NEW t \in Tasks
        PROVE  Occurrences(t, next_task) + Occurrences(t, queue) + Occurrences(t, remote_queue)
                 = Occurrences(t, next_task') + Occurrences(t, queue')
                     + Occurrences(t, remote_queue') + (IF Head(next_task) = t THEN 1 ELSE 0)
    <3>1. /\ Occurrences(t, Tail(next_task)) \in Nat
          /\ Occurrences(t, next_task)
               = Occurrences(t, Tail(next_task)) + (IF Head(next_task) = t THEN 1 ELSE 0)
      BY <1>0, <1>2, OccTail
    <3>2. Occurrences(t, queue) \in Nat /\ Occurrences(t, remote_queue) \in Nat
      BY Zenon, <1>0, OccType
    <3> QED
      BY <1>2, <3>1, <3>2
  <2> QED
    BY SMTT(60), <1>0, <1>2, <2>1, <2>2, PopKeeps
<1>3. CASE /\ remote_queue # <<>> /\ Pop(remote_queue) /\ remote_queue' = Tail(remote_queue)
           /\ UNCHANGED <<queue, next_task>>
  <2>1. Members(remote_queue) = Members(remote_queue') \cup {Head(remote_queue)}
    BY Zenon, <1>0, <1>3, OccTail
  <2>2. ASSUME NEW t \in Tasks
        PROVE  Occurrences(t, next_task) + Occurrences(t, queue) + Occurrences(t, remote_queue)
                 = Occurrences(t, next_task') + Occurrences(t, queue')
                     + Occurrences(t, remote_queue') + (IF Head(remote_queue) = t THEN 1 ELSE 0)
    <3>1. /\ Occurrences(t, Tail(remote_queue)) \in Nat
          /\ Occurrences(t, remote_queue)
               = Occurrences(t, Tail(remote_queue)) + (IF Head(remote_queue) = t THEN 1 ELSE 0)
      BY <1>0, <1>3, OccTail
    <3>2. Occurrences(t, queue) \in Nat /\ Occurrences(t, next_task) \in Nat
      BY Zenon, <1>0, OccType
    <3> QED
      BY <1>3, <3>1, <3>2
  <2> QED
    BY <1>0, <1>3, <2>1, <2>2, PopKeeps
<1>4. CASE /\ queue # <<>> /\ Pop(queue) /\ queue' = Tail(queue)
           /\ UNCHANGED <<next_task, remote_queue>>
  <2>1. Members(queue) = Members(queue') \cup {Head(queue)}
    BY <1>0, <1>4, OccTail
  <2>2. ASSUME NEW t \in Tasks
        PROVE  Occurrences(t, next_task) + Occurrences(t, queue) + Occurrences(t, remote_queue)
                 = Occurrences(t, next_task') + Occurrences(t, queue')
                     + Occurrences(t, remote_queue') + (IF Head(queue) = t THEN 1 ELSE 0)
    <3>1. /\ Occurrences(t, Tail(queue)) \in Nat
          /\ Occurrences(t, queue)
               = Occurrences(t, Tail(queue)) + (IF Head(queue) = t THEN 1 ELSE 0)
      BY <1>0, <1>4, OccTail
    <3>2. Occurrences(t, next_task) \in Nat /\ Occurrences(t, remote_queue) \in Nat
      BY Zenon, <1>0, OccType
    <3> QED
      BY <1>4, <3>1, <3>2
  <2> QED
    BY <1>0, <1>4, <2>1, <2>2, PopKeeps
<1> QED
  BY SMTT(60), <1>1, <1>2, <1>3, <1>4 DEF DrainNext, DrainRemote, DrainMain

(* A store to one of the flags of the parking protocol is no task's.       *)
LEMMA FlagStoreKeeps ==
  ASSUME TypeOK, QueueInv, NEW f \in {"waiting", "pending"}, NEW v \in BOOLEAN, Store(f, v),
         UNCHANGED <<batch, next_task, queue, remote_queue, queued, slot, tpc, target, woken,
                     ready, rb>>
  PROVE  QueueInv'
<1>1. f \notin Tasks
  BY ExecutorAssumption
<1>2. CASE sb' = sb
  BY <1>2, NothingMoves DEF Pushers
<1>3. CASE sb' = Append(sb, <<f, v>>)
  <2>1. sb \in Seq(BufferedStore) /\ <<f, v>> \in BufferedStore
    BY DEF TypeOK, BufferedStore
  <2>2. Members(sb') = Members(sb) \cup {<<f, v>>}
    BY SMTT(60), <1>3, <2>1, OccAppend
  <2>3. StoresClear'
    <3>1. <<f, v>>[1] = f
      OBVIOUS
    <3> QED
      BY <1>1, <2>2, <3>1 DEF QueueInv, StoresClear
  <2>4. UnspawnedIsOut' /\ FewPush' /\ WakeIsPending'
    BY DEF QueueInv, UnspawnedIsOut, FewPush, Pushers, WakeIsPending
  <2>5. ASSUME NEW t \in Tasks PROVE Count(t)' = Count(t)
    <3> DEFINE x == <<t, FALSE>>
               y == <<f, v>>
    <3>1. x # y
      BY ZenonT(60), <1>1
    <3> HIDE DEF x, y
    <3>2. /\ Occurrences(x, sb) \in Nat
          /\ Occurrences(x, Append(sb, y)) = Occurrences(x, sb) + (IF y = x THEN 1 ELSE 0)
      BY <2>1, OccAppend DEF y
    <3>3. Occurrences(x, sb') = Occurrences(x, sb)
      BY <1>3, <3>1, <3>2 DEF y
    <3>4. Pushers(t)' = Pushers(t)
      BY DEF Pushers
    <3> QED
      BY <3>3, <3>4 DEF Count, x
  <2>6. CountsOnce'
    BY <2>5 DEF QueueInv, CountsOnce
  <2> QED
    BY <2>3, <2>4, <2>6 DEF QueueInv
<1> QED
  BY <1>2, <1>3 DEF Store

(* A store that drains clears the flag that it counted for.                *)
LEMMA DrainStoreKeeps ==
  ASSUME TypeOK, QueueInv, DrainStore
  PROVE  QueueInv'
<1> DEFINE h == Head(sb)
<1>1. /\ sb # <<>> /\ sb' = Tail(sb)
      /\ queued' = [t \in Tasks |-> IF h[1] = t THEN h[2] ELSE queued[t]]
      /\ UNCHANGED <<batch, next_task, queue, remote_queue, slot, tpc, target, woken, ready, rb>>
  BY DEF DrainStore, threadVars
<1>2. sb \in Seq(BufferedStore) /\ h \in BufferedStore
  BY <1>1 DEF TypeOK
<1>3. Members(sb) = Members(sb') \cup {h}
  BY <1>1, <1>2, OccTail
<1>4. /\ h = <<h[1], h[2]>>
      /\ h[1] \in Tasks => h[2] = FALSE
  <2>1. h = <<h[1], h[2]>>
    BY <1>2 DEF BufferedStore
  <2>2. h[1] \in Tasks => h[2] = FALSE
    BY <1>3 DEF QueueInv, StoresClear
  <2> QED
    BY <2>1, <2>2
<1>5. StoresClear'
  BY SMTT(60), <1>1, <1>3 DEF QueueInv, StoresClear
<1>6. FewPush /\ FewPush' /\ WakeIsPending'
  BY SMTT(60), <1>1 DEF QueueInv, FewPush, Pushers, WakeIsPending
<1>7. \A t \in Tasks : (t = h[1] => ~queued'[t]) /\ (t # h[1] => queued'[t] = queued[t])
  BY <1>1, <1>4
<1> HIDE DEF h
<1>8. UnspawnedIsOut'
  BY <1>1, <1>7 DEF QueueInv, UnspawnedIsOut
<1>9. ASSUME NEW t \in Tasks
      PROVE  Count(t) = Count(t)' + (IF t = h[1] THEN 1 ELSE 0) /\ Count(t)' \in Nat
  <2> DEFINE x == <<t, FALSE>>
             A == Occurrences(t, next_task) + Occurrences(t, queue) + Occurrences(t, remote_queue)
             c == Cardinality(Pushers(t))
             d == IF t = h[1] THEN 1 ELSE 0
             b == Occurrences(x, Tail(sb))
  <2>1. A \in Nat /\ c \in Nat
    <3>1. /\ Occurrences(t, next_task) \in Nat /\ Occurrences(t, queue) \in Nat
          /\ Occurrences(t, remote_queue) \in Nat /\ Occurrences(<<t, FALSE>>, sb) \in Nat
          /\ Cardinality(Pushers(t)) \in Nat
      BY Zenon, <1>6, CountType
    <3> QED
      BY <3>1
  <2>2. x = h <=> t = h[1]
    <3>1. CASE t = h[1]
      BY Zenon, <1>4, <3>1
    <3>2. CASE t # h[1]
      <4>1. x[1] = t
        OBVIOUS
      <4> QED
        BY Zenon, <3>2, <4>1
    <3> QED
      BY Zenon, <3>1, <3>2
  <2> HIDE DEF x
  <2>3. b \in Nat /\ Occurrences(x, sb) = b + (IF h = x THEN 1 ELSE 0)
    BY <1>1, <1>2, OccTail DEF h
  <2>4. Occurrences(x, sb) = b + d /\ d \in Nat
    BY <2>2, <2>3
  <2>5. Pushers(t)' = Pushers(t)
    BY SMTT(60), <1>1 DEF Pushers
  <2>6. Count(t) = A + (b + d) + c /\ Count(t)' = A + b + c
    BY <1>1, <2>4, <2>5 DEF Count, x
  <2> HIDE DEF A, b, c, d
  <2>7. Count(t) = Count(t)' + d /\ Count(t)' \in Nat
    BY SMTT(60), <2>1, <2>3, <2>4, <2>6
  <2> QED
    BY <2>7 DEF d
<1>10. CountsOnce'
  <2> SUFFICES ASSUME NEW t \in Tasks
               PROVE  Count(t)' = IF queued'[t] THEN 1 ELSE 0
    BY DEF CountsOnce
  <2>1. Count(t) = IF queued[t] THEN 1 ELSE 0
    BY DEF QueueInv, CountsOnce
  <2>2. CASE t = h[1]
    BY SMTT(60), <1>7, <1>9, <2>1, <2>2
  <2>3. CASE t # h[1]
    BY <1>7, <1>9, <2>1, <2>3
  <2> QED
    BY <2>2, <2>3
<1> QED
  BY <1>5, <1>6, <1>8, <1>10 DEF QueueInv

(* A thread that wakes a task and finds its flag set leaves it where it    *)
(* is; one that finds it clear is the only one about to push it.           *)
LEMMA RemoteSwapKeeps ==
  ASSUME TypeOK, QueueInv, NEW w \in Threads, NEW f \in Tasks, RemoteSwapQueued(w, f)
  PROVE  QueueInv'
<1>1. /\ tpc[w] = "idle" /\ slot[f] # "none"
      /\ queued' = [queued EXCEPT ![f] = TRUE]
      /\ tpc' = [tpc EXCEPT ![w] = IF queued[f] THEN "load" ELSE "push"]
      /\ target' = [target EXCEPT ![w] = IF queued[f] THEN Root ELSE f]
      /\ woken' = [woken EXCEPT ![f] = TRUE]
      /\ UNCHANGED <<batch, sb, next_task, queue, remote_queue, slot, ready, rb>>
  BY SMTT(60) DEF RemoteSwapQueued, HasWaker, schedVars, flagVars
<1>2. /\ queued'[f] /\ woken'[Root] = woken[Root]
      /\ \A t \in Tasks : t # f => queued'[t] = queued[t] /\ woken'[t] = woken[t]
  BY Zenon, <1>1, ExecutorAssumption DEF TypeOK, Futures
<1>3. \A t \in Tasks :
        Pushers(t)' = IF ~queued[f] /\ t = f THEN Pushers(t) \cup {w} ELSE Pushers(t)
  BY <1>1, ExecutorAssumption DEF Pushers, TypeOK
<1>4. StoresClear' /\ UnspawnedIsOut'
  BY <1>1, <1>2 DEF QueueInv, StoresClear, UnspawnedIsOut
<1>5. FewPush'
  <2>1. \A t \in Tasks : IsFiniteSet(Pushers(t)) /\ IsFiniteSet(Pushers(t) \cup {w})
    BY FS_AddElement DEF QueueInv, FewPush
  <2> QED
    BY Zenon, <1>3, <2>1 DEF FewPush
<1>6. CountsOnce'
  <2> SUFFICES ASSUME NEW t \in Tasks
               PROVE  Count(t)' = IF queued'[t] THEN 1 ELSE 0
    BY DEF CountsOnce
  <2>1. Count(t) = IF queued[t] THEN 1 ELSE 0
    BY DEF QueueInv, CountsOnce
  <2>2. CASE queued[f] \/ t # f
    <3>1. Pushers(t)' = Pushers(t)
      BY <1>3, <2>2
    <3>2. Count(t)' = Count(t)
      BY <1>1, <3>1 DEF Count
    <3>3. queued'[t] <=> queued[t]
      BY SMTT(60), <1>2, <2>2
    <3> QED
      BY <2>1, <3>2, <3>3
  <2>3. CASE ~queued[f] /\ t = f
    <3>1. FewPush
      BY DEF QueueInv
    <3>2. /\ Occurrences(t, next_task) \in Nat /\ Occurrences(t, queue) \in Nat
          /\ Occurrences(t, remote_queue) \in Nat /\ Occurrences(<<t, FALSE>>, sb) \in Nat
          /\ Cardinality(Pushers(t)) \in Nat
      BY Zenon, <3>1, CountType
    <3>3. Cardinality(Pushers(t)') = Cardinality(Pushers(t)) + 1
      <4>1. w \notin Pushers(t)
        BY <1>1 DEF Pushers
      <4>2. IsFiniteSet(Pushers(t))
        BY <3>1 DEF FewPush
      <4>3. Cardinality(Pushers(t) \cup {w}) = Cardinality(Pushers(t)) + 1
        BY ZenonT(60), <4>1, <4>2, FS_AddElement
      <4> QED
        BY <1>3, <2>3, <4>3
    <3>4. Count(t)' = Count(t) + 1
      BY <1>1, <3>2, <3>3 DEF Count
    <3> QED
      BY <1>2, <2>1, <2>3, <3>4
  <2> QED
    BY <2>2, <2>3
<1>7. WakeIsPending'
  <2> DEFINE Pending(t) == t \in Members(batch) \cup Members(next_task) \cup Members(queue)
                                   \cup Members(remote_queue)
  <2>1. ASSUME NEW t \in Tasks, t # f, woken'[t]
        PROVE  Pending(t) \/ Pushers(t)' # {}
    BY <1>2, <1>3, <2>1 DEF QueueInv, WakeIsPending, Pushers
  <2>2. Pending(f) \/ Pushers(f)' # {}
    <3>1. CASE queued[f]
      <4>1. <<f, FALSE>> \in Members(sb) => f \in Members(batch)
        BY DEF QueueInv, StoresClear
      <4>2. Pending(f) \/ Pushers(f) # {}
        BY Zenon, <3>1, <4>1, QueuedIsSomewhere DEF Pushers
      <4> QED
        BY <1>3, <3>1, <4>2
    <3>2. CASE ~queued[f]
      BY <1>3, <3>2
    <3> QED
      BY <3>1, <3>2
  <2>3. \A t \in Tasks : woken'[t] => Pending(t) \/ Pushers(t)' # {}
    BY <2>1, <2>2
  <2>4. woken'[Root] => ready' \/ \E u \in Threads : rb'[u]
    BY <1>1, <1>2 DEF QueueInv, WakeIsPending
  <2> QED
    BY <1>1, <2>3, <2>4 DEF WakeIsPending, Pushers
<1> QED
  BY SMTT(60), <1>4, <1>5, <1>6, <1>7 DEF QueueInv

(* The push: the task goes from the thread to the remote queue.            *)
LEMMA RemotePushKeeps ==
  ASSUME TypeOK, QueueInv, NEW w \in Threads, RemotePush(w)
  PROVE  QueueInv'
<1> DEFINE f == target[w]
<1>1. /\ tpc[w] = "push" /\ f \in Tasks
      /\ remote_queue' = Append(remote_queue, f)
      /\ tpc' = [tpc EXCEPT ![w] = "load"]
      /\ target' = [target EXCEPT ![w] = Root]
      /\ UNCHANGED <<batch, sb, next_task, queue, queued, slot, ready, rb, woken>>
  BY DEF RemotePush, TypeOK, schedVars, flagVars
<1>2. Members(remote_queue') = Members(remote_queue) \cup {f}
  <2>1. remote_queue \in Seq(Tasks)
    BY DEF TypeOK
  <2> HIDE DEF f
  <2>2. Members(Append(remote_queue, f)) = Members(remote_queue) \cup {f}
    BY SMTT(60), <1>1, <2>1, OccAppend
  <2> QED
    BY <1>1, <2>2
<1>3. \A t \in Tasks : Pushers(t)' = Pushers(t) \ {w}
  BY SMTT(60), <1>1, ExecutorAssumption DEF Pushers, TypeOK
<1>4. \A t \in Tasks : w \in Pushers(t) <=> t = f
  BY <1>1 DEF Pushers
<1>5. FewPush /\ FewPush'
  <2>1. \A t \in Tasks : IsFiniteSet(Pushers(t)) /\ IsFiniteSet(Pushers(t) \ {w})
    BY FS_RemoveElement DEF QueueInv, FewPush
  <2> QED
    BY <1>3, <2>1 DEF FewPush
<1>6. StoresClear' /\ UnspawnedIsOut'
  BY <1>1 DEF QueueInv, StoresClear, UnspawnedIsOut
<1> HIDE DEF f
<1>7. ASSUME NEW t \in Tasks PROVE Count(t)' = Count(t)
  <2> DEFINE A == Occurrences(t, next_task) + Occurrences(t, queue)
             r == Occurrences(t, remote_queue)
             b == Occurrences(<<t, FALSE>>, sb)
             c == Cardinality(Pushers(t))
             d == IF f = t THEN 1 ELSE 0
  <2>1. A \in Nat /\ r \in Nat /\ b \in Nat /\ c \in Nat /\ d \in Nat
    <3>1. /\ Occurrences(t, next_task) \in Nat /\ Occurrences(t, queue) \in Nat
          /\ Occurrences(t, remote_queue) \in Nat /\ Occurrences(<<t, FALSE>>, sb) \in Nat
          /\ Cardinality(Pushers(t)) \in Nat
      BY Zenon, <1>5, CountType
    <3> QED
      BY <3>1
  <2>2. Occurrences(t, remote_queue') = r + d
    <3>1. remote_queue \in Seq(Tasks)
      BY DEF TypeOK
    <3>2. Occurrences(t, Append(remote_queue, f)) = r + d
      BY <1>1, <3>1, OccAppend
    <3> QED
      BY <1>1, <3>2
  <2>3. Cardinality(Pushers(t)') = c - d
    <3>1. IsFiniteSet(Pushers(t))
      BY <1>5 DEF FewPush
    <3>2. Cardinality(Pushers(t) \ {w}) = IF w \in Pushers(t) THEN c - 1 ELSE c
      BY <3>1, FS_RemoveElement
    <3>3. Pushers(t)' = Pushers(t) \ {w} /\ (w \in Pushers(t) <=> f = t)
      BY <1>3, <1>4
    <3>4. Cardinality(Pushers(t)') = IF f = t THEN c - 1 ELSE c
      BY SMTT(60), <3>2, <3>3
    <3> HIDE DEF c
    <3> QED
      BY <2>1, <3>4
  <2>4. Count(t) = A + r + b + c /\ Count(t)' = A + (r + d) + b + (c - d)
    BY SMTT(60), <1>1, <2>2, <2>3 DEF Count
  <2> HIDE DEF A, r, b, c, d
  <2> QED
    BY <2>1, <2>4
<1>8. CountsOnce'
  BY SMTT(60), <1>1, <1>7 DEF QueueInv, CountsOnce
<1>9. WakeIsPending'
  <2>1. ASSUME NEW t \in Tasks, woken[t]
        PROVE  \/ t \in Members(batch) \cup Members(next_task) \cup Members(queue)
                          \cup Members(remote_queue')
               \/ Pushers(t)' # {}
    <3>1. \/ t \in Members(batch) \cup Members(next_task) \cup Members(queue)
                     \cup Members(remote_queue)
          \/ Pushers(t) # {}
      BY SMTT(60), <2>1 DEF QueueInv, WakeIsPending, Pushers
    <3> QED
      BY SMTT(60), <1>2, <1>3, <1>4, <3>1
  <2>2. woken[Root] => ready' \/ \E u \in Threads : rb'[u]
    BY Zenon, <1>1 DEF QueueInv, WakeIsPending
  <2> QED
    BY SMTT(60), <1>1, <2>1, <2>2 DEF WakeIsPending, Pushers
<1> QED
  BY SMTT(60), <1>5, <1>6, <1>8, <1>9 DEF QueueInv

(* A wake of the root is not forgotten: it is in BlockOnNotify::ready, or  *)
(* in the store buffer of the thread that made it.                         *)
LEMMA RootWakeKeeps ==
  ASSUME TypeOK, QueueInv,
         TakeReady \/ \E w \in Threads : RemoteWakeRoot(w) \/ DrainReady(w)
  PROVE  QueueInv'
<1>1. /\ UNCHANGED <<batch, sb, next_task, queue, remote_queue, queued, slot, target>>
      /\ \A t \in Tasks : woken'[t] = woken[t]
  BY ZenonT(60), ExecutorAssumption
     DEF TakeReady, RemoteWakeRoot, DrainReady, schedVars, queueVars, threadVars, TypeOK, Futures
<1>2. \A t \in Tasks : Pushers(t)' = Pushers(t)
  BY DEF TakeReady, RemoteWakeRoot, DrainReady, threadVars, TypeOK, Pushers
<1>3. woken'[Root] => ready' \/ \E u \in Threads : rb'[u]
  <2>1. CASE TakeReady
    <3>1. /\ ready => woken' = [woken EXCEPT ![Root] = FALSE]
          /\ ~ready => woken' = woken
          /\ rb' = rb
      BY <2>1 DEF TakeReady, threadVars
    <3>2. ready => ~woken'[Root]
      BY SMTT(60), <3>1 DEF TypeOK, Futures
    <3> QED
      BY <3>1, <3>2 DEF QueueInv, WakeIsPending
  <2>2. CASE \E w \in Threads : RemoteWakeRoot(w)
    BY <2>2 DEF RemoteWakeRoot, TypeOK
  <2>3. CASE \E w \in Threads : DrainReady(w)
    BY <2>3 DEF DrainReady
  <2> QED
    BY SMTT(60), <2>1, <2>2, <2>3
<1>4. StoresClear' /\ UnspawnedIsOut' /\ FewPush'
  BY <1>1, <1>2 DEF QueueInv, StoresClear, UnspawnedIsOut, FewPush
<1>5. CountsOnce'
  <2>1. \A t \in Tasks : Count(t)' = Count(t)
    BY SMTT(60), <1>1, <1>2 DEF Count
  <2> QED
    BY SMTT(60), <1>1, <2>1 DEF QueueInv, CountsOnce
<1>6. WakeIsPending'
  <2>1. ASSUME NEW t \in Tasks, woken'[t]
        PROVE  \/ t \in Members(batch) \cup Members(next_task) \cup Members(queue)
                          \cup Members(remote_queue)
               \/ Pushers(t)' # {}
    BY SMTT(60), <1>1, <1>2, <2>1 DEF QueueInv, WakeIsPending, Pushers
  <2> QED
    BY SMTT(60), <1>1, <1>3, <2>1 DEF WakeIsPending, Pushers
<1> QED
  BY SMTT(60), <1>4, <1>5, <1>6 DEF QueueInv

-----------------------------------------------------------------------------
(* The whole.                                                              *)

LEMMA BatchPhaseStep == TypeOK /\ BatchPhase /\ [Next]_vars => BatchPhase'
<1> SUFFICES ASSUME TypeOK, BatchPhase, [Next]_vars PROVE BatchPhase'
  BY SMTT(60)
<1> USE DEF BatchPhase, schedVars, queueVars, flagVars, threadVars, Goto
<1>1. CASE Environment
  BY <1>1 DEF Environment, PollWakes, Spawn, SubmitIo, IoCompletes, WaitTimesOut, WaitEnds
<1>2. CASE PollEnds
  BY SMTT(60), <1>2 DEF PollEnds, PollPending, PollReady
<1>3. CASE TakeReady \/ SpinTimer \/ IdleCheck \/ ResetPending \/ SetWaiting \/ RecheckReady
             \/ RecheckQueues \/ SpinBeforeWait \/ WaitReturns \/ WaitSubmits \/ DeliverWait
             \/ StopWaiting \/ Flush \/ DeliverFlush
  BY Zenon, <1>3 DEF TakeReady, SpinTimer, IdleCheck, ResetPending, SetWaiting, RecheckReady,
              RecheckQueues, SpinBeforeWait, WaitReturns, WaitEnds, WaitSubmits, DeliverWait,
              StopWaiting, Flush, DeliverFlush, Deliver
<1>4. CASE DrainNext \/ DrainRemote \/ DrainMain
  BY <1>4 DEF DrainNext, DrainRemote, DrainMain
<1>5. CASE NextOfBatch
  <2>1. CASE batch = <<>>
    BY <1>5, <2>1 DEF NextOfBatch
  <2>2. CASE batch # <<>>
    <3>1. Head(batch) # Root
      BY SMTT(60), <2>2, ExecutorAssumption DEF TypeOK
    <3> QED
      BY SMTT(60), <1>5, <2>2, <3>1 DEF NextOfBatch
  <2> QED
    BY <2>1, <2>2
<1>6. CASE DrainStore
  BY SMTT(60), <1>6 DEF DrainStore
<1>7. CASE \E w \in Threads : StartWake(w) \/ FinishWake(w) \/ DrainReady(w)
  BY <1>7 DEF StartWake, FinishWake, RemoteSwapQueued, RemoteWakeRoot, RemotePush,
              RemoteLoadWaiting, RemoteSwapPending, RemoteInterrupt, DrainReady
<1>8. CASE UNCHANGED vars
  BY SMTT(60), <1>8 DEF vars
<1> QED
  BY SMTT(60), <1>1, <1>2, <1>3, <1>4, <1>5, <1>6, <1>7, <1>8 DEF Next, Scheduler

LEMMA QueueInvStep ==
  ASSUME TypeOK, TypeOK', BatchPhase, QueueInv, [Next]_vars
  PROVE  QueueInv'
<1> USE DEF schedVars, queueVars, flagVars, threadVars
<1>1. CASE \/ SubmitIo \/ IoCompletes \/ WaitEnds \/ PollEnds \/ IdleCheck \/ RecheckReady
           \/ RecheckQueues \/ WaitSubmits \/ Flush
           \/ NextOfBatch /\ batch = <<>>
           \/ UNCHANGED vars
  <2>1. UNCHANGED <<batch, sb, next_task, queue, remote_queue, queued, woken, tpc, target, ready,
                    rb>>
    BY ZenonT(60), <1>1 DEF SubmitIo, IoCompletes, WaitEnds, PollEnds, PollPending, PollReady, IdleCheck,
                RecheckReady, RecheckQueues, WaitSubmits, Flush, NextOfBatch, vars
  <2>2. \A t \in Tasks : slot'[t] = "none" => slot[t] = "none"
    BY Zenon, <1>1 DEF SubmitIo, IoCompletes, WaitEnds, PollEnds, PollPending, PollReady, IdleCheck,
                RecheckReady, RecheckQueues, WaitSubmits, Flush, NextOfBatch, vars, TypeOK
  <2> QED
    BY SMTT(60), <2>1, <2>2, NothingMoves DEF Pushers
<1>2. CASE \E w \in Threads : RemoteLoadWaiting(w) \/ RemoteSwapPending(w) \/ RemoteInterrupt(w)
  <2>1. UNCHANGED <<batch, sb, next_task, queue, remote_queue, queued, woken, slot, target, ready,
                    rb>>
    BY ZenonT(60), <1>2 DEF RemoteLoadWaiting, RemoteSwapPending, RemoteInterrupt
  <2>2. \A t \in Tasks : Pushers(t)' = Pushers(t)
    BY <1>2 DEF RemoteLoadWaiting, RemoteSwapPending, RemoteInterrupt, Pushers, TypeOK
  <2> QED
    BY SMTT(60), <2>1, <2>2, NothingMoves
<1>3. CASE PollWakes \/ SpinTimer \/ SpinBeforeWait \/ DeliverWait \/ DeliverFlush
  <2>1. batch' = batch
    BY ZenonT(60), <1>3 DEF PollWakes, SpinTimer, SpinBeforeWait, DeliverWait, DeliverFlush, Deliver,
                BatchPhase
  <2>2. UNCHANGED <<sb, remote_queue, slot, tpc, target, rb>>
    BY <1>3 DEF PollWakes, SpinTimer, SpinBeforeWait, DeliverWait, DeliverFlush, Deliver
  <2>3. (\E f \in Futures : LocalWake(f)) \/ NoLocalWake
    <3>1. CASE PollWakes
      <4>1. PICK f \in Wakes[current] : LocalWake(f)
        BY SMTT(60), <3>1 DEF PollWakes
      <4>2. f \in Futures
        BY SMTT(60), ExecutorAssumption DEF TypeOK
      <4> QED
        BY SMTT(60), <4>1, <4>2
    <3>2. CASE SpinTimer \/ SpinBeforeWait
      BY SMTT(60), <3>2, ExecutorAssumption DEF SpinTimer, SpinBeforeWait
    <3>3. CASE DeliverWait \/ DeliverFlush
      BY <3>3 DEF DeliverWait, DeliverFlush, Deliver
    <3> QED
      BY SMTT(60), <1>3, <3>1, <3>2, <3>3
  <2>4. CASE \E f \in Futures : LocalWake(f)
    BY SMTT(60), <2>1, <2>2, <2>4, LocalWakeKeeps
  <2>5. CASE NoLocalWake
    BY SMTT(60), <2>1, <2>2, <2>5, NothingMoves DEF NoLocalWake, Pushers
  <2> QED
    BY SMTT(60), <2>3, <2>4, <2>5
<1>4. CASE ResetPending \/ SetWaiting \/ StopWaiting
  <2>1. \E f \in {"waiting", "pending"}, v \in BOOLEAN : Store(f, v)
    BY Zenon, <1>4 DEF ResetPending, SetWaiting, StopWaiting
  <2>2. UNCHANGED <<batch, next_task, queue, remote_queue, queued, slot, tpc, target, woken,
                    ready, rb>>
    BY Zenon, <1>4 DEF ResetPending, SetWaiting, StopWaiting
  <2> QED
    BY SMTT(60), <2>1, <2>2, FlagStoreKeeps
<1>5. CASE \E t \in Tasks : Spawn(t)
  BY <1>5, SpawnKeeps
<1>6. CASE DrainNext \/ DrainRemote \/ DrainMain
  BY <1>6, DrainKeeps
<1>7. CASE NextOfBatch /\ batch # <<>>
  BY <1>7, NextOfBatchKeeps
<1>8. CASE DrainStore
  BY <1>8, DrainStoreKeeps
<1>9. CASE \E w \in Threads : \/ \E t \in Tasks : RemoteSwapQueued(w, t)
                              \/ RemotePush(w)
  BY <1>9, RemoteSwapKeeps, RemotePushKeeps
<1>10. CASE TakeReady \/ \E w \in Threads : RemoteWakeRoot(w) \/ DrainReady(w)
  BY SMTT(60), <1>10, RootWakeKeeps
<1> QED
  BY SMTT(60), <1>1, <1>2, <1>3, <1>4, <1>5, <1>6, <1>7, <1>8, <1>9, <1>10
     DEF Next, Environment, WaitTimesOut, Scheduler, WaitReturns, StartWake, FinishWake

LEMMA QueueInvInit == Init => BatchPhase /\ QueueInv
<1> SUFFICES ASSUME Init PROVE BatchPhase /\ QueueInv
  OBVIOUS
<1>1. /\ batch = <<>> /\ next_task = <<>> /\ queue = <<>> /\ remote_queue = <<>> /\ sb = <<>>
      /\ ready = TRUE
      /\ \A t \in Tasks : ~queued[t] /\ ~woken[t]
      /\ \A w \in Threads : tpc[w] = "idle"
  BY DEF Init, Futures
<1>2. \A t \in Tasks : Pushers(t) = {}
  BY <1>1 DEF Pushers
<1>3. \A x : Occurrences(x, <<>>) = 0 /\ Members(<<>>) = {}
  <2>1. ASSUME NEW x PROVE {i \in 1..Len(<<>>) : <<>>[i] = x} = {}
    OBVIOUS
  <2> QED
    BY <2>1, FS_EmptySet DEF Occurrences, Members
<1>4. FewPush /\ CountsOnce
  <2>1. IsFiniteSet({}) /\ Cardinality({}) = 0
    BY FS_EmptySet
  <2>2. ASSUME NEW t \in Tasks PROVE Count(t) = 0
    <3>1. /\ Occurrences(t, next_task) = 0 /\ Occurrences(t, queue) = 0
          /\ Occurrences(t, remote_queue) = 0 /\ Occurrences(<<t, FALSE>>, sb) = 0
          /\ Cardinality(Pushers(t)) = 0
      BY <1>1, <1>2, <1>3, <2>1, Zenon
    <3> QED
      BY <3>1 DEF Count
  <2> QED
    BY Zenon, <1>1, <1>2, <2>1, <2>2 DEF FewPush, CountsOnce
<1> QED
  BY <1>1, <1>3, <1>4 DEF BatchPhase, QueueInv, StoresClear, UnspawnedIsOut, WakeIsPending

(* Task::queued and the queues agree, and no wake is swallowed, for every  *)
(* set of tasks and threads and with either kind of memory: the plain      *)
(* store of mark_dequeued is safe, since the batch is polled only after a  *)
(* locked instruction.                                                     *)
THEOREM WakesAreQueuedOnce == Spec => []WokenIsQueuedOnce
<1>1. QueueInv => WokenIsQueuedOnce
  <2> SUFFICES ASSUME QueueInv PROVE WokenIsQueuedOnce
    OBVIOUS
  <2>1. QueuedOnce
    BY Zenon DEF QueueInv, CountsOnce, Count, Pushers, QueuedOnce
  <2> QED
    BY <2>1 DEF QueueInv, WokenIsQueuedOnce
<1>2. TypeOK /\ TypeOK' /\ BatchPhase /\ QueueInv /\ [Next]_vars => BatchPhase' /\ QueueInv'
  BY BatchPhaseStep, QueueInvStep
<1> QED
  BY <1>1, <1>2, QueueInvInit, TypeCorrect, PTL DEF Spec
=============================================================================
