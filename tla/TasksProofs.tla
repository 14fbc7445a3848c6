---------------------------- MODULE TasksProofs -----------------------------
(***************************************************************************)
(* Proofs about module Tasks, for any number of tasks and joiners: whoever *)
(* polled a JoinHandle or a Timeout last is woken, a timeout never throws  *)
(* an output away, and a canceled task is not resumed.                     *)
(***************************************************************************)
EXTENDS Tasks, TLAPS

(* What the wakers are when nobody has been woken yet: as long as there is *)
(* no output, JoinState::waker is the one who waits; as long as a Timeout  *)
(* is not due, its Sleep has the waker of the one who waits.               *)
WakerIsOwner ==
  \A s \in waiting :
    /\ owner[s] # NoOne
    /\ join[s].output = NoOne => join[s].waker = owner[s]
    /\ s \in timed \ due => timer[s] = owner[s]

(* A joiner has one handle, so that no poll of another handle can take it  *)
(* off the queue.                                                          *)
OneHandle ==
  \A s, t \in Spawned : owner[s] = owner[t] /\ owner[s] # NoOne => s = t

(* A handle is had, and a task canceled, only after it was spawned.        *)
UnbornIsFree ==
  \A s \in Spawned : inner[s] = "unborn" => owner[s] = NoOne /\ ~join[s].canceled

Types ==
  /\ DOMAIN join = Spawned
  /\ \A s \in Spawned : /\ DOMAIN join[s] = {"output", "waker", "canceled"}
                        /\ join[s].output \in {NoOne, "ok", "err"}
                        /\ join[s].waker \in Joiners \cup {NoOne}
  /\ owner \in [Spawned -> Joiners \cup {NoOne}]
  /\ timer \in [Spawned -> Joiners \cup {NoOne}]
  /\ DOMAIN result = Spawned /\ DOMAIN inner = Spawned /\ DOMAIN job = Spawned
  /\ waiting \subseteq Spawned
  /\ due \subseteq timed
  /\ woken \subseteq Spawned \cup Joiners

IInv == Types /\ UnbornIsFree /\ WakerIsOwner /\ OneHandle /\ JoinedIsWoken

(* Nothing is spawned, owned or awaited at the start.                      *)
LEMMA InitEstablishes == Init => IInv
  BY DEF Init, IInv, Types, UnbornIsFree, WakerIsOwner, OneHandle, JoinedIsWoken

(* A step of SpawnFuture::poll takes the task off the queue and, if it     *)
(* stores the output, puts the one whose waker is there on it.             *)
LEMMA TaskPolls ==
  ASSUME IInv, NEW s \in Spawned, SpawnFuture_poll(s)
  PROVE  IInv'
<1> USE TasksAssumption DEF IInv
<1>1. Received(s) \in {NoOne, "ok", "err"}
  BY DEF Received
<1>2. Types'
  <2>1. CASE StoresOutput(s)
    <3>1. join' = [join EXCEPT ![s] = [@ EXCEPT !.output = Received(s), !.waker = NoOne]]
      BY <2>1 DEF StoresOutput
    <3>2. /\ DOMAIN join' = Spawned
          /\ \A t \in Spawned : /\ DOMAIN join'[t] = {"output", "waker", "canceled"}
                                /\ join'[t].output \in {NoOne, "ok", "err"}
                                /\ join'[t].waker \in Joiners \cup {NoOne}
      BY <1>1, <3>1 DEF Types
    <3>3. woken' \subseteq Spawned \cup Joiners
      BY <2>1 DEF StoresOutput, Types
    <3> QED
      BY <2>1, <3>2, <3>3 DEF StoresOutput, SpawnFuture_poll, Types
  <2>2. CASE ~StoresOutput(s)
    BY <2>2 DEF SpawnFuture_poll, SubmitsJob, AwaitsJob, Types
  <2> QED
    BY <2>1, <2>2
<1>3. OneHandle' /\ UnbornIsFree'
  BY DEF SpawnFuture_poll, SubmitsJob, AwaitsJob, StoresOutput, OneHandle, UnbornIsFree, Types
<1>4. CASE StoresOutput(s)
  <2>1. join' = [join EXCEPT ![s] = [@ EXCEPT !.output = Received(s), !.waker = NoOne]]
        /\ Received(s) # NoOne
        /\ woken' = (woken \ {s}) \cup ({join[s].waker} \ {NoOne})
        /\ UNCHANGED <<owner, waiting, timed, due, timer>>
    BY <1>4 DEF StoresOutput, SpawnFuture_poll
  <2>2. WakerIsOwner'
    BY <2>1 DEF WakerIsOwner, Types
  <2>3. JoinedIsWoken'
    BY <2>1 DEF WakerIsOwner, JoinedIsWoken, Types
  <2> QED
    BY <1>2, <1>3, <2>2, <2>3
<1>5. CASE ~StoresOutput(s)
  <2>1. woken' = woken \ {s} /\ UNCHANGED <<join, owner, waiting, timed, due, timer>>
    BY <1>5 DEF SpawnFuture_poll, SubmitsJob, AwaitsJob
  <2>2. WakerIsOwner'
    BY <2>1 DEF WakerIsOwner
  <2>3. JoinedIsWoken'
    BY <2>1 DEF JoinedIsWoken, Types, WakerIsOwner
  <2> QED
    BY <1>2, <1>3, <2>2, <2>3
<1> QED
  BY <1>4, <1>5

(* A poll of a handle ends the await, or leaves the waker of its owner in  *)
(* JoinState and, in a Timeout, with the Sleep.                            *)
LEMMA HandlePolls ==
  ASSUME IInv, NEW s \in Spawned, JoinHandle_poll(s) \/ Timeout_poll(s)
  PROVE  IInv'
<1> USE TasksAssumption DEF IInv
<1>0. owner[s] # NoOne
  BY DEF JoinHandle_poll, Timeout_poll, Types
<1>1. UNCHANGED <<inner, job, timed, due>>
  BY DEF JoinHandle_poll, Timeout_poll
<1>2. woken' = woken \ {owner[s]}
  BY DEF JoinHandle_poll, Timeout_poll, TakesOutput, Waits, TimesOut, Answers
<1>3. \A t \in Spawned \ {s} :
         /\ join'[t] = join[t] /\ owner'[t] = owner[t] /\ timer'[t] = timer[t]
         /\ t \in waiting' <=> t \in waiting
  BY DEF JoinHandle_poll, Timeout_poll, TakesOutput, Waits, TimesOut, Answers, Types
<1>4. Types'
  BY <1>1 DEF JoinHandle_poll, Timeout_poll, TakesOutput, Waits, TimesOut, Answers, Types,
              update_waker_slot
<1>5. owner'[s] \in {owner[s], NoOne}
  BY DEF JoinHandle_poll, Timeout_poll, TakesOutput, Waits, TimesOut, Answers, Types
<1>6. OneHandle' /\ UnbornIsFree'
  BY <1>0, <1>1, <1>3, <1>5 DEF OneHandle, UnbornIsFree
<1>7. s \in waiting' => /\ owner'[s] = owner[s] /\ owner[s] # NoOne
                        /\ join'[s].output = NoOne /\ join'[s].waker = owner[s]
                        /\ s \notin due
                        /\ s \in timed => timer'[s] = owner[s]
  <2>1. CASE s \notin timed /\ Waits(s)
    BY <1>0, <2>1 DEF Waits, Types, update_waker_slot
  <2>2. CASE s \notin due /\ Waits(s) /\ timer' = [timer EXCEPT ![s] = owner[s]]
    BY <1>0, <2>2 DEF Waits, Types, update_waker_slot
  <2>3. CASE TakesOutput(s) \/ TimesOut(s)
    BY <2>3 DEF TakesOutput, TimesOut, Answers
  <2> QED
    BY <2>1, <2>2, <2>3 DEF JoinHandle_poll, Timeout_poll
<1>8. WakerIsOwner'
  BY <1>1, <1>3, <1>4, <1>7 DEF WakerIsOwner, Types
<1>9. JoinedIsWoken'
  <2> SUFFICES ASSUME NEW t \in waiting', join'[t].output # NoOne \/ t \in due'
               PROVE  owner'[t] \in woken'
    BY DEF JoinedIsWoken
  <2>1. t # s
    BY <1>1, <1>7
  <2>2. t \in waiting /\ t \in Spawned /\ owner[t] \in woken /\ owner[t] # NoOne
    BY <1>1, <1>3, <1>4, <2>1 DEF JoinedIsWoken, WakerIsOwner, Types
  <2>3. owner[t] # owner[s]
    BY <2>1, <2>2 DEF OneHandle
  <2> QED
    BY <1>2, <1>3, <2>1, <2>2, <2>3
<1> QED
  BY <1>4, <1>6, <1>8, <1>9

(* The steps that leave who waits, and on what, alone.                     *)
LEMMA OthersPreserve ==
  ASSUME IInv,
         UNCHANGED <<join, owner, waiting, timed, due, timer, result>>,
         DOMAIN inner' = Spawned, DOMAIN job' = Spawned,
         \A s \in Spawned : inner'[s] = "unborn" => inner[s] = "unborn",
         woken' \subseteq Spawned \cup Joiners,
         \A s \in Spawned : owner[s] \in woken => owner[s] \in woken' \cup {NoOne}
  PROVE  IInv'
<1>1. Types' /\ UnbornIsFree' /\ WakerIsOwner' /\ OneHandle'
  BY DEF IInv, Types, UnbornIsFree, WakerIsOwner, OneHandle
<1>2. JoinedIsWoken'
  BY DEF IInv, Types, WakerIsOwner, JoinedIsWoken
<1> QED
  BY <1>1, <1>2 DEF IInv

(* A handle changes hands, is given up, or its time comes.                 *)
LEMMA HandleMoves ==
  ASSUME IInv, NEW s \in Spawned, NEW j \in Joiners,
         \/ spawn(s, j) \/ Moves(s, j) \/ Timeout_new(s)
         \/ Expires(s) \/ cancel(s) \/ DropsHandle(s)
  PROVE  IInv'
<1> USE TasksAssumption DEF IInv, Wakes
<1>1. OneHandle'
  BY DEF spawn, Moves, Timeout_new, Expires, cancel, DropsHandle, OneHandle, Free, Types
<1>2. UnbornIsFree'
  BY DEF spawn, Moves, Timeout_new, Expires, cancel, DropsHandle, UnbornIsFree, Types
<1>3. CASE spawn(s, j)
  <2>1. s \notin waiting
    BY <1>3 DEF spawn, UnbornIsFree, WakerIsOwner
  <2>2. Types'
    BY <1>3 DEF spawn, Types
  <2>3. WakerIsOwner'
    BY <1>3, <2>1 DEF spawn, WakerIsOwner, Types
  <2>4. JoinedIsWoken'
    BY <1>3, <2>1 DEF spawn, JoinedIsWoken, Types
  <2> QED
    BY <1>1, <1>2, <2>2, <2>3, <2>4
<1>4. CASE Moves(s, j) \/ DropsHandle(s)
  BY <1>1, <1>2, <1>4 DEF Moves, DropsHandle, WakerIsOwner, JoinedIsWoken, Types
<1>5. CASE cancel(s)
  <2>1. Types'
    BY <1>5 DEF cancel, Types
  <2> QED
    BY <1>1, <1>2, <1>5, <2>1 DEF cancel, WakerIsOwner, JoinedIsWoken, Types
<1>6. CASE Timeout_new(s)
  BY <1>1, <1>2, <1>6 DEF Timeout_new, WakerIsOwner, JoinedIsWoken, Types
<1>7. CASE Expires(s)
  BY <1>1, <1>2, <1>7 DEF Expires, WakerIsOwner, JoinedIsWoken, Types
<1> QED
  BY <1>3, <1>4, <1>5, <1>6, <1>7

(* Every step preserves the invariant.                                     *)
LEMMA NextPreserves == IInv /\ [Next]_vars => IInv'
<1> SUFFICES ASSUME IInv, [Next]_vars PROVE IInv'
  OBVIOUS
<1> USE TasksAssumption
<1>1. CASE Polls
  <2>1. CASE \E s \in Spawned : SpawnFuture_poll(s)
    BY <2>1, TaskPolls
  <2>2. CASE \E s \in Spawned : JoinHandle_poll(s) \/ Timeout_poll(s)
    BY <2>2, HandlePolls
  <2>3. ASSUME NEW j \in Joiners, JoinerIdles(j) PROVE IInv'
    BY <2>3, OthersPreserve DEF JoinerIdles, Free, IInv, Types
  <2> QED
    BY <1>1, <2>1, <2>2, <2>3 DEF Polls
<1>2. CASE \E s \in Spawned, j \in Joiners : spawn(s, j) \/ Moves(s, j)
  BY <1>2, HandleMoves
<1>3. ASSUME NEW s \in Spawned, Timeout_new(s) \/ Expires(s) \/ cancel(s) \/ DropsHandle(s)
      PROVE  IInv'
  <2>1. owner[s] # NoOne \/ Expires(s)
    BY <1>3 DEF Timeout_new, cancel, DropsHandle
  <2>2. CASE Joiners # {}
    BY <1>3, <2>2, HandleMoves
  <2>3. CASE Joiners = {}
    <3>1. Expires(s) /\ owner[s] = NoOne /\ timer[s] = NoOne
      BY <1>3, <2>1, <2>3 DEF IInv, Types
    <3> QED
      BY <3>1, <2>3 DEF Expires, Wakes, IInv, Types, UnbornIsFree, WakerIsOwner, OneHandle,
             JoinedIsWoken
  <2> QED
    BY <2>2, <2>3
<1>4. ASSUME NEW s \in Spawned,
             spawn_detached(s) \/ JobRuns(s) \/ JobSends(s) \/ JobLost(s) \/ JobHangs(s)
      PROVE  IInv'
  <2>1. UNCHANGED <<join, owner, waiting, timed, due, timer, result>>
    BY <1>4 DEF spawn_detached, JobRuns, JobSends, JobLost, JobHangs
  <2>2. /\ DOMAIN inner' = Spawned /\ DOMAIN job' = Spawned
        /\ \A t \in Spawned : inner'[t] = "unborn" => inner[t] = "unborn"
    BY <1>4 DEF spawn_detached, JobRuns, JobSends, JobLost, JobHangs, IInv, Types
  <2>3. woken' \in {woken, woken \cup {s}}
    BY <1>4 DEF spawn_detached, JobRuns, JobSends, JobLost, JobHangs, Wakes, WakesReceiver
  <2> QED
    BY <2>1, <2>2, <2>3, OthersPreserve DEF IInv, Types
<1>5. ASSUME NEW t \in Spawned \cup Joiners, SpuriousWake(t) PROVE IInv'
  BY <1>5, OthersPreserve DEF SpuriousWake, Wakes, IInv, Types
<1>6. CASE UNCHANGED vars
  BY <1>6, OthersPreserve DEF vars, IInv, Types
<1> QED
  BY <1>1, <1>2, <1>3, <1>4, <1>5, <1>6 DEF Next

(* The invariant holds in every reachable state.                           *)
LEMMA Invariance == Spec => []IInv
  BY InitEstablishes, NextPreserves, PTL DEF Spec

(* Whoever polled a JoinHandle, or a Timeout around one, last is queued as *)
(* soon as the output is there or the time has come, whatever hands the    *)
(* handle went through before.                                             *)
THEOREM JoinersAreWoken == Spec => []JoinedIsWoken
<1>1. IInv => JoinedIsWoken
  BY DEF IInv
<1> QED
  BY <1>1, Invariance, PTL

(* What one step may do to the answer of an await: it becomes "timeout"    *)
(* only by TimesOut, that is when the time has passed and there was no     *)
(* output.                                                                 *)
LEMMA StepIsTruthful ==
  ASSUME IInv, [Next]_vars, NEW s \in Spawned, result'[s] = "timeout", result[s] = NoOne
  PROVE  s \in due /\ join[s].output = NoOne
<1> USE TasksAssumption DEF IInv
<1>1. result' # result
  OBVIOUS
<1>2. PICK t \in Spawned : JoinHandle_poll(t) \/ Timeout_poll(t)
  BY Zenon, <1>1 DEF Next, Polls, vars, SpawnFuture_poll, JoinerIdles, spawn, Moves, spawn_detached,
              Timeout_new, JobRuns, JobSends, JobLost, JobHangs, Expires, cancel, DropsHandle,
              SpuriousWake
<1>3. \A r \in {"ok", "err", "timeout"} : Answers(t, r) => t = s /\ r = "timeout"
  BY DEF Answers, Types
<1>4. ~TakesOutput(t)
  BY <1>3 DEF TakesOutput, Types
<1>5. ~Waits(t)
  BY <1>1 DEF Waits
<1> QED
  BY <1>2, <1>3, <1>4, <1>5 DEF JoinHandle_poll, Timeout_poll, TimesOut

(* What one step may do to a canceled task: take its output, or drop its   *)
(* future.                                                                 *)
LEMMA StepLeavesCanceled ==
  ASSUME IInv, [Next]_vars, NEW s \in Spawned, join[s].canceled
  PROVE  /\ inner'[s] \in {inner[s], "gone"}
         /\ job[s] = "none" => job'[s] = "none"
         /\ join'[s].output \in {join[s].output, NoOne}
<1> USE DEF IInv, Types
<1>1. ASSUME NEW t \in Spawned, SpawnFuture_poll(t)
      PROVE  /\ inner'[s] \in {inner[s], "gone"}
             /\ job'[s] = job[s] /\ join'[s].output = join[s].output
  <2>1. CASE t = s
    BY <1>1, <2>1 DEF SpawnFuture_poll
  <2>2. CASE t # s
    BY <1>1, <2>2 DEF SpawnFuture_poll, SubmitsJob, AwaitsJob, StoresOutput
  <2> QED
    BY <2>1, <2>2
<1>2. ASSUME NEW t \in Spawned, JoinHandle_poll(t) \/ Timeout_poll(t)
      PROVE  /\ UNCHANGED <<inner, job>>
             /\ join'[s].output \in {join[s].output, NoOne}
  BY <1>2 DEF JoinHandle_poll, Timeout_poll, TakesOutput, Waits, TimesOut
<1>3. ASSUME NEW t \in Spawned, cancel(t)
      PROVE  UNCHANGED <<inner, job>> /\ join'[s].output = join[s].output
  BY <1>3 DEF cancel
<1>4. ASSUME NEW t \in Spawned, JobRuns(t) \/ JobSends(t) \/ JobLost(t) \/ JobHangs(t)
      PROVE  UNCHANGED <<inner, join>> /\ (job[s] = "none" => job'[s] = "none")
  BY <1>4 DEF JobRuns, JobSends, JobLost, JobHangs
<1>5. ASSUME NEW t \in Spawned,
             spawn_detached(t) \/ \E j \in Joiners : spawn(t, j)
      PROVE  UNCHANGED <<job, join>> /\ inner'[s] = inner[s]
  BY Zenon, <1>5 DEF spawn, spawn_detached, UnbornIsFree
<1>6. CASE UNCHANGED <<inner, job, join>>
  BY <1>6
<1> QED
  BY Zenon, <1>1, <1>2, <1>3, <1>4, <1>5, <1>6
     DEF Next, Polls, vars, JoinerIdles, Moves, Timeout_new, Expires, DropsHandle, SpuriousWake

(* A timeout is reported only if the time has passed and no output was     *)
(* there when the task was looked at, and a canceled task is not resumed,  *)
(* whatever wakes it.                                                      *)
THEOREM HandlesAreRespected == Spec => PollsRespectHandle
<1>1. IInv /\ [Next]_vars =>
        [\A s \in Spawned : result'[s] = "timeout" /\ result[s] = NoOne
           => s \in due /\ join[s].output = NoOne]_vars
  BY StepIsTruthful
<1>2. IInv /\ [Next]_vars =>
        [\A s \in Spawned : join[s].canceled
           => /\ inner'[s] \in {inner[s], "gone"}
              /\ job[s] = "none" => job'[s] = "none"
              /\ join'[s].output \in {join[s].output, NoOne}]_vars
  BY StepLeavesCanceled
<1> QED
  BY <1>1, <1>2, Invariance, PTL DEF Spec, PollsRespectHandle, TimeoutIsTruthful,
     CanceledNotResumed
=============================================================================
