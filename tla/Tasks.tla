-------------------------------- MODULE Tasks ---------------------------------
(***************************************************************************)
(* Spawned tasks and those who wait for them: spawn, spawn_detached,       *)
(* JoinHandle (executor.rs), the blocking pool a task hands its work to    *)
(* (blocking/mod.rs, blocking/default.rs) and Timeout (time/timeout.rs).   *)
(*                                                                         *)
(* A task of this model is `spawn_blocking(f).await`.  A joiner is another *)
(* task; it awaits the JoinHandle, alone or in a Timeout, and may give it  *)
(* to the other joiner between two polls.  Joiners and tasks are polled by *)
(* one thread (module Executor): `woken` is who will be polled.  The jobs  *)
(* run on the threads of the pool.                                         *)
(***************************************************************************)
EXTENDS Naturals, FiniteSets

CONSTANTS
  Spawned,   \* the tasks that can be spawned
  Joiners,   \* the tasks that spawn them and await them
  NoOne      \* no waker, no owner, no output

ASSUME TasksAssumption ==
  /\ Spawned \cap Joiners = {}
  /\ NoOne \notin Joiners \cup Spawned \cup {"ok", "err", "timeout"}

VARIABLES
  inner,     \* SpawnFuture::future: "unborn", "new", "waiting", "gone"
  join,      \* its JoinState: output, waker and canceled
  job,       \* what spawn_blocking boxed: "none", "queued", "running", "hung",
             \* "sent", "lost" (the sender was dropped)
  rx_waker,  \* tasks whose waker is in the receiver of their job
  owner,     \* who has the JoinHandle
  waiting,   \* whether the last poll of the handle was by its owner, and pending
  timed,     \* handles in a Timeout
  due,       \* timeouts whose duration has passed
  timer,     \* who a Timeout's Sleep wakes
  result,    \* what the await of the handle gave: "ok", "err", "timeout"
  woken      \* tasks and joiners that are queued to be polled

vars == <<inner, join, job, rx_waker, owner, waiting, timed, due, timer, result, woken>>

Init ==
  /\ inner = [s \in Spawned |-> "unborn"]
  /\ join = [s \in Spawned |-> [output |-> NoOne, waker |-> NoOne, canceled |-> FALSE]]
  /\ job = [s \in Spawned |-> "none"]
  /\ rx_waker = {}
  /\ owner = [s \in Spawned |-> NoOne]
  /\ waiting = {}
  /\ timed = {}
  /\ due = {}
  /\ timer = [s \in Spawned |-> NoOne]
  /\ result = [s \in Spawned |-> NoOne]
  /\ woken = {}

Wakes(W) == woken' = woken \cup (W \ {NoOne})

-----------------------------------------------------------------------------
(* Spawning.                                                               *)

\* A joiner awaits one handle at a time.
Free(j) == \A s \in Spawned : owner[s] # j

\* RuntimeInner::spawn: the task is queued, the caller has the handle and is
\* about to await it.
spawn(s, j) ==
  /\ inner[s] = "unborn" /\ Free(j)
  /\ inner' = [inner EXCEPT ![s] = "new"]
  /\ owner' = [owner EXCEPT ![s] = j]
  /\ Wakes({s, j})
  /\ UNCHANGED <<join, job, rx_waker, waiting, timed, due, timer, result>>

\* RuntimeInner::spawn_detached: no JoinState and no handle.
spawn_detached(s) ==
  /\ inner[s] = "unborn"
  /\ inner' = [inner EXCEPT ![s] = "new"]
  /\ Wakes({s})
  /\ UNCHANGED <<join, job, rx_waker, owner, waiting, timed, due, timer, result>>

\* Timeout::new around a handle that was not polled.
Timeout_new(s) ==
  /\ owner[s] # NoOne /\ s \notin timed \cup waiting /\ result[s] = NoOne
  /\ timed' = timed \cup {s}
  /\ UNCHANGED <<inner, join, job, rx_waker, owner, waiting, due, timer, result, woken>>

-----------------------------------------------------------------------------
(* The pool.  Its jobs outlive the futures that wait for them.             *)

\* What the receiver finds.
Received(s) == CASE job[s] = "sent" -> "ok" [] job[s] = "lost" -> "err" [] OTHER -> NoOne

WakesReceiver(s) ==
  /\ rx_waker' = rx_waker \ {s}
  /\ woken' = IF s \in rx_waker THEN woken \cup {s} ELSE woken

\* A thread of the pool takes the job.
JobRuns(s) ==
  /\ job[s] = "queued"
  /\ job' = [job EXCEPT ![s] = "running"]
  /\ UNCHANGED <<inner, join, rx_waker, owner, waiting, timed, due, timer, result, woken>>

\* f() returned and its result is sent.  Nobody may be there to receive it.
JobSends(s) ==
  /\ job[s] = "running"
  /\ job' = [job EXCEPT ![s] = "sent"]
  /\ WakesReceiver(s)
  /\ UNCHANGED <<inner, join, owner, waiting, timed, due, timer, result>>

\* f() panics, or the pool drops a job it never ran: the sender is dropped.
JobLost(s) ==
  /\ job[s] \in {"queued", "running"}
  /\ job' = [job EXCEPT ![s] = "lost"]
  /\ WakesReceiver(s)
  /\ UNCHANGED <<inner, join, owner, waiting, timed, due, timer, result>>

\* f() never returns.
JobHangs(s) ==
  /\ job[s] = "running"
  /\ job' = [job EXCEPT ![s] = "hung"]
  /\ UNCHANGED <<inner, join, rx_waker, owner, waiting, timed, due, timer, result, woken>>

-----------------------------------------------------------------------------
(* Polling a task.                                                         *)

\* spawn_blocking up to its await: the job is handed to the pool.
SubmitsJob(s) ==
  /\ inner[s] = "new"
  /\ inner' = [inner EXCEPT ![s] = "waiting"]
  /\ job' = [job EXCEPT ![s] = "queued"]
  /\ rx_waker' = rx_waker \cup {s}
  /\ woken' = woken \ {s}
  /\ UNCHANGED join

\* rx.await without an answer.
AwaitsJob(s) ==
  /\ inner[s] = "waiting" /\ Received(s) = NoOne
  /\ rx_waker' = rx_waker \cup {s}
  /\ woken' = woken \ {s}
  /\ UNCHANGED <<inner, join, job>>

\* The future is ready: SpawnFuture::poll stores the output and wakes the
\* joiner, and the executor drops the future.
StoresOutput(s) ==
  /\ inner[s] = "waiting" /\ Received(s) # NoOne
  /\ inner' = [inner EXCEPT ![s] = "gone"]
  /\ join' = [join EXCEPT ![s] = [@ EXCEPT !.output = Received(s), !.waker = NoOne]]
  /\ woken' = (woken \ {s}) \cup ({join[s].waker} \ {NoOne})
  /\ UNCHANGED <<job, rx_waker>>

\* Mutant: poll does not look at `canceled`.
SpawnFuture_poll_blind(s) ==
  /\ s \in woken
  /\ \/ SubmitsJob(s)
     \/ AwaitsJob(s)
     \/ StoresOutput(s)
     \/ inner[s] = "gone" /\ woken' = woken \ {s} /\ UNCHANGED <<inner, join, job, rx_waker>>
  /\ UNCHANGED <<owner, waiting, timed, due, timer, result>>

\* SpawnFuture::poll, and DetachedFuture::poll for a task whose JoinState
\* nobody looks at.  The future of a canceled task is dropped by the executor
\* without being polled, and its receiver with it; a task whose future is gone
\* is not polled.
SpawnFuture_poll(s) ==
  /\ s \in woken
  /\ \/ ~join[s].canceled /\ SubmitsJob(s)
     \/ ~join[s].canceled /\ AwaitsJob(s)
     \/ ~join[s].canceled /\ StoresOutput(s)
     \/ /\ join[s].canceled \/ inner[s] = "gone"
        /\ inner' = [inner EXCEPT ![s] = "gone"]
        /\ rx_waker' = rx_waker \ {s}
        /\ woken' = woken \ {s}
        /\ UNCHANGED <<join, job>>
  /\ UNCHANGED <<owner, waiting, timed, due, timer, result>>

-----------------------------------------------------------------------------
(* Polling a handle.                                                       *)

\* Mutant: a waker that is there is kept.
update_waker_slot_once(slot, w) == IF slot = NoOne THEN w ELSE slot

\* update_waker_slot: the last waker counts.
update_waker_slot(slot, w) == IF slot = w THEN slot ELSE w

\* The await is over, and the handle is dropped.
Answers(s, r) ==
  /\ result' = [result EXCEPT ![s] = r]
  /\ owner' = [owner EXCEPT ![s] = NoOne]
  /\ waiting' = waiting \ {s}
  /\ woken' = woken \ {owner[s]}

\* JoinHandle::poll takes the output ...
TakesOutput(s) ==
  /\ join[s].output # NoOne
  /\ join' = [join EXCEPT ![s].output = NoOne]
  /\ Answers(s, join[s].output)
  /\ UNCHANGED timer

\* ... or leaves the waker of its task.
Waits(s) ==
  /\ join[s].output = NoOne
  /\ join' = [join EXCEPT ![s].waker = update_waker_slot(@, owner[s])]
  /\ waiting' = waiting \cup {s}
  /\ woken' = woken \ {owner[s]}
  /\ UNCHANGED <<owner, result>>

\* JoinHandle::poll, awaited by itself.
JoinHandle_poll(s) ==
  /\ owner[s] \in woken /\ s \notin timed
  /\ TakesOutput(s) \/ (Waits(s) /\ UNCHANGED timer)
  /\ UNCHANGED <<inner, job, rx_waker, timed, due>>

\* The Sleep of a Timeout has nothing to wait for.
TimesOut(s) ==
  /\ s \in due
  /\ Answers(s, "timeout")
  /\ timer' = [timer EXCEPT ![s] = NoOne]

\* Mutant: the sleep is polled once only, as if its waker would follow.
Timeout_poll_once(s) ==
  /\ owner[s] \in woken /\ s \in timed
  /\ \/ TakesOutput(s)
     \/ /\ join[s].output = NoOne /\ TimesOut(s)
        /\ join' = [join EXCEPT ![s].waker = update_waker_slot(@, owner[s])]
     \/ /\ s \notin due /\ Waits(s)
        /\ timer' = [timer EXCEPT ![s] = update_waker_slot_once(@, owner[s])]
  /\ UNCHANGED <<inner, job, rx_waker, timed, due>>

\* Timeout::poll around a JoinHandle: the inner future is polled first, then
\* the Sleep, whose waker follows the last poll (module Timer).  The Timeout
\* is dropped with what it holds once it is ready.
Timeout_poll(s) ==
  /\ owner[s] \in woken /\ s \in timed
  /\ \/ TakesOutput(s)
     \/ /\ join[s].output = NoOne /\ TimesOut(s)
        /\ join' = [join EXCEPT ![s].waker = update_waker_slot(@, owner[s])]
     \/ s \notin due /\ Waits(s) /\ timer' = [timer EXCEPT ![s] = owner[s]]
  /\ UNCHANGED <<inner, job, rx_waker, timed, due>>

\* A joiner with nothing to await is polled and has other things to do.
JoinerIdles(j) ==
  /\ j \in woken /\ Free(j)
  /\ woken' = woken \ {j}
  /\ UNCHANGED <<inner, join, job, rx_waker, owner, waiting, timed, due, timer, result>>

\* The duration of a Timeout passes; the timer wakes who polled it last.
Expires(s) ==
  /\ s \in timed \ due /\ result[s] = NoOne
  /\ due' = due \cup {s}
  /\ Wakes({timer[s]})
  /\ timer' = [timer EXCEPT ![s] = NoOne]
  /\ UNCHANGED <<inner, join, job, rx_waker, owner, waiting, timed, result>>

\* The future that awaits the handle is given to the other joiner, who polls it.
Moves(s, j) ==
  /\ owner[s] # NoOne /\ Free(j)
  /\ owner' = [owner EXCEPT ![s] = j]
  /\ waiting' = waiting \ {s}
  /\ Wakes({j})
  /\ UNCHANGED <<inner, join, job, rx_waker, timed, due, timer, result>>

\* JoinHandle::cancel: a flag, which the task finds when it is polled next.
cancel(s) ==
  /\ owner[s] # NoOne /\ s \notin timed
  /\ join' = [join EXCEPT ![s].canceled = TRUE]
  /\ owner' = [owner EXCEPT ![s] = NoOne]
  /\ waiting' = waiting \ {s}
  /\ UNCHANGED <<inner, job, rx_waker, timed, due, timer, result, woken>>

\* The handle, or the Timeout with it, is dropped: the task goes on.
DropsHandle(s) ==
  /\ owner[s] # NoOne
  /\ owner' = [owner EXCEPT ![s] = NoOne]
  /\ waiting' = waiting \ {s}
  /\ timer' = [timer EXCEPT ![s] = NoOne]
  /\ UNCHANGED <<inner, join, job, rx_waker, timed, due, result, woken>>

\* Something else wakes a task or a joiner.
SpuriousWake(t) ==
  /\ t \notin woken
  /\ t \in Spawned => inner[t] \notin {"unborn", "gone"}
  /\ Wakes({t})
  /\ UNCHANGED <<inner, join, job, rx_waker, owner, waiting, timed, due, timer, result>>

Polls ==
  \/ \E s \in Spawned : SpawnFuture_poll(s) \/ JoinHandle_poll(s) \/ Timeout_poll(s)
  \/ \E j \in Joiners : JoinerIdles(j)

Next ==
  \/ Polls
  \/ \E s \in Spawned, j \in Joiners : spawn(s, j) \/ Moves(s, j)
  \/ \E s \in Spawned :
       \/ spawn_detached(s) \/ Timeout_new(s)
       \/ JobRuns(s) \/ JobSends(s) \/ JobLost(s) \/ JobHangs(s)
       \/ Expires(s) \/ cancel(s) \/ DropsHandle(s)
  \/ \E t \in Spawned \cup Joiners : SpuriousWake(t)

\* Who is queued is polled (module Executor), the timer fires (module Timer),
\* and the pool runs its jobs; a job that does not hang ends.
Fairness ==
  /\ \A s \in Spawned :
       /\ WF_vars(SpawnFuture_poll(s))
       /\ WF_vars(JoinHandle_poll(s)) /\ WF_vars(Timeout_poll(s))
       /\ WF_vars(JobRuns(s)) /\ WF_vars(JobSends(s)) /\ WF_vars(Expires(s))

Spec == Init /\ [][Next]_vars /\ Fairness

-----------------------------------------------------------------------------
(* Whoever polled a JoinHandle last, and found nothing, is queued as soon  *)
(* as the output is there, also when the handle went from one joiner to    *)
(* another and when only the Timeout around it is polled.  The same for a  *)
(* Timeout that is due.                                                    *)
JoinedIsWoken ==
  \A s \in waiting : join[s].output # NoOne \/ s \in due => owner[s] \in woken

(* A Timeout reports that it timed out only when its duration has passed   *)
(* and the task, polled before the clock was looked at, had no output: a   *)
(* result that is there is never thrown away for a timeout.                *)
TimeoutIsTruthful ==
  [][\A s \in Spawned : result'[s] = "timeout" /\ result[s] = NoOne
       => s \in due /\ join[s].output = NoOne]_vars

(* A task is not resumed after JoinHandle::cancel: its future is not       *)
(* polled again, so it hands no work to the pool and stores no output,     *)
(* whatever wakes it and whatever had been queued before.                  *)
CanceledNotResumed ==
  [][\A s \in Spawned : join[s].canceled
       => /\ inner'[s] \in {inner[s], "gone"}
          /\ job[s] = "none" => job'[s] = "none"
          /\ join'[s].output \in {join[s].output, NoOne}]_vars

(* Every await of a handle ends: with the output of the task, also if its  *)
(* job panicked or was refused, or with the timeout if there is one, also  *)
(* if the job never returns - unless the handle is dropped or cancelled.   *)
JoinIsAnswered ==
  \A s \in Spawned :
    owner[s] # NoOne ~> (owner[s] = NoOne \/ (job[s] = "hung" /\ s \notin timed))

(* Neither a timeout nor a cancel goes against the task: the two action    *)
(* properties above of Timeout::poll and SpawnFuture::poll.                *)
PollsRespectHandle == TimeoutIsTruthful /\ CanceledNotResumed
=============================================================================
