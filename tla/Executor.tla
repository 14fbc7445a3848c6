------------------------------ MODULE Executor ------------------------------
(***************************************************************************)
(* The scheduler of zincio: Runtime::block_on and RuntimeInner of          *)
(* executor.rs, Task of task.rs, and the wakers both hand out.             *)
(*                                                                         *)
(* One thread runs block_on.  It polls the root future when its notify is  *)
(* ready, drains the three ready queues into a batch, polls the batch, and *)
(* parks in Driver::wait when there is nothing to do.  Any other thread    *)
(* may hold wakers and wake a task or the root at any moment.  A step of   *)
(* this module is one access to memory that another thread can see, so     *)
(* the interleavings are those of the atomics in the code; whatever only   *)
(* the scheduler thread sees is folded into the neighbouring step.         *)
(*                                                                         *)
(* StoreBuffer says how the plain stores of the code behave.  FALSE: they  *)
(* take effect at once (sequential consistency).  TRUE: a Release store is *)
(* a plain move on x86, so it sits in the store buffer of its thread until *)
(* it drains, while later loads of that thread already execute; a locked   *)
(* instruction (swap, queue push or pop) waits until the buffer is empty.  *)
(***************************************************************************)
EXTENDS Naturals, Sequences, FiniteSets

CONSTANTS
  Tasks,         \* the tasks that may be spawned
  Root,          \* the future given to block_on
  Threads,       \* the other threads, which hold wakers
  NextCap,       \* NEXT_TASK_INLINE_CAP
  BatchSize,     \* RuntimeInner::batch_size
  Wakes,         \* Wakes[f]: the futures that a poll of f may wake
  RemoteTargets, \* the futures the other threads may wake
  TimerTargets,  \* the futures that timers may wake
  IoFutures,     \* the futures that do I/O
  Driver,        \* "mio" or "uring": what the driver's should_flush says
  StoreBuffer    \* whether plain stores are delayed

Futures == Tasks \cup {Root}

ASSUME ExecutorAssumption ==
  /\ Root \notin Tasks
  /\ {"waiting", "pending"} \cap Tasks = {}
  /\ NextCap \in Nat
  /\ BatchSize \in Nat
  /\ Wakes \in [Futures -> SUBSET Futures]
  /\ RemoteTargets \subseteq Futures
  /\ TimerTargets \subseteq Futures
  /\ IoFutures \subseteq Futures
  /\ Driver \in {"mio", "uring"}
  /\ StoreBuffer \in BOOLEAN

VARIABLES
  pc,                \* where block_on is
  current,           \* the future being polled, Root when none
  batch,             \* the tasks drained and not polled yet
  next_task,         \* the inline fast-path queue
  queue,             \* the main queue
  remote_queue,      \* the SegQueue other threads push to
  queued,            \* Task::queued
  slot,              \* Task::future: "none" before the spawn, "some", "taken" when it is done
  ready,             \* BlockOnNotify::ready
  waiting,           \* RuntimeInner::waiting, as the other threads see it
  interrupt_pending, \* RuntimeInner::interrupt_pending, as they see it
  sb,                \* the store buffer of the scheduler thread; <<t, FALSE>> is t's queued flag
  interrupted,       \* an Interruptor::interrupt the driver has not consumed
  io,                \* io[f]: the state of the I/O operation f waits for
  tpc,               \* where each other thread is in its wake call
  target,            \* the task it is about to push, Root when none
  rb,                \* its store ready := true has not drained yet
  woken              \* history: a wake of f since its last poll began

schedVars == <<pc, current, batch, sb>>
queueVars == <<next_task, queue, remote_queue, queued, slot>>
flagVars  == <<ready, waiting, interrupt_pending, interrupted>>
threadVars == <<tpc, target, rb>>
vars == <<schedVars, queueVars, flagVars, io, threadVars, woken>>

Members(s) == {s[i] : i \in 1..Len(s)}

PCs == {"root", "poll", "timer", "drainNext", "drainRemote", "drainMain",
        "idle", "reset", "setWaiting", "recheckReady", "recheckQueues",
        "spin", "wait", "deliver", "stop", "stop2", "batch", "flush",
        "flushDeliver", "returned"}

\* A store in the buffer: the flag and its value.
BufferedStore == ({"waiting", "pending"} \cup Tasks) \X BOOLEAN

TypeOK ==
  /\ pc \in PCs
  /\ current \in Futures
  /\ batch \in Seq(Tasks)
  /\ next_task \in Seq(Tasks)
  /\ queue \in Seq(Tasks)
  /\ remote_queue \in Seq(Tasks)
  /\ queued \in [Tasks -> BOOLEAN]
  /\ slot \in [Tasks -> {"none", "some", "taken"}]
  /\ ready \in BOOLEAN
  /\ waiting \in BOOLEAN
  /\ interrupt_pending \in BOOLEAN
  /\ sb \in Seq(BufferedStore)
  /\ interrupted \in BOOLEAN
  /\ io \in [Futures -> {"none", "sq", "inflight", "ready", "event"}]
  /\ tpc \in [Threads -> {"idle", "push", "load", "swap", "interrupt"}]
  /\ target \in [Threads -> Futures]
  /\ \A w \in Threads : tpc[w] = "push" => target[w] \in Tasks
  /\ rb \in [Threads -> BOOLEAN]
  /\ woken \in [Futures -> BOOLEAN]

Init ==
  /\ pc = "root"
  /\ current = Root
  /\ batch = <<>>
  /\ next_task = <<>>
  /\ queue = <<>>
  /\ remote_queue = <<>>
  /\ queued = [t \in Tasks |-> FALSE]
  /\ slot = [t \in Tasks |-> "none"]
  /\ ready = TRUE
  /\ waiting = FALSE
  /\ interrupt_pending = FALSE
  /\ sb = <<>>
  /\ interrupted = FALSE
  /\ io = [f \in Futures |-> "none"]
  /\ tpc = [w \in Threads |-> "idle"]
  /\ target = [w \in Threads |-> Root]
  /\ rb = [w \in Threads |-> FALSE]
  /\ woken = [f \in Futures |-> FALSE]

-----------------------------------------------------------------------------
(* Wakes on the scheduler thread.                                          *)

Goto(p) == pc' = p

Drained == sb = <<>>

\* A waker exists from the first poll on: the root's, or a spawned task's.
HasWaker(f) == f \in Tasks => slot[f] # "none"

\* BlockOnNotify::wake_by_ref on the scheduler thread: no interrupt.
LocalWakeRoot ==
  /\ ready' = TRUE
  /\ UNCHANGED <<next_task, queue, queued>>

\* The same-thread half of Task::enqueue_if_needed.
LocalEnqueue(t) ==
  /\ Drained
  /\ UNCHANGED ready
  /\ IF queued[t]
       THEN UNCHANGED <<next_task, queue, queued>>
       ELSE /\ queued' = [queued EXCEPT ![t] = TRUE]
            /\ IF Len(next_task) < NextCap
                 THEN next_task' = Append(next_task, t) /\ UNCHANGED queue
                 ELSE queue' = Append(queue, t) /\ UNCHANGED next_task

LocalWake(f) ==
  /\ HasWaker(f)
  /\ woken' = [woken EXCEPT ![f] = TRUE]
  /\ IF f = Root THEN LocalWakeRoot ELSE LocalEnqueue(f)

NoLocalWake == UNCHANGED <<ready, next_task, queue, queued, woken>>

-----------------------------------------------------------------------------
(* Polling: the root first, then every task of the batch.                  *)

\* Top of the loop: take_ready, and the poll of the root when it was set.
TakeReady ==
  /\ pc = "root"
  /\ Drained
  /\ ready' = FALSE
  /\ IF ready
       THEN Goto("poll") /\ woken' = [woken EXCEPT ![Root] = FALSE]
       ELSE Goto("timer") /\ UNCHANGED woken
  /\ UNCHANGED <<current, batch, sb, queueVars, waiting, interrupt_pending, interrupted, io, threadVars>>

\* What a poll may do: wake a future it holds a waker of ...
PollWakes ==
  /\ pc = "poll"
  /\ \E f \in Wakes[current] : LocalWake(f)
  /\ UNCHANGED <<schedVars, remote_queue, slot, waiting, interrupt_pending,
                 interrupted, io, threadVars>>

\* ... spawn a task: RuntimeInner::spawn and spawn_detached, with enqueue ...
Spawn(t) ==
  /\ pc = "poll"
  /\ slot[t] = "none"
  /\ slot' = [slot EXCEPT ![t] = "some"]
  /\ queued' = [queued EXCEPT ![t] = TRUE]
  /\ queue' = Append(queue, t)
  /\ woken' = [woken EXCEPT ![t] = TRUE]
  /\ UNCHANGED <<schedVars, next_task, remote_queue, flagVars, io, threadVars>>

\* ... or start an I/O operation: io_uring only queues the entry (push_entry).
SubmitIo ==
  /\ pc = "poll"
  /\ current \in IoFutures
  /\ io[current] = "none"
  /\ io' = [io EXCEPT ![current] = IF Driver = "uring" THEN "sq" ELSE "inflight"]
  /\ UNCHANGED <<schedVars, queueVars, flagVars, threadVars, woken>>

PollPending ==
  /\ pc = "poll"
  /\ Goto(IF current = Root THEN "timer" ELSE "batch")
  /\ current' = Root
  /\ UNCHANGED <<batch, sb, queueVars, flagVars, io, threadVars, woken>>

PollReady ==
  /\ pc = "poll"
  /\ IF current = Root
       THEN Goto("returned") /\ UNCHANGED slot
       ELSE Goto("batch") /\ slot' = [slot EXCEPT ![current] = "taken"]
  /\ current' = Root
  /\ UNCHANGED <<batch, sb, next_task, queue, remote_queue, queued,
                 flagVars, io, threadVars, woken>>

\* The next task of the batch; its slot is empty when it completed before.
\* The Arc operations of Task::waker and of the drop are locked instructions.
NextOfBatch ==
  /\ pc = "batch"
  /\ IF batch = <<>>
       THEN Goto("flush") /\ UNCHANGED <<current, batch, woken>>
       ELSE /\ Drained
            /\ batch' = Tail(batch)
            /\ woken' = [woken EXCEPT ![Head(batch)] = FALSE]
            /\ IF slot[Head(batch)] = "some"
                 THEN current' = Head(batch) /\ Goto("poll")
                 ELSE UNCHANGED <<pc, current>>
  /\ UNCHANGED <<sb, queueVars, flagVars, io, threadVars>>

-----------------------------------------------------------------------------
(* Draining the ready queues: next_task, then remote_queue, then queue,    *)
(* until the budget is spent.  A pop and its mark_dequeued are one step:   *)
(* other threads only push, and the flag is all that they see.  Popping    *)
(* remote_queue, or finding it empty, waits for the store buffer.          *)

SpinTimer ==
  /\ pc = "timer"
  /\ \/ \E f \in TimerTargets : LocalWake(f)
     \/ NoLocalWake
  /\ batch' = <<>>
  /\ Goto("drainNext")
  /\ UNCHANGED <<current, sb, remote_queue, slot, waiting, interrupt_pending,
                 interrupted, io, threadVars>>

\* Mutant: mark_dequeued is forgotten.
Pop_NotMarked(q) ==
  /\ batch' = Append(batch, Head(q))
  /\ UNCHANGED <<queued, sb>>

Pop(q) ==
  /\ batch' = Append(batch, Head(q))
  /\ IF StoreBuffer
       THEN sb' = Append(sb, <<Head(q), FALSE>>) /\ UNCHANGED queued
       ELSE queued' = [queued EXCEPT ![Head(q)] = FALSE] /\ UNCHANGED sb

DrainNext ==
  /\ pc = "drainNext"
  /\ IF Len(batch) < BatchSize /\ next_task # <<>>
       THEN Pop(next_task) /\ next_task' = Tail(next_task) /\ UNCHANGED pc
       ELSE Goto("drainRemote") /\ UNCHANGED <<batch, next_task, queued, sb>>
  /\ UNCHANGED <<current, queue, remote_queue, slot, flagVars, io, threadVars, woken>>

DrainRemote ==
  /\ pc = "drainRemote"
  /\ Len(batch) < BatchSize => Drained
  /\ IF Len(batch) < BatchSize /\ remote_queue # <<>>
       THEN Pop(remote_queue) /\ remote_queue' = Tail(remote_queue) /\ UNCHANGED pc
       ELSE Goto("drainMain") /\ UNCHANGED <<batch, remote_queue, queued, sb>>
  /\ UNCHANGED <<current, queue, next_task, slot, flagVars, io, threadVars, woken>>

DrainMain ==
  /\ pc = "drainMain"
  /\ IF Len(batch) < BatchSize /\ queue # <<>>
       THEN Pop(queue) /\ queue' = Tail(queue) /\ UNCHANGED pc
       ELSE /\ Goto(IF batch = <<>> THEN "idle" ELSE "batch")
            /\ UNCHANGED <<batch, queue, queued, sb>>
  /\ UNCHANGED <<current, next_task, remote_queue, slot, flagVars, io, threadVars, woken>>

-----------------------------------------------------------------------------
(* Parking.                                                                *)

\* A store to one of the two flags, direct or through the store buffer.
Store(flag, value) ==
  IF StoreBuffer
    THEN sb' = Append(sb, <<flag, value>>) /\ UNCHANGED <<waiting, interrupt_pending>>
    ELSE /\ UNCHANGED sb
         /\ IF flag = "waiting"
              THEN waiting' = value /\ UNCHANGED interrupt_pending
              ELSE interrupt_pending' = value /\ UNCHANGED waiting

\* The oldest buffered store of the scheduler thread becomes visible.
DrainStore ==
  /\ sb # <<>>
  /\ sb' = Tail(sb)
  /\ LET flag == Head(sb)[1]
         value == Head(sb)[2]
     IN  /\ waiting' = IF flag = "waiting" THEN value ELSE waiting
         /\ interrupt_pending' = IF flag = "pending" THEN value ELSE interrupt_pending
         /\ queued' = [t \in Tasks |-> IF flag = t THEN value ELSE queued[t]]
  /\ UNCHANGED <<pc, current, batch, next_task, queue, remote_queue, slot, ready,
                 interrupted, io, threadVars, woken>>

\* The batch came back empty.
IdleCheck ==
  /\ pc = "idle"
  /\ Goto(IF ready THEN "root" ELSE "reset")
  /\ UNCHANGED <<current, batch, sb, queueVars, flagVars, io, threadVars, woken>>

ResetPending ==
  /\ pc = "reset"
  /\ Store("pending", FALSE)
  /\ Goto("setWaiting")
  /\ UNCHANGED <<current, batch, queueVars, ready, interrupted, io, threadVars, woken>>

SetWaiting ==
  /\ pc = "setWaiting"
  /\ Store("waiting", TRUE)
  /\ Goto("recheckReady")
  /\ UNCHANGED <<current, batch, queueVars, ready, interrupted, io, threadVars, woken>>

\* Mutant: the root is not looked at again after waiting is set.
RecheckReady_Skipped ==
  /\ pc = "recheckReady"
  /\ Goto("recheckQueues")
  /\ UNCHANGED <<current, batch, sb, queueVars, flagVars, io, threadVars, woken>>

RecheckReady ==
  /\ pc = "recheckReady"
  /\ Goto(IF ready THEN "stop" ELSE "recheckQueues")
  /\ UNCHANGED <<current, batch, sb, queueVars, flagVars, io, threadVars, woken>>

should_skip_wait == next_task # <<>> \/ remote_queue # <<>> \/ queue # <<>>

RecheckQueues ==
  /\ pc = "recheckQueues"
  /\ Goto(IF should_skip_wait THEN "stop" ELSE "spin")
  /\ UNCHANGED <<current, batch, sb, queueVars, flagVars, io, threadVars, woken>>

\* Mutant: woken_up is ignored.
SpinBeforeWait_Ignored ==
  /\ pc = "spin"
  /\ Goto("wait")
  /\ (\E f \in TimerTargets : LocalWake(f)) \/ NoLocalWake
  /\ UNCHANGED <<current, batch, sb, remote_queue, slot, waiting, interrupt_pending,
                 interrupted, io, threadVars>>

\* The second spin of the timer: a wake it makes cancels the wait.
SpinBeforeWait ==
  /\ pc = "spin"
  /\ \/ Goto("stop") /\ \E f \in TimerTargets : LocalWake(f)
     \/ Goto("wait") /\ NoLocalWake
  /\ UNCHANGED <<current, batch, sb, remote_queue, slot, waiting, interrupt_pending,
                 interrupted, io, threadVars>>

\* What the driver does with its operations when it is entered: io_uring
\* submits what was queued, and every operation that is ready is an event.
EnterDriver ==
  io' = [f \in Futures |-> CASE io[f] = "sq" -> "inflight"
                             [] io[f] = "ready" -> "event"
                             [] OTHER -> io[f]]

\* Driver::wait ends: the interrupt is consumed, the ready operations become
\* events.
WaitEnds ==
  /\ pc = "wait"
  /\ interrupted' = FALSE
  /\ EnterDriver
  /\ Goto("deliver")
  /\ UNCHANGED <<current, batch, sb, queueVars, ready, waiting, interrupt_pending,
                 threadVars, woken>>

\* It must end when there is an interrupt or a ready operation ...
WaitReturns ==
  /\ interrupted \/ \E f \in Futures : io[f] = "ready"
  /\ WaitEnds

\* ... it may end at the deadline of the next timer, or spuriously ...
WaitTimesOut == WaitEnds

\* ... and otherwise io_uring has submitted its queue and waits on.
WaitSubmits ==
  /\ pc = "wait"
  /\ \E f \in Futures : io[f] = "sq"
  /\ io' = [f \in Futures |-> IF io[f] = "sq" THEN "inflight" ELSE io[f]]
  /\ UNCHANGED <<schedVars, queueVars, flagVars, threadVars, woken>>

\* The driver wakes the waiters of its events, on the scheduler thread.
Deliver(from, to) ==
  /\ pc = from
  /\ IF \E f \in Futures : io[f] = "event"
       THEN /\ UNCHANGED pc
            /\ \E f \in Futures : /\ io[f] = "event"
                                  /\ io' = [io EXCEPT ![f] = "none"]
                                  /\ LocalWake(f)
       ELSE /\ Goto(to)
            /\ UNCHANGED io
            /\ NoLocalWake
  /\ UNCHANGED <<current, batch, sb, remote_queue, slot, waiting, interrupt_pending,
                 interrupted, threadVars>>

DeliverWait == Deliver("deliver", "stop")
DeliverFlush == Deliver("flushDeliver", "root")

\* stop_waiting: two stores.
StopWaiting ==
  /\ \/ pc = "stop" /\ Store("waiting", FALSE) /\ Goto("stop2")
     \/ pc = "stop2" /\ Store("pending", FALSE) /\ Goto("root")
  /\ UNCHANGED <<current, batch, queueVars, ready, interrupted, io, threadVars, woken>>

\* Mutant: every driver answers as io_uring does.
should_flush_Submissions == \E f \in Futures : io[f] = "sq"

\* MioDriver: somebody waits.  UringDriver: entries are not submitted yet.
should_flush ==
  \E f \in Futures : IF Driver = "uring" THEN io[f] = "sq" ELSE io[f] # "none"

\* After the batch: flush the driver unless the loop is about to wait anyway.
Flush ==
  /\ pc = "flush"
  /\ IF should_flush /\ should_skip_wait
       THEN EnterDriver /\ interrupted' \in {interrupted, FALSE} /\ Goto("flushDeliver")
       ELSE Goto("root") /\ UNCHANGED <<io, interrupted>>
  /\ UNCHANGED <<current, batch, sb, queueVars, ready, waiting, interrupt_pending,
                 threadVars, woken>>

\* The kernel finishes an operation.
IoCompletes ==
  /\ \E f \in Futures : io[f] = "inflight" /\ io' = [io EXCEPT ![f] = "ready"]
  /\ UNCHANGED <<schedVars, queueVars, flagVars, threadVars, woken>>

-----------------------------------------------------------------------------
(* Wakes from another thread w.                                            *)

\* Task::enqueue_if_needed, first step: queued.swap(true).
RemoteSwapQueued(w, t) ==
  /\ tpc[w] = "idle"
  /\ ~rb[w]
  /\ HasWaker(t)
  /\ queued' = [queued EXCEPT ![t] = TRUE]
  /\ tpc' = [tpc EXCEPT ![w] = IF queued[t] THEN "load" ELSE "push"]
  /\ target' = [target EXCEPT ![w] = IF queued[t] THEN Root ELSE t]
  /\ woken' = [woken EXCEPT ![t] = TRUE]
  /\ UNCHANGED <<schedVars, next_task, queue, remote_queue, slot, flagVars, io, rb>>

\* The swap found false: the task goes to remote_queue.
RemotePush(w) ==
  /\ tpc[w] = "push"
  /\ remote_queue' = Append(remote_queue, target[w])
  /\ tpc' = [tpc EXCEPT ![w] = "load"]
  /\ target' = [target EXCEPT ![w] = Root]
  /\ UNCHANGED <<schedVars, next_task, queue, queued, slot, flagVars, io, rb, woken>>

\* BlockOnNotify::wake_by_ref on another thread: ready.store(true).
RemoteWakeRoot(w) ==
  /\ tpc[w] = "idle"
  /\ tpc' = [tpc EXCEPT ![w] = "load"]
  /\ woken' = [woken EXCEPT ![Root] = TRUE]
  /\ IF StoreBuffer
       THEN rb' = [rb EXCEPT ![w] = TRUE] /\ UNCHANGED ready
       ELSE ready' = TRUE /\ UNCHANGED rb
  /\ UNCHANGED <<schedVars, queueVars, waiting, interrupt_pending, interrupted, io, target>>

DrainReady(w) ==
  /\ rb[w]
  /\ rb' = [rb EXCEPT ![w] = FALSE]
  /\ ready' = TRUE
  /\ UNCHANGED <<schedVars, queueVars, waiting, interrupt_pending, interrupted, io,
                 tpc, target, woken>>

\* Both kinds of wake end with the same three steps: waiting.load ...
RemoteLoadWaiting(w) ==
  /\ tpc[w] = "load"
  /\ tpc' = [tpc EXCEPT ![w] = IF waiting THEN "swap" ELSE "idle"]
  /\ UNCHANGED <<schedVars, queueVars, flagVars, io, target, rb, woken>>

\* ... interrupt_pending.swap(true) ...
RemoteSwapPending(w) ==
  /\ tpc[w] = "swap"
  /\ ~rb[w]
  /\ interrupt_pending' = TRUE
  /\ tpc' = [tpc EXCEPT ![w] = IF interrupt_pending THEN "idle" ELSE "interrupt"]
  /\ UNCHANGED <<schedVars, queueVars, ready, waiting, interrupted, io, target, rb, woken>>

\* ... and Interruptor::interrupt, which the driver keeps until it waits.
RemoteInterrupt(w) ==
  /\ tpc[w] = "interrupt"
  /\ interrupted' = TRUE
  /\ tpc' = [tpc EXCEPT ![w] = "idle"]
  /\ UNCHANGED <<schedVars, queueVars, ready, waiting, interrupt_pending, io, target, rb, woken>>

-----------------------------------------------------------------------------
(* The specification.                                                      *)

Environment == PollWakes \/ (\E t \in Tasks : Spawn(t)) \/ SubmitIo \/ IoCompletes \/ WaitTimesOut

PollEnds == PollPending \/ PollReady

Scheduler ==
  \/ TakeReady \/ NextOfBatch
  \/ SpinTimer \/ DrainNext \/ DrainRemote \/ DrainMain
  \/ IdleCheck \/ ResetPending \/ SetWaiting \/ RecheckReady \/ RecheckQueues
  \/ SpinBeforeWait \/ WaitReturns \/ WaitSubmits \/ DeliverWait \/ StopWaiting
  \/ Flush \/ DeliverFlush

StartWake(w) ==
  \/ \E t \in RemoteTargets \cap Tasks : RemoteSwapQueued(w, t)
  \/ Root \in RemoteTargets /\ RemoteWakeRoot(w)

FinishWake(w) ==
  RemotePush(w) \/ RemoteLoadWaiting(w) \/ RemoteSwapPending(w) \/ RemoteInterrupt(w)

Next ==
  \/ Environment \/ PollEnds \/ Scheduler \/ DrainStore
  \/ \E w \in Threads : StartWake(w) \/ FinishWake(w) \/ DrainReady(w)

Spec == Init /\ [][Next]_vars

(* The scheduler thread keeps running, a poll returns, a wake call that    *)
(* has begun is finished, and a buffered store drains.  Nothing says that  *)
(* an operation completes, a timer expires or another wake is made.        *)
Fairness ==
  /\ WF_vars(Scheduler)
  /\ WF_vars(PollEnds)
  /\ WF_vars(DrainStore)
  /\ \A w \in Threads : WF_vars(FinishWake(w)) /\ WF_vars(DrainReady(w))

FairSpec == Spec /\ Fairness

(* The other threads and the timers stop making wakes at some point, while *)
(* tasks may go on waking themselves and each other for ever.              *)
OthersPause ==
  <>[][/\ \A w \in Threads : tpc[w] = "idle" => tpc'[w] = "idle"
       /\ pc \in {"timer", "spin"} => UNCHANGED woken]_vars

PausingSpec == FairSpec /\ OthersPause

-----------------------------------------------------------------------------
(* Properties.                                                             *)

(* The lost wakeup: while block_on is parked in Driver::wait and a task is *)
(* queued or the root is ready, an interrupt has reached the driver or a   *)
(* thread is still on its way to send one (task.rs 112: "Interrupt the     *)
(* driver if it's waiting").                                               *)
NoLostWakeup ==
  pc = "wait" /\ (ready \/ should_skip_wait)
    => \/ interrupted
       \/ \E w \in Threads : tpc[w] \in {"load", "swap", "interrupt"}

InterruptComing == interrupted \/ \E w \in Threads : tpc[w] = "interrupt"
WakerChecking == \E w \in Threads : tpc[w] \in {"load", "swap"}

(* Why no wakeup is lost when plain stores take effect at once: from the   *)
(* store waiting := true on the flag is visible, a set interrupt_pending   *)
(* means that its interrupt is sent or being sent, and what arrives after  *)
(* block_on looked for it (is_ready, then should_skip_wait) comes from a   *)
(* thread that has yet to look at waiting or that set interrupt_pending.   *)
ParkProtocol ==
  /\ pc \in {"recheckReady", "recheckQueues", "spin", "wait"} => waiting
  /\ pc \in {"setWaiting", "recheckReady", "recheckQueues", "spin", "wait"}
       => (interrupt_pending => InterruptComing)
  /\ pc \in {"recheckQueues", "spin", "wait"} /\ ready
       => InterruptComing \/ interrupt_pending \/ WakerChecking
  /\ pc \in {"spin", "wait"} => next_task = <<>> /\ queue = <<>>
  /\ pc \in {"spin", "wait"} /\ remote_queue # <<>>
       => InterruptComing \/ interrupt_pending \/ WakerChecking

(* A wake is never swallowed by a stale Task::queued flag: from the wake   *)
(* to the start of the next poll, the task is in a queue or in the batch,  *)
(* or the thread that found the flag clear is about to push it.            *)
WakeIsPending ==
  /\ \A t \in Tasks : woken[t] =>
       \/ t \in Members(batch) \cup Members(next_task) \cup Members(queue)
                  \cup Members(remote_queue)
       \/ \E w \in Threads : tpc[w] = "push" /\ target[w] = t
  /\ woken[Root] => ready \/ \E w \in Threads : rb[w]

Occurrences(t, s) == Cardinality({i \in 1..Len(s) : s[i] = t})

(* Task::queued tells the truth: it is set exactly when the task occurs    *)
(* once in one of the three queues or is being pushed by one thread (or    *)
(* the store that clears it is not visible yet), and so no task is ever    *)
(* queued twice.                                                           *)
QueuedOnce ==
  \A t \in Tasks :
    Occurrences(t, next_task) + Occurrences(t, queue) + Occurrences(t, remote_queue)
      + Occurrences(<<t, FALSE>>, sb)
      + Cardinality({w \in Threads : tpc[w] = "push" /\ target[w] = t})
    = IF queued[t] THEN 1 ELSE 0

(* Every wake is followed by a poll (or block_on returns): nobody who was  *)
(* woken is left in a queue for ever.                                      *)
WokenIsPolled ==
  \A f \in Futures : woken[f] ~> (~woken[f] \/ pc = "returned")

(* An operation that the kernel has finished is delivered to its waiter    *)
(* (or block_on returns): ready tasks do not keep the driver from running. *)
IoIsDelivered ==
  \A f \in Futures : io[f] = "ready" ~> (io[f] # "ready" \/ pc = "returned")

(* A task that was woken is queued, and queued once: the flag Task::queued *)
(* and the queues agree in both directions.                                *)
WokenIsQueuedOnce == WakeIsPending /\ QueuedOnce
=============================================================================
