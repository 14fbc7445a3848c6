--------------------------- MODULE ExecutorProofs ---------------------------
(***************************************************************************)
(* What TLAPS proves about Executor, for every set of tasks and threads,   *)
(* every queue capacity and batch size, and either kind of driver.         *)
(***************************************************************************)
EXTENDS Executor, SequenceTheorems, TLAPS

(* A store to a flag keeps the flags Boolean and the store buffer well     *)
(* formed, whether it is buffered or not.                                  *)
LEMMA StoreType ==
  ASSUME TypeOK, NEW f \in {"waiting", "pending"}, NEW v \in BOOLEAN, Store(f, v)
  PROVE  /\ waiting' \in BOOLEAN
         /\ interrupt_pending' \in BOOLEAN
         /\ sb' \in Seq(BufferedStore)
  <1>1. Append(sb, <<f, v>>) \in Seq(BufferedStore)
    <2>1. <<f, v>> \in BufferedStore
      BY DEF BufferedStore
    <2>2. sb \in Seq(BufferedStore)
      BY DEF TypeOK
    <2>. QED
      BY <2>1, <2>2, AppendProperties
  <1>2. /\ sb \in Seq(BufferedStore)
        /\ waiting \in BOOLEAN /\ interrupt_pending \in BOOLEAN
    BY DEF TypeOK
  <1>3. CASE StoreBuffer
    BY SMTT(60), <1>1, <1>2, <1>3 DEF Store
  <1>4. CASE ~StoreBuffer
    BY <1>2, <1>4 DEF Store
  <1>. QED
    BY <1>3, <1>4

(* A wake on the scheduler thread keeps the types of what it changes.      *)
LEMMA LocalWakeType ==
  ASSUME TypeOK, NEW f \in Futures, LocalWake(f)
  PROVE  /\ ready' \in BOOLEAN
         /\ next_task' \in Seq(Tasks)
         /\ queue' \in Seq(Tasks)
         /\ queued' \in [Tasks -> BOOLEAN]
         /\ woken' \in [Futures -> BOOLEAN]
  <1>1. woken' \in [Futures -> BOOLEAN]
    BY DEF TypeOK, LocalWake
  <1>2. CASE f = Root
    BY <1>1, <1>2 DEF TypeOK, LocalWake, LocalWakeRoot
  <1>3. CASE f # Root
    <2>1. f \in Tasks
      BY <1>3 DEF Futures
    <2>2. LocalEnqueue(f)
      BY <1>3 DEF LocalWake
    <2>3. Append(next_task, f) \in Seq(Tasks) /\ Append(queue, f) \in Seq(Tasks)
      BY <2>1, AppendProperties DEF TypeOK
    <2>. QED
      BY Zenon, <1>1, <2>1, <2>2, <2>3 DEF TypeOK, LocalEnqueue
  <1>. QED
    BY <1>2, <1>3

LEMMA NoLocalWakeType ==
  ASSUME TypeOK, NoLocalWake
  PROVE  /\ ready' \in BOOLEAN
         /\ next_task' \in Seq(Tasks)
         /\ queue' \in Seq(Tasks)
         /\ queued' \in [Tasks -> BOOLEAN]
         /\ woken' \in [Futures -> BOOLEAN]
  BY DEF TypeOK, NoLocalWake

LEMMA EnterDriverType ==
  ASSUME TypeOK, EnterDriver
  PROVE  io' \in [Futures -> {"none", "sq", "inflight", "ready", "event"}]
  <1>. SUFFICES ASSUME NEW f \in Futures
                PROVE  (CASE io[f] = "sq" -> "inflight"
                          [] io[f] = "ready" -> "event"
                          [] OTHER -> io[f]) \in {"none", "sq", "inflight", "ready", "event"}
    BY DEF EnterDriver
  <1>1. io[f] \in {"none", "sq", "inflight", "ready", "event"}
    BY DEF TypeOK
  <1>. QED
    BY <1>1

(* Popping a queue into the batch keeps all three well typed.              *)
LEMMA PopType ==
  ASSUME TypeOK, NEW q \in Seq(Tasks), q # <<>>, Pop(q)
  PROVE  /\ batch' \in Seq(Tasks)
         /\ queued' \in [Tasks -> BOOLEAN]
         /\ sb' \in Seq(BufferedStore)
         /\ Tail(q) \in Seq(Tasks)
  <1>1. Head(q) \in Tasks /\ Tail(q) \in Seq(Tasks)
    BY HeadTailProperties
  <1>2. Append(sb, <<Head(q), FALSE>>) \in Seq(BufferedStore)
    <2>1. <<Head(q), FALSE>> \in BufferedStore
      BY Zenon, <1>1 DEF BufferedStore
    <2>2. sb \in Seq(BufferedStore)
      BY DEF TypeOK
    <2>. QED
      BY <2>1, <2>2, AppendProperties
  <1>3. batch' \in Seq(Tasks)
    BY <1>1 DEF TypeOK, Pop
  <1>4. CASE StoreBuffer
    BY Zenon, <1>1, <1>2, <1>3, <1>4 DEF TypeOK, Pop
  <1>5. CASE ~StoreBuffer
    BY Zenon, <1>1, <1>3, <1>5 DEF TypeOK, Pop
  <1>. QED
    BY <1>4, <1>5

LEMMA RootInFutures == Root \in Futures /\ Tasks \subseteq Futures
  BY DEF Futures

(* Every variable keeps its type: TypeOK is preserved by every step.       *)
LEMMA TypeStep == TypeOK /\ [Next]_vars => TypeOK'
  <1>. SUFFICES ASSUME TypeOK, [Next]_vars PROVE TypeOK'
    OBVIOUS
  <1>. USE RootInFutures
  <1>1. CASE Environment
    <2>1. CASE PollWakes
      <3>1. PICK f \in Wakes[current] : LocalWake(f)
        BY <2>1 DEF PollWakes
      <3>2. f \in Futures
        BY <3>1, ExecutorAssumption DEF TypeOK
      <3>. QED
        BY <2>1, <3>1, <3>2, LocalWakeType DEF TypeOK, PollWakes, schedVars, threadVars
    <2>2. CASE \E t \in Tasks : Spawn(t)
      BY <2>2 DEF TypeOK, Spawn, schedVars, flagVars, threadVars, Futures
    <2>3. CASE SubmitIo
      BY <2>3 DEF TypeOK, SubmitIo, schedVars, queueVars, flagVars, threadVars
    <2>4. CASE IoCompletes
      BY <2>4 DEF TypeOK, IoCompletes, schedVars, queueVars, flagVars, threadVars
    <2>5. CASE WaitTimesOut
      BY Zenon, <2>5, EnterDriverType
         DEF TypeOK, WaitTimesOut, WaitEnds, Goto, PCs, queueVars, threadVars
    <2>. QED
      BY <1>1, <2>1, <2>2, <2>3, <2>4, <2>5 DEF Environment
  <1>2. CASE PollEnds
    BY <1>2 DEF TypeOK, PollEnds, PollPending, PollReady, Goto, PCs, queueVars, flagVars,
                threadVars, Futures
  <1>3. CASE Scheduler
    <2>1. CASE TakeReady
      BY Zenon, <2>1 DEF TypeOK, TakeReady, Goto, PCs, queueVars, threadVars
    <2>2. CASE NextOfBatch
      <3>1. CASE batch = <<>>
        BY <2>2, <3>1 DEF TypeOK, NextOfBatch, Goto, PCs, queueVars, flagVars, threadVars
      <3>2. CASE batch # <<>>
        <4>1. Head(batch) \in Tasks /\ Tail(batch) \in Seq(Tasks)
          BY <3>2, HeadTailProperties DEF TypeOK
        <4>. QED
          BY Zenon, <2>2, <3>2, <4>1 DEF TypeOK, NextOfBatch, Goto, PCs, queueVars, flagVars,
                                  threadVars
      <3>. QED
        BY <3>1, <3>2
    <2>3. CASE SpinTimer
      <3>1. \/ \E f \in Futures : LocalWake(f)
            \/ NoLocalWake
        BY <2>3, ExecutorAssumption DEF SpinTimer
      <3>. QED
        BY <2>3, <3>1, LocalWakeType, NoLocalWakeType
           DEF TypeOK, SpinTimer, Goto, PCs, threadVars
    <2>4. CASE DrainNext
      BY Zenon, <2>4, PopType DEF TypeOK, DrainNext, Goto, PCs, flagVars, threadVars
    <2>5. CASE DrainRemote
      BY Zenon, <2>5, PopType DEF TypeOK, DrainRemote, Goto, PCs, flagVars, threadVars
    <2>6. CASE DrainMain
      BY Zenon, <2>6, PopType DEF TypeOK, DrainMain, Goto, PCs, flagVars, threadVars
    <2>7. CASE IdleCheck \/ RecheckReady \/ RecheckQueues
      BY <2>7 DEF TypeOK, IdleCheck, RecheckReady, RecheckQueues, Goto, PCs, queueVars,
                  flagVars, threadVars
    <2>8. CASE ResetPending
      BY Zenon, <2>8, StoreType DEF TypeOK, ResetPending, Goto, PCs, queueVars, threadVars
    <2>9. CASE SetWaiting
      BY Zenon, <2>9, StoreType DEF TypeOK, SetWaiting, Goto, PCs, queueVars, threadVars
    <2>10. CASE StopWaiting
      BY Zenon, <2>10, StoreType DEF TypeOK, StopWaiting, Goto, PCs, queueVars, threadVars
    <2>11. CASE SpinBeforeWait
      <3>1. \/ \E f \in Futures : LocalWake(f)
            \/ NoLocalWake
        BY <2>11, ExecutorAssumption DEF SpinBeforeWait
      <3>2. pc' \in PCs
        BY <2>11 DEF SpinBeforeWait, Goto, PCs
      <3>. QED
        BY <2>11, <3>1, <3>2, LocalWakeType, NoLocalWakeType
           DEF TypeOK, SpinBeforeWait, threadVars
    <2>12. CASE WaitReturns
      BY Zenon, <2>12, EnterDriverType
         DEF TypeOK, WaitReturns, WaitEnds, Goto, PCs, queueVars, threadVars
    <2>13. CASE WaitSubmits
      BY <2>13 DEF TypeOK, WaitSubmits, schedVars, queueVars, flagVars, threadVars
    <2>14. ASSUME NEW p \in PCs, NEW q \in PCs, Deliver(p, q)
           PROVE  TypeOK'
      <3>1. CASE \E f \in Futures : io[f] = "event"
        <4>1. PICK f \in Futures : io' = [io EXCEPT ![f] = "none"] /\ LocalWake(f)
          BY <2>14, <3>1 DEF Deliver
        <4>. QED
          BY <2>14, <3>1, <4>1, LocalWakeType DEF TypeOK, Deliver, threadVars
      <3>2. CASE ~ \E f \in Futures : io[f] = "event"
        BY <2>14, <3>2, NoLocalWakeType DEF TypeOK, Deliver, Goto, threadVars
      <3>. QED
        BY <3>1, <3>2
    <2>15. CASE DeliverWait \/ DeliverFlush
      BY <2>14, <2>15 DEF DeliverWait, DeliverFlush, PCs
    <2>16. CASE Flush
      BY Zenon, <2>16, EnterDriverType DEF TypeOK, Flush, Goto, PCs, queueVars, threadVars
    <2>. QED
      BY <1>3, <2>1, <2>2, <2>3, <2>4, <2>5, <2>6, <2>7, <2>8, <2>9, <2>10, <2>11, <2>12,
         <2>13, <2>15, <2>16 DEF Scheduler
  <1>4. CASE DrainStore
    <2>1. Head(sb) \in BufferedStore /\ Tail(sb) \in Seq(BufferedStore)
      BY <1>4, HeadTailProperties DEF TypeOK, DrainStore
    <2>2. Head(sb)[2] \in BOOLEAN
      BY <2>1 DEF BufferedStore
    <2>3. queued' \in [Tasks -> BOOLEAN]
      BY <1>4, <2>2 DEF TypeOK, DrainStore
    <2>. QED
      BY <1>4, <2>1, <2>2, <2>3 DEF TypeOK, DrainStore, threadVars
  <1>5. ASSUME NEW w \in Threads, StartWake(w)
        PROVE  TypeOK'
    <2>1. CASE \E t \in RemoteTargets \cap Tasks : RemoteSwapQueued(w, t)
      <3>1. PICK t \in Tasks : RemoteSwapQueued(w, t)
        BY <2>1
      <3>. QED
        BY <3>1 DEF TypeOK, RemoteSwapQueued, schedVars, flagVars
    <2>2. CASE RemoteWakeRoot(w)
      BY Zenon, <2>2 DEF TypeOK, RemoteWakeRoot, schedVars, queueVars
    <2>. QED
      BY <1>5, <2>1, <2>2 DEF StartWake
  <1>6. ASSUME NEW w \in Threads, FinishWake(w)
        PROVE  TypeOK'
    <2>1. CASE RemotePush(w)
      <3>1. Append(remote_queue, target[w]) \in Seq(Tasks)
        BY <2>1, AppendProperties DEF TypeOK, RemotePush
      <3>. QED
        BY <2>1, <3>1 DEF TypeOK, RemotePush, schedVars, flagVars
    <2>2. CASE RemoteLoadWaiting(w) \/ RemoteSwapPending(w) \/ RemoteInterrupt(w)
      BY ZenonT(60), <2>2 DEF TypeOK, RemoteLoadWaiting, RemoteSwapPending, RemoteInterrupt, schedVars,
                  queueVars, flagVars
    <2>. QED
      BY <1>6, <2>1, <2>2 DEF FinishWake
  <1>7. ASSUME NEW w \in Threads, DrainReady(w)
        PROVE  TypeOK'
    BY <1>7 DEF TypeOK, DrainReady, schedVars, queueVars
  <1>8. CASE UNCHANGED vars
    BY <1>8 DEF TypeOK, vars, schedVars, queueVars, flagVars, threadVars
  <1>. QED
    BY <1>1, <1>2, <1>3, <1>4, <1>5, <1>6, <1>7, <1>8 DEF Next

(* Every reachable state of the scheduler is well typed.                   *)
THEOREM TypeCorrect == Spec => []TypeOK
  <1>1. Init => TypeOK
    <2>1. <<>> \in Seq(Tasks) /\ <<>> \in Seq(BufferedStore)
      BY EmptySeq
    <2>2. ASSUME Init
          PROVE  /\ queued \in [Tasks -> BOOLEAN]
                 /\ slot \in [Tasks -> {"none", "some", "taken"}]
                 /\ io \in [Futures -> {"none", "sq", "inflight", "ready", "event"}]
                 /\ tpc \in [Threads -> {"idle", "push", "load", "swap", "interrupt"}]
                 /\ target \in [Threads -> Futures]
                 /\ \A w \in Threads : tpc[w] # "push"
                 /\ rb \in [Threads -> BOOLEAN]
                 /\ woken \in [Futures -> BOOLEAN]
      BY <2>2, RootInFutures DEF Init
    <2>3. ASSUME Init
          PROVE  /\ pc \in PCs /\ current \in Futures
                 /\ ready \in BOOLEAN /\ waiting \in BOOLEAN
                 /\ interrupt_pending \in BOOLEAN /\ interrupted \in BOOLEAN
      BY Zenon, <2>3, RootInFutures DEF Init, PCs
    <2>4. ASSUME Init
          PROVE  /\ batch \in Seq(Tasks) /\ next_task \in Seq(Tasks)
                 /\ queue \in Seq(Tasks) /\ remote_queue \in Seq(Tasks)
                 /\ sb \in Seq(BufferedStore)
      BY <2>1, <2>4, Zenon DEF Init
    <2>. QED
      BY <2>2, <2>3, <2>4, Zenon DEF TypeOK
  <1>. QED
    BY <1>1, TypeStep, PTL DEF Spec

-----------------------------------------------------------------------------
(* The lost wakeup, when plain stores take effect at once.                 *)

NothingBuffered == sb = <<>> /\ \A w \in Threads : ~rb[w]

(* The inductive invariant behind NoLostWakeup.                            *)
ParkInv == TypeOK /\ NothingBuffered /\ ParkProtocol

(* Without a store buffer no store is ever pending.                        *)
LEMMA NothingBufferedStep ==
  ASSUME StoreBuffer = FALSE, TypeOK, NothingBuffered, [Next]_vars
  PROVE  NothingBuffered'
  <1>1. sb' = <<>>
    BY ZenonT(60) DEF NothingBuffered, Next, Environment, PollEnds, Scheduler, StartWake, FinishWake,
           PollWakes, Spawn, SubmitIo, IoCompletes, WaitTimesOut, WaitEnds, PollPending,
           PollReady, TakeReady, NextOfBatch, SpinTimer, DrainNext, DrainRemote, DrainMain,
           IdleCheck, ResetPending, SetWaiting, RecheckReady, RecheckQueues, SpinBeforeWait,
           WaitReturns, WaitSubmits, DeliverWait, Deliver, StopWaiting, Flush, DeliverFlush,
           DrainStore, Store, Pop, RemoteSwapQueued, RemoteWakeRoot, RemotePush,
           RemoteLoadWaiting, RemoteSwapPending, RemoteInterrupt, DrainReady, vars, schedVars
  <1>2. UNCHANGED rb
    BY ZenonT(60) DEF NothingBuffered, Next, Environment, PollEnds, Scheduler, StartWake, FinishWake,
           PollWakes, Spawn, SubmitIo, IoCompletes, WaitTimesOut, WaitEnds, PollPending,
           PollReady, TakeReady, NextOfBatch, SpinTimer, DrainNext, DrainRemote, DrainMain,
           IdleCheck, ResetPending, SetWaiting, RecheckReady, RecheckQueues, SpinBeforeWait,
           WaitReturns, WaitSubmits, DeliverWait, Deliver, StopWaiting, Flush, DeliverFlush,
           DrainStore, RemoteSwapQueued, RemoteWakeRoot, RemotePush,
           RemoteLoadWaiting, RemoteSwapPending, RemoteInterrupt, DrainReady, vars, threadVars
  <1>. QED
    BY <1>1, <1>2 DEF NothingBuffered

(* The steps of the scheduler thread and of the kernel keep the protocol:  *)
(* each of them leaves the parking section, or enters the next part of it  *)
(* after having looked at what that part relies on.                        *)
LEMMA ParkProtocolOwnStep ==
  ASSUME StoreBuffer = FALSE, ParkInv,
         Environment \/ PollEnds \/ Scheduler \/ DrainStore \/ UNCHANGED vars
  PROVE  ParkProtocol'
  <1>. DEFINE Parking == {"setWaiting", "recheckReady", "recheckQueues", "spin", "wait"}
  <1>0. ASSUME pc' \notin Parking PROVE ParkProtocol'
    BY <1>0 DEF ParkProtocol
  <1>. USE DEF ParkInv
  <1>1. CASE Environment
    <2>1. CASE PollWakes \/ \E t \in Tasks : Spawn(t)
      <3>. pc' = "poll"
        BY <2>1 DEF PollWakes, Spawn, schedVars
      <3>. QED
        BY <1>0
    <2>2. CASE SubmitIo \/ IoCompletes
      BY <2>2 DEF SubmitIo, IoCompletes, schedVars, queueVars, flagVars, threadVars,
                  ParkProtocol, InterruptComing, WakerChecking
    <2>3. CASE WaitTimesOut
      <3>. pc' = "deliver"
        BY <2>3 DEF WaitTimesOut, WaitEnds, Goto
      <3>. QED
        BY <1>0
    <2>. QED
      BY <1>1, <2>1, <2>2, <2>3 DEF Environment
  <1>2. CASE PollEnds
    <2>. pc' \notin Parking
      BY <1>2 DEF PollEnds, PollPending, PollReady, Goto
    <2>. QED
      BY <1>0
  <1>3. CASE Scheduler
    <2>1. CASE TakeReady \/ NextOfBatch \/ SpinTimer \/ DrainNext \/ DrainRemote \/ DrainMain
      <3>. pc' \notin Parking
        BY <2>1 DEF TakeReady, NextOfBatch, SpinTimer, DrainNext, DrainRemote, DrainMain, Goto
      <3>. QED
        BY <1>0
    <2>2. CASE IdleCheck
      <3>. pc' \notin Parking
        BY <2>2 DEF IdleCheck, Goto
      <3>. QED
        BY <1>0
    <2>3. CASE RecheckReady
      BY <2>3 DEF RecheckReady, Goto, queueVars, flagVars, threadVars,
                  ParkProtocol, InterruptComing, WakerChecking
    <2>4. CASE RecheckQueues
      BY <2>4 DEF RecheckQueues, should_skip_wait, Goto, queueVars, flagVars, threadVars,
                  ParkProtocol, InterruptComing, WakerChecking
    <2>5. CASE ResetPending
      BY <2>5 DEF ResetPending, Store, Goto, ParkProtocol
    <2>6. CASE SetWaiting
      BY <2>6 DEF SetWaiting, Store, Goto, queueVars, flagVars, threadVars,
                  ParkProtocol, InterruptComing, WakerChecking
    <2>7. CASE SpinBeforeWait
      BY <2>7 DEF SpinBeforeWait, NoLocalWake, Goto, threadVars,
                  ParkProtocol, InterruptComing, WakerChecking
    <2>8. CASE WaitReturns \/ DeliverWait \/ DeliverFlush \/ Flush \/ StopWaiting
      <3>. pc' \notin Parking
        BY ZenonT(60), <2>8 DEF WaitReturns, WaitEnds, DeliverWait, DeliverFlush, Deliver, Flush, StopWaiting,
                    Goto
      <3>. QED
        BY <1>0
    <2>9. CASE WaitSubmits
      BY <2>9 DEF WaitSubmits, schedVars, queueVars, flagVars, threadVars,
                  ParkProtocol, InterruptComing, WakerChecking
    <2>. QED
      BY <1>3, <2>1, <2>2, <2>3, <2>4, <2>5, <2>6, <2>7, <2>8, <2>9 DEF Scheduler
  <1>4. CASE DrainStore
    BY <1>4 DEF DrainStore, NothingBuffered
  <1>5. CASE UNCHANGED vars
    BY <1>5 DEF vars, schedVars, queueVars, flagVars, threadVars,
                ParkProtocol, InterruptComing, WakerChecking
  <1>. QED
    BY <1>1, <1>2, <1>3, <1>4, <1>5

(* The steps of another thread keep the protocol.                          *)
LEMMA ParkProtocolThreadStep ==
  ASSUME StoreBuffer = FALSE, ParkInv, NEW w \in Threads,
         StartWake(w) \/ FinishWake(w) \/ DrainReady(w)
  PROVE  ParkProtocol'
  <1>. USE DEF ParkInv, ParkProtocol, InterruptComing, WakerChecking, TypeOK
  <1>1. CASE StartWake(w)
    BY <1>1 DEF StartWake, RemoteSwapQueued, RemoteWakeRoot, schedVars, queueVars, flagVars
  <1>2. CASE RemotePush(w)
    BY <1>2 DEF RemotePush, schedVars, flagVars
  <1>3. CASE RemoteLoadWaiting(w)
    BY <1>3 DEF RemoteLoadWaiting, schedVars, queueVars, flagVars
  <1>4. CASE RemoteSwapPending(w)
    BY <1>4 DEF RemoteSwapPending, schedVars, queueVars
  <1>5. CASE RemoteInterrupt(w)
    BY <1>5 DEF RemoteInterrupt, schedVars, queueVars
  <1>6. CASE DrainReady(w)
    BY <1>6 DEF DrainReady, NothingBuffered
  <1>. QED
    BY <1>1, <1>2, <1>3, <1>4, <1>5, <1>6 DEF FinishWake

(* No wakeup is lost while block_on is parked, for any number of tasks and *)
(* threads, provided that a plain store is visible before the thread's     *)
(* next load executes.                                                     *)
THEOREM NoWakeupIsLost == StoreBuffer = FALSE => (Spec => []NoLostWakeup)
  <1>. SUFFICES ASSUME StoreBuffer = FALSE PROVE Spec => []NoLostWakeup
    BY Zenon
  <1>1. Init => NothingBuffered /\ ParkProtocol
    BY DEF Init, NothingBuffered, ParkProtocol
  <1>2. TypeOK /\ NothingBuffered /\ ParkProtocol /\ [Next]_vars
          => NothingBuffered' /\ ParkProtocol'
    BY Zenon, NothingBufferedStep, ParkProtocolOwnStep, ParkProtocolThreadStep DEF ParkInv, Next
  <1>3. ParkProtocol => NoLostWakeup
    BY DEF ParkProtocol, NoLostWakeup, InterruptComing, WakerChecking, should_skip_wait
  <1>. QED
    BY <1>1, <1>2, <1>3, TypeCorrect, PTL DEF Spec
=============================================================================
