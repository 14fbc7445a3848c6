------------------------------- MODULE Process --------------------------------
(***************************************************************************)
(* Child processes: Child::wait, try_wait and drop (process/mod.rs), the   *)
(* zombie reaper with all its implementations (process/reaper.rs), how a   *)
(* runtime comes by its reaper (executor.rs) and WaitPidOp                 *)
(* (op/waitpid.rs).                                                        *)
(*                                                                         *)
(* `holder` is where the std::process::Child of a child is: with the       *)
(* user's Child, in the future of its wait, in a channel, with a reaper,   *)
(* in a task or on a thread.  Once nobody holds it, nobody will reap it.   *)
(* A reaper is named after the child whose wait started it.                *)
(*                                                                         *)
(* The modes are the reapers of the code: "uring" and "mio" wait with a    *)
(* pidfd on these drivers, "signal" waits for SIGCHLD, "blocking" (Unix    *)
(* without the feature signal) and "windows" wait on other threads.        *)
(***************************************************************************)
EXTENDS Naturals

CONSTANTS
  Children,   \* child processes
  Modes,      \* reapers to consider
  Failures,   \* whether pidfd_open, the registration or submit_poll may fail
  None        \* no reaper

ProcessAssumption ==
  /\ Modes \subseteq {"uring", "mio", "signal", "blocking", "windows"}
  /\ Failures \in BOOLEAN
  /\ None \notin Children

VARIABLES
  mode,      \* the reaper of this build and runtime
  runtime,   \* "alive" or "dropped"
  proc,      \* the processes: "running", "zombie", "reaped"
  child,     \* the user's side: "held", "starting", "waiting", "answered",
             \* "cancelled", "dropped"
  answer,    \* what was sent to a wait: "none", "ok", "err"
  holder,    \* who has the std::process::Child
  at,        \* the reaper whose channel it was sent to
  current,   \* RuntimeInner::zombie_reaper
  reapers,   \* "none", "alive", "ended"
  sigchld,   \* reapers whose Signal has a SIGCHLD that they have not seen
  lost       \* children given up by a failure, an ended reaper, the drop of the
             \* runtime, or a wait that was dropped before it had a reaper

vars == <<mode, runtime, proc, child, answer, holder, at, current, reapers, sigchld, lost>>

Init ==
  /\ mode \in Modes
  /\ runtime = "alive"
  /\ proc = [c \in Children |-> "running"]
  /\ child = [c \in Children |-> "held"]
  /\ answer = [c \in Children |-> "none"]
  /\ holder = [c \in Children |-> "child"]
  /\ at = [c \in Children |-> None]
  /\ current = None
  /\ reapers = [c \in Children |-> "none"]
  /\ sigchld = {}
  /\ lost = {}

Exited(c) == proc[c] # "running"

\* A process exits; SIGCHLD is counted by the Signal of every reaper.
Exit(c) ==
  /\ proc[c] = "running"
  /\ proc' = [proc EXCEPT ![c] = "zombie"]
  /\ sigchld' = IF mode = "signal" THEN {r \in Children : reapers[r] = "alive"} ELSE {}
  /\ UNCHANGED <<mode, runtime, child, answer, holder, at, current, reapers, lost>>

\* The children in C are reaped, or their status was known already, and the
\* waits for them are answered.
ReapAndAnswer(C) ==
  /\ proc' = [c \in Children |-> IF c \in C /\ Exited(c) THEN "reaped" ELSE proc[c]]
  /\ answer' = [c \in Children |->
       IF c \in C /\ child[c] = "waiting" THEN "ok" ELSE answer[c]]
  /\ holder' = [c \in Children |-> IF c \in C THEN "none" ELSE holder[c]]

\* The children in C are dropped as they are.
GivesUp(C) ==
  /\ holder' = [c \in Children |-> IF c \in C THEN "none" ELSE holder[c]]
  /\ lost' = lost \cup {c \in C : proc[c] # "reaped"}

-----------------------------------------------------------------------------
(* Child.                                                                  *)

\* Child::try_wait.  The std::process::Child remembers the status.
try_wait(c) ==
  /\ child[c] = "held" /\ proc[c] = "zombie"
  /\ proc' = [proc EXCEPT ![c] = "reaped"]
  /\ UNCHANGED <<mode, runtime, child, answer, holder, at, current, reapers, sigchld, lost>>

\* The channel of a reaper takes a child.  (In what order they are received
\* does not matter: each is looked at by itself.)
SendTo(c, r) ==
  /\ holder' = [holder EXCEPT ![c] = "channel"]
  /\ at' = [at EXCEPT ![c] = r]

\* Child::wait in a runtime that has a reaper.
wait(c) ==
  /\ child[c] = "held" /\ runtime = "alive" /\ current # None
  /\ SendTo(c, current)
  /\ child' = [child EXCEPT ![c] = "waiting"]
  /\ UNCHANGED <<mode, runtime, proc, answer, current, reapers, sigchld, lost>>

\* Child::wait in a runtime that has none: it spawns start_zombie_reaper and
\* waits for the sender.
WaitStarts(c) ==
  /\ child[c] = "held" /\ runtime = "alive" /\ current = None
  /\ child' = [child EXCEPT ![c] = "starting"]
  /\ holder' = [holder EXCEPT ![c] = "wait"]
  /\ UNCHANGED <<mode, runtime, proc, answer, at, current, reapers, sigchld, lost>>

\* Child::wait outside of a runtime blocks its thread.
WaitOutside(c) ==
  /\ child[c] = "held"
  /\ child' = [child EXCEPT ![c] = "waiting"]
  /\ holder' = [holder EXCEPT ![c] = "thread"]
  /\ UNCHANGED <<mode, runtime, proc, answer, at, current, reapers, sigchld, lost>>

\* start_zombie_reaper.
start_zombie_reaper(c) ==
  /\ child[c] = "starting" /\ reapers[c] = "none"
  /\ reapers' = [reapers EXCEPT ![c] = "alive"]
  /\ UNCHANGED <<mode, runtime, proc, child, answer, holder, at, current, sigchld, lost>>

\* current_zombie_reaper has its sender, stores it in the runtime, over that of
\* another wait that started a reaper too, and the child is sent.
current_zombie_reaper(c) ==
  /\ child[c] = "starting" /\ reapers[c] = "alive"
  /\ current' = c
  /\ SendTo(c, c)
  /\ child' = [child EXCEPT ![c] = "waiting"]
  /\ UNCHANGED <<mode, runtime, proc, answer, reapers, sigchld, lost>>

\* The future of the wait has its answer and drops its sender.
WaitEnds(c) ==
  /\ child[c] = "waiting" /\ answer[c] # "none"
  /\ child' = [child EXCEPT ![c] = "answered"]
  /\ UNCHANGED <<mode, runtime, proc, answer, holder, at, current, reapers, sigchld, lost>>

\* The future of the wait is dropped.  Before the child was sent it goes with
\* the future.
CancelWait(c) ==
  /\ child[c] \in {"starting", "waiting"}
  /\ holder[c] # "thread" \/ at[c] # None
  /\ child' = [child EXCEPT ![c] = "cancelled"]
  /\ GivesUp(IF child[c] = "starting" THEN {c} ELSE {})
  /\ UNCHANGED <<mode, runtime, proc, answer, at, current, reapers, sigchld>>

\* reap_on_drop, for a process that has exited.
DropExited(c) ==
  /\ child[c] = "held" /\ Exited(c)
  /\ child' = [child EXCEPT ![c] = "dropped"]
  /\ ReapAndAnswer({c})
  /\ UNCHANGED <<mode, runtime, at, current, reapers, sigchld, lost>>

\* reap_on_drop, in a runtime with a reaper.
DropSends(c) ==
  /\ child[c] = "held" /\ ~Exited(c) /\ runtime = "alive" /\ current # None
  /\ child' = [child EXCEPT ![c] = "dropped"]
  /\ SendTo(c, current)
  /\ UNCHANGED <<mode, runtime, proc, answer, current, reapers, sigchld, lost>>

\* Mutant: without a reaper the child is left alone.
DropSpawns_Not(c) ==
  /\ child[c] = "held" /\ ~Exited(c)
  /\ child' = [child EXCEPT ![c] = "dropped"]
  /\ holder' = [holder EXCEPT ![c] = "none"]
  /\ UNCHANGED <<mode, runtime, proc, answer, at, current, reapers, sigchld, lost>>

\* reap_on_drop, without a reaper or outside of the runtime: a thread waits.
DropSpawns(c) ==
  /\ child[c] = "held" /\ ~Exited(c)
  /\ child' = [child EXCEPT ![c] = "dropped"]
  /\ holder' = [holder EXCEPT ![c] = "thread"]
  /\ UNCHANGED <<mode, runtime, proc, answer, at, current, reapers, sigchld, lost>>

-----------------------------------------------------------------------------
(* The reapers.                                                            *)

\* The loop of a reaper takes a child from its channel.
Receives(c) == holder[c] = "channel" /\ reapers[at[c]] = "alive"

\* Mutant: the child is not looked at when it comes.
ReceiveExited_Not(c) == FALSE

\* The fast path of all but "blocking": it has exited.
ReceiveExited(c) ==
  /\ Receives(c) /\ mode # "blocking" /\ Exited(c)

Reaped(c) ==
  /\ ReceiveExited(c)
  /\ ReapAndAnswer({c})
  /\ UNCHANGED <<mode, runtime, child, at, current, reapers, sigchld, lost>>

\* It runs: the SIGCHLD reaper lists it, a pidfd reaper spawns a task, and the
\* others have a thread wait, which RegisterWaitForSingleObject or
\* spawn_blocking provides.
Receive(c) ==
  /\ Receives(c) /\ ~ReceiveExited(c)
  /\ holder' = [holder EXCEPT ![c] =
       CASE mode = "signal" -> "list"
         [] mode \in {"uring", "mio"} -> "task"
         [] OTHER -> "thread"]
  /\ UNCHANGED <<mode, runtime, proc, child, answer, at, current, reapers, sigchld, lost>>

\* Mutant: every child of the list is answered.
Listed_All(r) == {c \in Children : holder[c] = "list" /\ at[c] = r}

Listed(r) == {c \in Children : holder[c] = "list" /\ at[c] = r /\ Exited(c)}

\* zombie_reaper_fn_unix: a SIGCHLD came, and the whole list is tried.
SignalReceived(r) ==
  /\ r \in sigchld /\ reapers[r] = "alive"
  /\ sigchld' = sigchld \ {r}
  /\ ReapAndAnswer(Listed(r))
  /\ UNCHANGED <<mode, runtime, child, at, current, reapers, lost>>

\* A thread that waits for the child, wait_callback included.
ThreadWaits(c) ==
  /\ holder[c] = "thread" /\ Exited(c)
  /\ ReapAndAnswer({c})
  /\ UNCHANGED <<mode, runtime, child, at, current, reapers, sigchld, lost>>

\* WaitPidOp on io_uring: the first poll waits for the pidfd, and a pidfd that
\* is readable is followed by waitpid.  (read fails on a pidfd, which is
\* ignored.)
WaitPidCompletion(c) ==
  /\ holder[c] = "task" /\ mode = "uring" /\ Exited(c)
  /\ ReapAndAnswer({c})
  /\ UNCHANGED <<mode, runtime, child, at, current, reapers, sigchld, lost>>

\* Opening, registering or arming the pidfd fails.
WaitPidFails(c) ==
  /\ holder[c] = "task" /\ Failures
  /\ GivesUp({c})
  /\ answer' = [answer EXCEPT ![c] = IF child[c] = "waiting" THEN "err" ELSE @]
  /\ UNCHANGED <<mode, runtime, proc, child, at, current, reapers, sigchld>>

\* WaitPidOp on mio: poll_poll reads the pidfd first.  The read fails with
\* EINVAL and not with WouldBlock, so waitpid follows at once and reports a
\* process that still runs as WouldBlock.
WaitPidPoll(c) ==
  /\ holder[c] = "task" /\ mode = "mio"
  /\ IF Exited(c) THEN ReapAndAnswer({c}) /\ UNCHANGED lost
     ELSE /\ GivesUp({c})
          /\ answer' = [answer EXCEPT ![c] = IF child[c] = "waiting" THEN "err" ELSE @]
          /\ UNCHANGED proc
  /\ UNCHANGED <<mode, runtime, child, at, current, reapers, sigchld>>

\* The channel of a reaper is closed when no sender is left: neither in the
\* runtime nor in a wait.
HasSender(r) ==
  \/ current = r
  \/ child[r] = "starting"
  \/ \E c \in Children : child[c] = "waiting" /\ at[c] = r

\* ... then the loop ends when the channel is empty, and drops its list.
ReaperEnds(r) ==
  /\ reapers[r] = "alive" /\ ~HasSender(r)
  /\ \A c \in Children : ~(holder[c] = "channel" /\ at[c] = r)
  /\ reapers' = [reapers EXCEPT ![r] = "ended"]
  /\ GivesUp({c \in Children : holder[c] = "list" /\ at[c] = r})
  /\ sigchld' = sigchld \ {r}
  /\ UNCHANGED <<mode, runtime, proc, child, answer, at, current>>

\* Runtime::drop closes the channel and drops all tasks, the reapers, the
\* waits and what they hold among them.
RuntimeDrop ==
  /\ runtime = "alive"
  /\ runtime' = "dropped"
  /\ current' = None
  /\ reapers' = [r \in Children |-> "ended"]
  /\ sigchld' = {}
  /\ child' = [c \in Children |->
       IF child[c] \in {"starting", "waiting"} /\ (holder[c] # "thread" \/ at[c] # None)
         THEN "cancelled" ELSE child[c]]
  /\ GivesUp({c \in Children : holder[c] \in {"wait", "channel", "list", "task"}})
  /\ UNCHANGED <<mode, proc, answer, at>>

ReaperStep(c) ==
  \/ Reaped(c) \/ Receive(c) \/ SignalReceived(c) \/ ThreadWaits(c)
  \/ WaitPidCompletion(c) \/ WaitPidPoll(c)
  \/ start_zombie_reaper(c) \/ current_zombie_reaper(c) \/ WaitEnds(c)

UserStep(c) ==
  \/ try_wait(c) \/ wait(c) \/ WaitStarts(c) \/ WaitOutside(c) \/ CancelWait(c)
  \/ DropExited(c) \/ DropSends(c) \/ DropSpawns(c)

Next ==
  \/ \E c \in Children : ReaperStep(c) \/ UserStep(c) \/ Exit(c) \/ WaitPidFails(c) \/ ReaperEnds(c)
  \/ RuntimeDrop

\* The runtime polls its tasks (Executor) and threads run.
Spec == Init /\ [][Next]_vars /\ \A c \in Children : WF_vars(ReaperStep(c))
-----------------------------------------------------------------------------
(* Properties.                                                             *)

(* A wait returns the status of a process that was reaped, and an error    *)
(* only for one that was given up: no answer is for another child, and     *)
(* none comes from a process that still runs.                              *)
AnswerIsTruthful ==
  \A c \in Children :
    /\ answer[c] = "ok" => proc[c] = "reaped"
    /\ answer[c] = "err" => c \in lost

(* The SIGCHLD reaper misses no exit: a zombie on its list is one for      *)
(* which its Signal still has something to report, although signals        *)
(* coalesce, children may exit on their way through the channel, and the   *)
(* future of recv is dropped in every turn of the loop.                    *)
ExitIsSeen ==
  \A c \in Children : holder[c] = "list" /\ Exited(c) => at[c] \in sigchld

(* The wait for a process that has exited ends, whichever reaper is in     *)
(* use and however many were started at once.                              *)
WaitIsAnswered ==
  \A c \in Children : child[c] = "waiting" /\ Exited(c) ~> child[c] # "waiting"

(* A process that was waited for or whose Child was dropped does not stay  *)
(* a zombie, also when the wait was dropped, unless it was given up.       *)
NoZombieStays ==
  \A c \in Children :
    child[c] # "held" /\ Exited(c) ~> proc[c] = "reaped" \/ c \in lost

(* No wait is told a lie, and no exit is missed by the SIGCHLD reaper.     *)
ExitsAreKnown == AnswerIsTruthful /\ ExitIsSeen
=============================================================================
