----------------------------- MODULE UringDriver -----------------------------
(***************************************************************************)
(* The io_uring driver, driver/uring.rs, with the handles (fd_inner.rs)    *)
(* and the operations on them (op/read.rs stands for all of them: submit,  *)
(* poll, drop) and the two rings it shares with the kernel.                *)
(*                                                                         *)
(* The driver runs on the thread of the runtime, so that a call of it is   *)
(* one step; the kernel completes entries at any time.  A file is a        *)
(* descriptor with a generation: closing it and opening another makes the  *)
(* next one.  An entry of the submission queue names a descriptor, and is  *)
(* bound to a file when the kernel takes it.                               *)
(***************************************************************************)
EXTENDS Naturals, Sequences, FiniteSets, Bags

CONSTANTS
  Fds,      \* file descriptors
  Tokens,   \* keys of the slab of registrations
  Slots,    \* keys of the slab of completions
  Tasks,    \* tasks, named by their wakers
  None,     \* no task, token, slot or descriptor
  SqSize,   \* entries of the submission queue
  CqSize,   \* completions after which the kernel refuses submissions
  MaxGen,   \* bound on the files opened for a descriptor
  MaxEntries \* bound on the entries that are on their way

ASSUME UringAssumption ==
  /\ None \notin Fds \cup Tokens \cup Slots \cup Tasks
  /\ SqSize \in Nat \ {0}
  /\ CqSize \in Nat \ {0}
  /\ MaxGen \in Nat
  /\ MaxEntries \in Nat

Sides == {"read", "write"}

VARIABLES
  file,           \* the descriptors: [open, gen, token, mode], the handle's part included
  sq,             \* the submission queue
  flight,         \* the entries the kernel works on (a bag)
  cq,             \* the completion queue (a bag: its order does not matter)
  eventfd,        \* whether the interrupt eventfd was written
  thread,         \* "run", or in io_uring_enter with entries or without
  registrations,  \* DriverState::registrations
  completions,    \* DriverState::completions
  pending_submissions,
  op,             \* each task's operation: [pc, fd, side, slot]
  woken           \* the tasks that were woken and not polled since

rings == <<sq, flight, cq>>
vars == <<file, rings, eventfd, thread, registrations, completions, pending_submissions, op, woken>>

NoOp == [pc |-> "idle", fd |-> None, side |-> "read", slot |-> None]

\* The user_data: a kind (encode_poll_key, encode_completion_key, u64::MAX)
\* and the key of a slab.
Entry(kind, key, fd) == [kind |-> kind, key |-> key, fd |-> fd]

Interrupt == Entry("interrupt", None, None)

Init ==
  /\ file = [f \in Fds |-> [open |-> FALSE, gen |-> 0, token |-> None, mode |-> "poll"]]
  /\ sq = <<Interrupt>>
  /\ flight = EmptyBag
  /\ cq = EmptyBag
  /\ eventfd = FALSE
  /\ thread = "run"
  /\ registrations = [k \in {} |-> {}]
  /\ completions = [k \in {} |-> {}]
  /\ pending_submissions = TRUE
  /\ op = [t \in Tasks |-> NoOp]
  /\ woken = {}

-----------------------------------------------------------------------------
(* The rings.                                                              *)

\* What the kernel holds of an entry: the file in place of the descriptor.
\* Generation 0 stands for no file (EBADF).
Bound(e) ==
  [kind |-> e.kind, key |-> e.key, fd |-> e.fd,
   gen |-> IF e.fd # None /\ file[e.fd].open THEN file[e.fd].gen ELSE 0]

Range(s) == {s[i] : i \in DOMAIN s}

\* Entries of a queue as a bag.
AsBag(s) == [x \in {Bound(e) : e \in Range(s)} |-> Cardinality({i \in DOMAIN s : Bound(s[i]) = x})]

\* The outcomes of a submit: the kernel takes all entries, or none (EBUSY,
\* which submitter_call_result makes a success).
Submits ==
  {[sq |-> <<>>, flight |-> flight (+) AsBag(sq)]}
    \cup {r \in {[sq |-> sq, flight |-> flight]} : BagCardinality(cq) >= CqSize}

HasRoom(queue) == Len(queue) < SqSize

\* push_entry: room is made by a submit.
push_entry(e) ==
  /\ Len(sq) + BagCardinality(flight) + BagCardinality(cq) < MaxEntries
  /\ \E r \in IF HasRoom(sq) THEN {[sq |-> sq, flight |-> flight]} ELSE Submits :
       /\ HasRoom(r.sq)
       /\ sq' = Append(r.sq, e)
       /\ flight' = r.flight
       /\ pending_submissions' = TRUE

\* push_entry fails: the submit did, or it made no room.
push_entry_Fails == ~HasRoom(sq) /\ UNCHANGED <<sq, flight, pending_submissions>>

\* The kernel completes an entry; the interrupt's read waits for the eventfd.
Complete(x) ==
  /\ BagIn(x, flight)
  /\ x.kind = "interrupt" => eventfd
  /\ eventfd' = (eventfd /\ x.kind # "interrupt")
  /\ flight' = flight (-) SetToBag({x})
  /\ cq' = cq (+) SetToBag({Entry(x.kind, x.key, x.fd)})
  /\ UNCHANGED <<file, sq, thread, registrations, completions, pending_submissions, op, woken>>

\* UringInterruptor::interrupt, from any thread.
interrupt ==
  /\ eventfd' = TRUE
  /\ UNCHANGED <<file, rings, thread, registrations, completions, pending_submissions, op, woken>>

-----------------------------------------------------------------------------
(* drain_cq.                                                               *)

Completed(kind, key) == \E x \in BagToSet(cq) : x.kind = kind /\ x.key = key

DrainedRegistration(k) ==
  LET r == registrations[k]
  IN  IF r.mode = "poll"
        THEN [r EXCEPT !.waiter = [s \in Sides |-> IF Completed(s, k) THEN None ELSE r.waiter[s]],
                       !.armed = [s \in Sides |-> r.armed[s] /\ ~Completed(s, k)]]
        ELSE r

RemovedSlots == {k \in DOMAIN completions : Completed("op", k) /\ completions[k].ignored}

Wakers ==
  {registrations[k].waiter[s] :
     <<k, s>> \in {p \in (DOMAIN registrations) \X Sides :
                     registrations[p[1]].mode = "poll" /\ Completed(p[2], p[1])}}
  \cup {completions[k].waiter : k \in {j \in DOMAIN completions : Completed("op", j)}}

\* submit_interrupt, when the interrupt came.
AfterInterrupt(queue) ==
  IF Completed("interrupt", None) THEN Append(queue, Interrupt) ELSE queue

\* What pending_submissions becomes.
StillPending(queue) == queue # <<>> \/ Completed("interrupt", None)

\* drain_cq with what collect_completions does next: `r` is the state of the
\* rings after the submit.  When the queue is full, submit_interrupt submits.
drain_cq(r) ==
  LET rest == IF ~HasRoom(r.sq) /\ AfterInterrupt(r.sq) # r.sq
                THEN [sq |-> <<>>, flight |-> r.flight (+) AsBag(r.sq)] ELSE r
  IN  /\ registrations' = [k \in DOMAIN registrations |-> DrainedRegistration(k)]
      /\ completions' =
           [k \in DOMAIN completions \ RemovedSlots |->
              IF Completed("op", k) THEN [completions[k] EXCEPT !.completed = TRUE, !.waiter = None]
              ELSE completions[k]]
      /\ woken' = woken \cup (Wakers \ {None})
      /\ cq' = EmptyBag
      /\ sq' = AfterInterrupt(rest.sq)
      /\ flight' = rest.flight
      /\ pending_submissions' = StillPending(r.sq)
      /\ UNCHANGED <<file, eventfd, op>>

should_flush == pending_submissions

\* flush: collect_completions(false).
flush ==
  /\ thread = "run"
  /\ UNCHANGED thread
  /\ IF sq = <<>> THEN drain_cq([sq |-> sq, flight |-> flight])
                  ELSE \E r \in Submits : drain_cq(r)

\* wait: collect_completions(true) enters the kernel ...
wait ==
  /\ thread = "run"
  /\ \E r \in Submits : sq' = r.sq /\ flight' = r.flight
  /\ thread' = IF sq = sq' THEN "wait_none" ELSE "wait"
  /\ UNCHANGED <<file, cq, eventfd, registrations, completions, pending_submissions, op, woken>>

\* ... and returns with a completion or after the timeout ...
WaitReturns ==
  /\ thread # "run"
  /\ thread' = "run"
  /\ drain_cq([sq |-> sq, flight |-> flight])

\* ... or by a signal (EINTR), if nothing was submitted.
WaitInterrupted ==
  /\ thread = "wait_none"
  /\ thread' = "run"
  /\ UNCHANGED <<file, rings, eventfd, registrations, completions, pending_submissions, op, woken>>

-----------------------------------------------------------------------------
(* Handles.                                                                *)

UsedBy(f) == {t \in Tasks : op[t].pc # "idle" /\ op[t].fd = f}

NewRegistration(f, m) ==
  [fd |-> f, mode |-> m, waiter |-> [s \in Sides |-> None], armed |-> [s \in Sides |-> FALSE]]

\* The file is opened, and register_handle_with_mode makes its handle.
Open(f, k, m) ==
  /\ thread = "run"
  /\ ~file[f].open
  /\ file[f].gen < MaxGen
  /\ k \notin DOMAIN registrations
  /\ file' = [file EXCEPT ![f] = [open |-> TRUE, gen |-> @.gen + 1, token |-> k, mode |-> m]]
  /\ registrations' = [j \in DOMAIN registrations \cup {k} |->
                         IF j = k THEN NewRegistration(f, m) ELSE registrations[j]]
  /\ UNCHANGED <<rings, eventfd, thread, completions, pending_submissions, op, woken>>

\* register_sync_cancel for a descriptor, without the flag for all: the
\* kernel cancels one of the entries it holds, or the call fails.
SyncCancel(f) ==
  \/ UNCHANGED <<flight, cq>>
  \/ \E x \in BagToSet(flight) :
       /\ x.fd = f /\ x.gen = file[f].gen
       /\ flight' = flight (-) SetToBag({x})
       /\ cq' = cq (+) SetToBag({Entry(x.kind, x.key, x.fd)})

\* Drop of a handle that no operation borrows: deregister_handle.  The file
\* is closed next.
deregister_handle(f) ==
  /\ thread = "run"
  /\ file[f].open
  /\ UsedBy(f) = {}
  /\ SyncCancel(f)
  /\ registrations' = [j \in DOMAIN registrations \ {file[f].token} |-> registrations[j]]
  /\ file' = [file EXCEPT ![f].open = FALSE, ![f].token = None]
  /\ UNCHANGED <<sq, eventfd, thread, completions, pending_submissions, op, woken>>

\* rebind_mode to the other mode.  The slab gives out a vacant key.
rebind_mode(f, k) ==
  LET m == IF file[f].mode = "poll" THEN "completion" ELSE "poll"
      others == DOMAIN registrations \ {file[f].token}
  IN  /\ thread = "run"
      /\ file[f].open
      /\ UsedBy(f) = {}
      /\ k \notin others
      /\ SyncCancel(f)
      /\ registrations' = [j \in others \cup {k} |->
                             IF j = k THEN NewRegistration(f, m) ELSE registrations[j]]
      /\ file' = [file EXCEPT ![f].token = k, ![f].mode = m]
      /\ UNCHANGED <<sq, eventfd, thread, completions, pending_submissions, op, woken>>

-----------------------------------------------------------------------------
(* Operations.                                                             *)

Idle(t, f, m) == thread = "run" /\ op[t].pc = "idle" /\ file[f].open /\ file[f].mode = m

\* poll_completion, the first time: submit_completion.
submit_completion(t, f, k) ==
  /\ Idle(t, f, "completion")
  /\ k \notin DOMAIN completions
  /\ push_entry(Entry("op", k, f))
  /\ completions' = [j \in DOMAIN completions \cup {k} |->
                       IF j = k THEN [waiter |-> t, completed |-> FALSE, ignored |-> FALSE]
                       ELSE completions[j]]
  /\ op' = [op EXCEPT ![t] = [NoOp EXCEPT !.pc = "completion", !.fd = f, !.slot = k]]
  /\ UNCHANGED <<file, cq, eventfd, thread, registrations, woken>>

\* poll_completion, later: get_completion_result ...
PollCompleted(t) ==
  /\ thread = "run" /\ op[t].pc = "completion"
  /\ completions[op[t].slot].completed
  /\ completions' = [j \in DOMAIN completions \ {op[t].slot} |-> completions[j]]
  /\ op' = [op EXCEPT ![t] = NoOp]
  /\ woken' = woken \ {t}
  /\ UNCHANGED <<file, rings, eventfd, thread, registrations, pending_submissions>>

\* ... or set_completion_waker.
PollPending(t) ==
  /\ thread = "run" /\ op[t].pc = "completion"
  /\ ~completions[op[t].slot].completed
  /\ completions' = [completions EXCEPT ![op[t].slot].waiter = t]
  /\ woken' = woken \ {t}
  /\ UNCHANGED <<file, rings, eventfd, thread, registrations, pending_submissions, op>>

\* Mutant: the slot goes with the operation.
ignore_completion_Removes(t) ==
  /\ thread = "run" /\ op[t].pc = "completion"
  /\ completions' = [j \in DOMAIN completions \ {op[t].slot} |-> completions[j]]
  /\ op' = [op EXCEPT ![t] = NoOp]
  /\ UNCHANGED <<file, rings, eventfd, thread, registrations, pending_submissions, woken>>

\* Drop of an operation: ignore_completion takes its buffers.
ignore_completion(t) ==
  /\ thread = "run" /\ op[t].pc = "completion"
  /\ completions' = [completions EXCEPT ![op[t].slot].ignored = TRUE]
  /\ op' = [op EXCEPT ![t] = NoOp]
  /\ UNCHANGED <<file, rings, eventfd, thread, registrations, pending_submissions, woken>>

\* A task takes up a poll of side s, or the system call blocks again.
Blocks(t, f, s) ==
  \/ Idle(t, f, "poll") /\ \A u \in UsedBy(f) : op[u].side # s
  \/ thread = "run" /\ op[t].pc = "poll" /\ op[t].fd = f /\ op[t].side = s

update_waiter(slot, t) == t

\* submit_poll.
submit_poll(t, f, s) ==
  LET k == file[f].token
  IN  /\ Blocks(t, f, s)
      /\ IF registrations[k].armed[s] THEN UNCHANGED <<sq, flight, pending_submissions>>
                                      ELSE push_entry(Entry(s, k, f))
      /\ registrations' = [registrations EXCEPT ![k].waiter[s] = update_waiter(@, t),
                                                ![k].armed[s] = TRUE]
      /\ op' = [op EXCEPT ![t] = [NoOp EXCEPT !.pc = "poll", !.fd = f, !.side = s]]
      /\ woken' = woken \ {t}
      /\ UNCHANGED <<file, cq, eventfd, thread, completions>>

\* Mutant: the poll counts as armed although it was not pushed.
submit_poll_Fails_Armed(t, f, s) ==
  LET k == file[f].token
  IN  /\ Blocks(t, f, s)
      /\ ~registrations[k].armed[s]
      /\ push_entry_Fails
      /\ registrations' = [registrations EXCEPT ![k].armed[s] = TRUE]
      /\ op' = [op EXCEPT ![t] = NoOp]
      /\ woken' = woken \ {t}
      /\ UNCHANGED <<file, cq, eventfd, thread, completions>>

\* submit_poll, when push_entry fails: the operation ends with the error.
submit_poll_Fails(t, f, s) ==
  LET k == file[f].token
  IN  /\ Blocks(t, f, s)
      /\ ~registrations[k].armed[s]
      /\ push_entry_Fails
      /\ registrations' = [registrations EXCEPT ![k].waiter[s] = None]
      /\ op' = [op EXCEPT ![t] = NoOp]
      /\ woken' = woken \ {t}
      /\ UNCHANGED <<file, cq, eventfd, thread, completions>>

\* The system call does not block any more, or the future is dropped.
EndPoll(t) ==
  /\ thread = "run" /\ op[t].pc = "poll"
  /\ op' = [op EXCEPT ![t] = NoOp]
  /\ woken' = woken \ {t}
  /\ UNCHANGED <<file, rings, eventfd, thread, registrations, completions, pending_submissions>>

-----------------------------------------------------------------------------

Next ==
  \/ \E x \in BagToSet(flight) : Complete(x)
  \/ interrupt \/ flush \/ wait \/ WaitReturns \/ WaitInterrupted
  \/ \E f \in Fds, k \in Tokens, m \in {"poll", "completion"} : Open(f, k, m)
  \/ \E f \in Fds : deregister_handle(f)
  \/ \E f \in Fds, k \in Tokens : rebind_mode(f, k)
  \/ \E t \in Tasks, f \in Fds, k \in Slots : submit_completion(t, f, k)
  \/ \E t \in Tasks, f \in Fds, s \in Sides : submit_poll(t, f, s) \/ submit_poll_Fails(t, f, s)
  \/ \E t \in Tasks : PollCompleted(t) \/ PollPending(t) \/ ignore_completion(t) \/ EndPoll(t)

Spec == Init /\ [][Next]_vars

-----------------------------------------------------------------------------
(* Properties.                                                             *)

Kinds == {"op", "interrupt"} \cup Sides

\* The entries with a kind and a key that are on their way.
CountIn(b, kind, key) ==
  BagCardinality([x \in {y \in BagToSet(b) : y.kind = kind /\ y.key = key} |-> b[x]])

Outstanding(kind, key) ==
  Cardinality({i \in DOMAIN sq : sq[i].kind = kind /\ sq[i].key = key})
    + CountIn(flight, kind, key) + CountIn(cq, kind, key)

(* The buffers of an operation outlive the kernel's use of them: a slot    *)
(* has an entry on its way until it is completed, at most one, and then    *)
(* the operation still holds the slot or ignore_completion gave it the     *)
(* buffers.  No completion reaches another operation through a slot that   *)
(* was reused.                                                             *)
SlotsOutliveEntries ==
  /\ \A k \in Slots \ DOMAIN completions : Outstanding("op", k) = 0
  /\ \A k \in DOMAIN completions :
       LET holders == {t \in Tasks : op[t].pc = "completion" /\ op[t].slot = k}
       IN  /\ Outstanding("op", k) = IF completions[k].completed THEN 0 ELSE 1
           /\ Cardinality(holders) = IF completions[k].ignored THEN 0 ELSE 1

(* The read of the eventfd is always on its way, once: an interrupt is     *)
(* never lost, whatever is drained, submitted or refused meanwhile.        *)
InterruptArmed == Outstanding("interrupt", None) = 1

(* A task that waits and was not woken is reached by something on its way: *)
(* the completion of its slot, or a poll of its own file under the key of  *)
(* its registration.  Stale completions of earlier handles with the same   *)
(* token disarm a poll only together with a wake.                          *)
NoLostCompletion ==
  \A t \in Tasks : t \notin woken =>
    LET f == op[t].fd
        s == op[t].side
        k == file[f].token
    IN  /\ op[t].pc = "completion" =>
             completions[op[t].slot].waiter = t /\ ~completions[op[t].slot].completed
        /\ op[t].pc = "poll" =>
             /\ registrations[k].waiter[s] = t
             /\ \/ Entry(s, k, f) \in Range(sq)
                \/ BagIn([kind |-> s, key |-> k, fd |-> f, gen |-> file[f].gen], flight)
                \/ Completed(s, k)

(* Whatever waits for the ring has an entry on its way: the tasks for      *)
(* their completions, and the runtime for an interrupt.                    *)
NoOneIsStranded == NoLostCompletion /\ InterruptArmed
=============================================================================
