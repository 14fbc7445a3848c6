------------------------------ MODULE MioDriver ------------------------------
(***************************************************************************)
(* The readiness driver, driver/mio.rs, the operations that wait on it     *)
(* (op/io_util.rs, op/readiness.rs, fd_inner.rs) and the edge-triggered    *)
(* epoll it stands on.                                                     *)
(*                                                                         *)
(* All of the driver runs on the thread of the runtime; the kernel moves   *)
(* at any time, in particular between the system call that would block and *)
(* the submit_poll that follows it.  An Interest is a nonempty set of      *)
(* sides, so {} stands for None.  A handle that is registered again stands *)
(* for a new one that was given the same file descriptor.                  *)
(***************************************************************************)
EXTENDS Naturals, FiniteSets

CONSTANTS
  Handles,   \* file descriptors
  Tokens,    \* keys of the slab
  Tasks,     \* tasks, named by their wakers
  None,      \* no task, no token, no handle
  Interests, \* what handles are registered for
  Events     \* capacity of the event buffer

ASSUME MioAssumption ==
  /\ None \notin Tasks \cup Tokens \cup Handles
  /\ Interests \subseteq (SUBSET {"read", "write"}) \ {{}}
  /\ Events \in Nat \ {0}

Sides == {"read", "write"}

NoHandle == [registered |-> FALSE, token |-> None, mask |-> {}, queued |-> FALSE]

VARIABLES
  level,          \* what the kernel would report of each descriptor
  epoll,          \* epoll's entry of each descriptor, and the handle's token
  registrations,  \* DriverState::registrations
  waiter_count,   \* MioDriver::waiter_count
  op,             \* each task's operation: [pc, handle, side]
  woken           \* the tasks that were woken and not polled since

vars == <<level, epoll, registrations, waiter_count, op, woken>>

NoOp == [pc |-> "idle", handle |-> None, side |-> "read"]

Init ==
  /\ level \in [Handles -> {{}, {"write"}}]
  /\ epoll = [h \in Handles |-> NoHandle]
  /\ registrations = [k \in {} |-> {}]
  /\ waiter_count = 0
  /\ op = [t \in Tasks |-> NoOp]
  /\ woken = {}

-----------------------------------------------------------------------------
(* The kernel.                                                             *)

\* What epoll reports for interest `mask`; errors are always reported.
Reported(now, mask) == now \cap (mask \cup {"error"})

\* EPOLL_CTL_ADD and EPOLL_CTL_MOD look at the present state.
Armed(h, token, mask) ==
  [registered |-> TRUE, token |-> token, mask |-> mask, queued |-> Reported(level[h], mask) # {}]

\* A descriptor becomes ready, or ready again.
BecomesReady(h, s) ==
  /\ level' = [level EXCEPT ![h] = @ \cup {s}]
  /\ epoll' = [epoll EXCEPT ![h].queued =
                 @ \/ (epoll[h].registered /\ Reported({s}, epoll[h].mask) # {})]
  /\ UNCHANGED <<registrations, waiter_count, op, woken>>

-----------------------------------------------------------------------------
(* Handles.                                                                *)

\* No task is in the middle of a poll: the thread is free.
Free == \A t \in Tasks : op[t].pc # "blocked"

Registration(h) == registrations[epoll[h].token]

UsedBy(h) == {t \in Tasks : op[t].pc # "idle" /\ op[t].handle = h}

Waiting(r) == {s \in Sides : r.waiter[s] # None}

\* register_handle, by InnerRawHandle::new.
register_handle(h, token, interest) ==
  /\ Free
  /\ ~epoll[h].registered
  /\ token \notin DOMAIN registrations
  /\ registrations' =
       [k \in DOMAIN registrations \cup {token} |->
          IF k = token THEN [fd |-> h, waiter |-> [s \in Sides |-> None], interest |-> interest]
          ELSE registrations[k]]
  /\ epoll' = [epoll EXCEPT ![h] = Armed(h, token, interest)]
  /\ UNCHANGED <<level, waiter_count, op, woken>>

\* deregister_handle, by the drop of a handle no operation borrows.  The
\* descriptor is closed next, and its number stands for a new file.
deregister_handle(h) ==
  /\ Free
  /\ epoll[h].registered
  /\ UsedBy(h) = {}
  /\ waiter_count' = waiter_count - Cardinality(Waiting(Registration(h)))
  /\ registrations' = [k \in DOMAIN registrations \ {epoll[h].token} |-> registrations[k]]
  /\ epoll' = [epoll EXCEPT ![h] = NoHandle]
  /\ level' = [level EXCEPT ![h] = {}]
  /\ UNCHANGED <<op, woken>>

-----------------------------------------------------------------------------
(* Operations.  Each side of a handle is used by one task at a time.       *)

Sole(t, h, s) == \A u \in Tasks \ {t} : op[u].pc = "idle" \/ op[u].handle # h \/ op[u].side # s

\* A task takes up an operation on side s, or is polled again.
Polls(t, h, s) ==
  /\ Free
  /\ \/ op[t].pc = "idle" /\ epoll[h].registered /\ Sole(t, h, s)
     \/ op[t].pc = "waiting" /\ op[t].handle = h /\ op[t].side = s

\* poll_poll: the system call does not block.  It takes what makes the side
\* ready, or leaves some.
TryReady(t, h, s) ==
  /\ Polls(t, h, s)
  /\ level[h] \cap {s, "error"} # {}
  /\ op' = [op EXCEPT ![t] = NoOp]
  /\ woken' = woken \ {t}
  /\ level' \in {level, [level EXCEPT ![h] = @ \ {s}]}
  /\ UNCHANGED <<epoll, registrations, waiter_count>>

\* poll_poll: it would block.
TryBlocks(t, h, s) ==
  /\ Polls(t, h, s)
  /\ level[h] \cap {s, "error"} = {}
  /\ op' = [op EXCEPT ![t] = [pc |-> "blocked", handle |-> h, side |-> s]]
  /\ woken' = woken \ {t}
  /\ UNCHANGED <<level, epoll, registrations, waiter_count>>

\* ReadinessOp: submit_poll without a try.
AskReadiness(t, h, s) ==
  /\ Free
  /\ op[t].pc = "idle" /\ epoll[h].registered /\ Sole(t, h, s)
  /\ op' = [op EXCEPT ![t] = [pc |-> "blocked", handle |-> h, side |-> s]]
  /\ UNCHANGED <<level, epoll, registrations, waiter_count, woken>>

\* Mutant: the interest of this operation alone.
wanted_ThisOne(r, s) == {s}

\* Every interest that is still waiting, not only this one.
wanted(r, s) == {s} \cup Waiting(r)

\* Mutant: a waiter that is there stays.
update_waiter_Kept(slot, t) == IF slot = None THEN t ELSE slot

update_waiter(slot, t) == t

\* interest_contains, and None.
must_reregister(r, s) == ~(wanted(r, s) \subseteq r.interest)

\* submit_poll.  `interest` is what becomes of the registration's.
submit_poll(t) ==
  LET h == op[t].handle
      s == op[t].side
      r == Registration(h)
      interest == IF must_reregister(r, s) THEN wanted(r, s) ELSE r.interest
  IN  /\ op[t].pc = "blocked"
      /\ epoll' = IF must_reregister(r, s)
                    THEN [epoll EXCEPT ![h] = Armed(h, epoll[h].token, interest)] ELSE epoll
      /\ registrations' = [registrations EXCEPT
           ![epoll[h].token] = [r EXCEPT !.interest = interest,
                                         !.waiter = [@ EXCEPT ![s] = update_waiter(@, t)]]]
      /\ waiter_count' = IF r.waiter[s] = None THEN waiter_count + 1 ELSE waiter_count
      /\ op' = [op EXCEPT ![t].pc = "waiting"]
      /\ UNCHANGED <<level, woken>>

\* submit_poll, when the registration with epoll fails: the operation ends.
submit_poll_Fails(t) ==
  /\ op[t].pc = "blocked"
  /\ must_reregister(Registration(op[t].handle), op[t].side)
  /\ op' = [op EXCEPT ![t] = NoOp]
  /\ UNCHANGED <<level, epoll, registrations, waiter_count, woken>>

\* The future is dropped while it waits; its waker stays.
DropOp(t) ==
  /\ Free
  /\ op[t].pc = "waiting"
  /\ op' = [op EXCEPT ![t] = NoOp]
  /\ UNCHANGED <<level, epoll, registrations, waiter_count, woken>>

-----------------------------------------------------------------------------
(* wait_timeout.                                                           *)

should_flush == waiter_count > 0

\* The sides an event of handle h wakes.
EventSides(h) ==
  LET event == Reported(level[h], epoll[h].mask)
  IN  IF "error" \in event THEN Sides ELSE event

AfterEvent(r, sides) ==
  [r EXCEPT !.interest = IF sides = {} THEN @ ELSE {},
            !.waiter = [s \in Sides |-> IF s \in sides THEN None ELSE r.waiter[s]]]

\* Events for the handles in `ready`; the poll of a descriptor that is not
\* ready any more reports none.
wait_timeout(ready) ==
  LET hit(k) == registrations[k].fd \in ready
      sides(k) == EventSides(registrations[k].fd)
      taken == {p \in (DOMAIN registrations) \X Sides :
                  /\ hit(p[1]) /\ p[2] \in sides(p[1])
                  /\ registrations[p[1]].waiter[p[2]] # None}
  IN  /\ Free
      /\ Cardinality(ready) <= Events
      /\ \A h \in ready : epoll[h].queued
      /\ epoll' = [h \in Handles |-> IF h \in ready THEN [epoll[h] EXCEPT !.queued = FALSE]
                                     ELSE epoll[h]]
      /\ registrations' = [k \in DOMAIN registrations |->
                             IF hit(k) THEN AfterEvent(registrations[k], sides(k))
                             ELSE registrations[k]]
      /\ woken' = woken \cup {registrations[p[1]].waiter[p[2]] : p \in taken}
      /\ waiter_count' = waiter_count - Cardinality(taken)
      /\ UNCHANGED <<level, op>>

Flush(ready) == should_flush /\ wait_timeout(ready)

-----------------------------------------------------------------------------

Next ==
  \/ \E h \in Handles, s \in Sides \cup {"error"} : BecomesReady(h, s)
  \/ \E h \in Handles : deregister_handle(h)
  \/ \E h \in Handles, k \in Tokens, i \in Interests : register_handle(h, k, i)
  \/ \E t \in Tasks, h \in Handles, s \in Sides :
       TryReady(t, h, s) \/ TryBlocks(t, h, s) \/ AskReadiness(t, h, s)
  \/ \E t \in Tasks : submit_poll(t) \/ submit_poll_Fails(t) \/ DropOp(t)
  \/ \E ready \in (SUBSET Handles) \ {{}} : wait_timeout(ready)

Spec == Init /\ [][Next]_vars

(* A runtime that is never idle: it flushes after its batches when         *)
(* should_flush, and polls the tasks that were woken.  These steps wait    *)
(* for the poll of a task to end, which it always does: fairness is        *)
(* strong.  Epoll serves its ready list in turn.                           *)
Fairness ==
  /\ \A t \in Tasks : WF_vars(submit_poll(t))
  /\ \A h \in Handles : SF_vars(\E ready \in SUBSET Handles : h \in ready /\ Flush(ready))
  /\ \A t \in Tasks : SF_vars(t \in woken /\ \E h \in Handles, s \in Sides :
                                TryReady(t, h, s) \/ TryBlocks(t, h, s))

FairSpec == Spec /\ Fairness

-----------------------------------------------------------------------------
(* Properties.                                                             *)

(* The handles own the registrations one to one: an event of a descriptor  *)
(* never reaches the registration of another handle, however tokens and    *)
(* descriptors are reused.                                                 *)
TokensOwned ==
  /\ \A h \in Handles : epoll[h].registered =>
       epoll[h].token \in DOMAIN registrations /\ Registration(h).fd = h
  /\ \A k \in DOMAIN registrations :
       epoll[registrations[k].fd].registered /\ epoll[registrations[k].fd].token = k

(* A cached interest is epoll's, and no event for it has been consumed:    *)
(* submit_poll may skip the system call ("only if the interest has         *)
(* changed").                                                              *)
CachedInterest ==
  \A k \in DOMAIN registrations :
    LET h == registrations[k].fd
        i == registrations[k].interest
    IN  i # {} => /\ epoll[h].mask = i
                  /\ Reported(level[h], i) # {} => epoll[h].queued

(* No readiness is lost: a task that waits and was not woken has its waker *)
(* in its slot, epoll watches its side, and when the side is ready an      *)
(* event is on its way.                                                    *)
NoLostReadiness ==
  \A t \in Tasks : op[t].pc = "waiting" /\ t \notin woken =>
    LET h == op[t].handle
        s == op[t].side
    IN  /\ epoll[h].registered
        /\ Registration(h).waiter[s] = t
        /\ s \in epoll[h].mask
        /\ Reported(level[h], {s}) # {} => epoll[h].queued

WaitsForReady(t) == op[t].pc = "waiting" /\ op[t].side \in level[op[t].handle]

(* A task that waits for a side that is ready is polled again, even when   *)
(* the runtime is never idle and only flushes.                             *)
ReadyIsServed ==
  \A t \in Tasks : WaitsForReady(t) ~> ~WaitsForReady(t)

(* The driver's registrations are what epoll and the waiting tasks rely    *)
(* on: owned one to one, cached truthfully, and armed for whoever waits.   *)
RegistrationsAreSound == TokensOwned /\ CachedInterest /\ NoLostReadiness
=============================================================================
