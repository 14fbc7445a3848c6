----------------------------- MODULE IocpDriver ------------------------------
(***************************************************************************)
(* The Windows driver of driver/iocp.rs: registrations for either mode,    *)
(* AFD polls for poll mode and overlapped requests for completion mode,    *)
(* whose entries the kernel queues to one completion port.                 *)
(*                                                                         *)
(* A handle has one operation at a time, which may be dropped and followed *)
(* by another one.  Operations that never wait are left out.               *)
(***************************************************************************)
EXTENDS Naturals, FiniteSets

CONSTANTS
  Fds,         \* sockets, each opened once
  Tokens,      \* keys of the slab of registrations
  PollTokens,  \* keys of the slab of AFD polls
  Slots,       \* keys of the slab of completions
  Wakers,      \* wakers an operation may be polled with
  Sides,       \* the interests operations wait for
  None

IocpAssumption ==
  /\ Sides \subseteq {"readable", "writable"}
  /\ None \notin Fds \cup Tokens \cup PollTokens \cup Slots \cup Wakers

VARIABLES
  handle,         \* InnerRawHandle of a socket: [open, mode, token]
  ready,          \* the sides on which a socket is ready
  op,             \* the operation of a handle: [pc, side, waker, slot]
  registrations,  \* slab: [mode, fd, waiter, interest, poll_token]
  poll_ops,       \* slab: the registration's token
  completions,    \* slab: [waiter, completed, overlapped, ignored]
  afd,            \* the kernel's polls: [fd, events]
  requests,       \* the kernel's requests: the socket
  port,           \* the completion port: keys of AFD polls and of completions
  woken           \* wakers used since the last poll of their operation

vars ==
  <<handle, ready, op, registrations, poll_ops, completions, afd, requests, port, woken>>

Empty == [x \in {} |-> None]
Put(f, x, v) == [y \in DOMAIN f \cup {x} |-> IF y = x THEN v ELSE f[y]]
Without(f, S) == [y \in DOMAIN f \ S |-> f[y]]

NoOp == [pc |-> "none", side |-> "readable", waker |-> None, slot |-> None]

Init ==
  /\ handle = [f \in Fds |-> [open |-> "no", mode |-> "Poll", token |-> None]]
  /\ ready = [f \in Fds |-> {}]
  /\ op = [f \in Fds |-> NoOp]
  /\ registrations = Empty /\ poll_ops = Empty /\ completions = Empty
  /\ afd = Empty /\ requests = Empty /\ port = {}
  /\ woken = {}

-----------------------------------------------------------------------------
(* Handles.                                                                *)

\* register_handle_with_mode.
register_handle_with_mode(f, k, m) ==
  /\ handle[f].open = "no"
  /\ k \notin DOMAIN registrations
  /\ registrations' = Put(registrations, k,
       [mode |-> m, fd |-> f, waiter |-> None, interest |-> "none", poll_token |-> None])
  /\ handle' = [handle EXCEPT ![f] = [open |-> "yes", mode |-> m, token |-> k]]
  /\ UNCHANGED <<ready, op, poll_ops, completions, afd, requests, port, woken>>

\* Mutant: the poll is forgotten with its registration.
PollOpsLeft_None(p) == Without(poll_ops, {p})

\* The operation stays in the slab until its entry comes.
PollOpsLeft(p) == poll_ops

\* deregister_handle: the AFD poll of the registration is cancelled, which
\* queues its entry; without one the socket leaves the port, and its requests
\* queue no entries any more.  Then the socket is closed, so that the kernel
\* ends what is left.
deregister_handle(f) ==
  LET k == handle[f].token
      p == registrations[k].poll_token
  IN  /\ handle[f].open = "yes" /\ op[f].pc = "none"
      /\ registrations' = Without(registrations, {k})
      /\ handle' = [handle EXCEPT ![f].open = "closed"]
      /\ IF p # None
           THEN /\ poll_ops' = PollOpsLeft(p)
                /\ afd' = Without(afd, {p})
                /\ port' = port \cup {p}
                /\ UNCHANGED requests
           ELSE /\ requests' = Without(requests, {s \in DOMAIN requests : requests[s] = f})
                /\ UNCHANGED <<poll_ops, afd, port>>
      /\ UNCHANGED <<ready, op, completions, woken>>

-----------------------------------------------------------------------------
(* Operations in poll mode.                                                *)

\* An operation is polled: a new one or, again, a pending one.
Polls(f, m) == handle[f].open = "yes" /\ handle[f].mode = m /\ op[f].pc \in {"none", "pending"}

\* poll_poll: the system call succeeds ...
TryReady(f) ==
  /\ Polls(f, "Poll") /\ op[f].pc = "pending" /\ op[f].side \in ready[f]
  /\ op' = [op EXCEPT ![f] = NoOp]
  /\ woken' = {x \in woken : x[1] # f}
  /\ UNCHANGED <<handle, ready, registrations, poll_ops, completions, afd, requests, port>>

\* ... or would block.
TryBlocks(f, side, w) ==
  /\ Polls(f, "Poll") /\ side \notin ready[f]
  /\ op[f].pc = "pending" => side = op[f].side
  /\ op' = [op EXCEPT ![f] = [NoOp EXCEPT !.pc = "blocked", !.side = side, !.waker = w]]
  /\ woken' = {x \in woken : x[1] # f}
  /\ UNCHANGED <<handle, ready, registrations, poll_ops, completions, afd, requests, port>>

\* Mutant: the waker of an earlier poll stays.
update_waiter_First(old, w) == IF old = None THEN w ELSE old

update_waiter(old, w) == w

Submitted(f) ==
  [registrations[handle[f].token] EXCEPT
     !.interest = op[f].side, !.waiter = update_waiter(@, op[f].waker)]

\* submit_poll, while an AFD poll is under way.
submit_poll(f) ==
  /\ op[f].pc = "blocked" /\ registrations[handle[f].token].poll_token # None
  /\ registrations' = Put(registrations, handle[f].token, Submitted(f))
  /\ op' = [op EXCEPT ![f].pc = "pending"]
  /\ UNCHANGED <<handle, ready, poll_ops, completions, afd, requests, port, woken>>

\* submit_poll with arm_poll_operation.
arm_poll_operation(f, p) ==
  LET k == handle[f].token
  IN  /\ op[f].pc = "blocked" /\ registrations[k].poll_token = None
      /\ p \notin DOMAIN poll_ops
      /\ registrations' = Put(registrations, k, [Submitted(f) EXCEPT !.poll_token = p])
      /\ poll_ops' = Put(poll_ops, p, k)
      /\ afd' = Put(afd, p, [fd |-> f, events |-> {op[f].side}])
      /\ op' = [op EXCEPT ![f].pc = "pending"]
      /\ UNCHANGED <<handle, ready, completions, requests, port, woken>>

\* Arming fails: poll and token are taken back, the waiter is not, and the
\* operation ends.
arm_poll_operation_Fails(f) ==
  LET k == handle[f].token
  IN  /\ op[f].pc = "blocked" /\ registrations[k].poll_token = None
      /\ registrations' = Put(registrations, k, Submitted(f))
      /\ op' = [op EXCEPT ![f] = NoOp]
      /\ UNCHANGED <<handle, ready, poll_ops, completions, afd, requests, port, woken>>

-----------------------------------------------------------------------------
(* Operations in completion mode.                                          *)

\* submit_completion.
submit_completion(f, s, w) ==
  /\ Polls(f, "Completion") /\ op[f].pc = "none"
  /\ s \notin DOMAIN completions
  /\ completions' = Put(completions, s,
       [waiter |-> w, completed |-> FALSE, overlapped |-> TRUE, ignored |-> FALSE])
  /\ requests' = Put(requests, s, f)
  /\ op' = [op EXCEPT ![f] = [NoOp EXCEPT !.pc = "pending", !.waker = w, !.slot = s]]
  /\ UNCHANGED <<handle, ready, registrations, poll_ops, afd, port, woken>>

\* get_completion_result.
get_completion_result(f) ==
  /\ Polls(f, "Completion") /\ op[f].pc = "pending" /\ completions[op[f].slot].completed
  /\ completions' = Without(completions, {op[f].slot})
  /\ op' = [op EXCEPT ![f] = NoOp]
  /\ woken' = {x \in woken : x[1] # f}
  /\ UNCHANGED <<handle, ready, registrations, poll_ops, afd, requests, port>>

\* set_completion_waker.
set_completion_waker(f, w) ==
  /\ Polls(f, "Completion") /\ op[f].pc = "pending" /\ ~completions[op[f].slot].completed
  /\ completions' = [completions EXCEPT ![op[f].slot].waiter = update_waiter(@, w)]
  /\ op' = [op EXCEPT ![f].waker = w]
  /\ woken' = {x \in woken : x[1] # f}
  /\ UNCHANGED <<handle, ready, registrations, poll_ops, afd, requests, port>>

ignore_completion(s) == [completions EXCEPT ![s].ignored = TRUE]

\* A pending operation is dropped.
Drop(f) ==
  /\ op[f].pc = "pending"
  /\ op' = [op EXCEPT ![f] = NoOp]
  /\ completions' = IF op[f].slot = None THEN completions ELSE ignore_completion(op[f].slot)
  /\ woken' = {x \in woken : x[1] # f}
  /\ UNCHANGED <<handle, ready, registrations, poll_ops, afd, requests, port>>

-----------------------------------------------------------------------------
(* The kernel and the completion port.                                     *)

\* A socket becomes ready or stops being so.
Changes(f, side) ==
  /\ handle[f].open = "yes" /\ handle[f].mode = "Poll"
  /\ ready' = [ready EXCEPT ![f] = IF side \in @ THEN @ \ {side} ELSE @ \cup {side}]
  /\ UNCHANGED <<handle, op, registrations, poll_ops, completions, afd, requests, port, woken>>

\* An AFD poll ends when its socket is ready.
AfdCompletes(p) ==
  /\ afd[p].events \cap ready[afd[p].fd] # {}
  /\ afd' = Without(afd, {p})
  /\ port' = port \cup {p}
  /\ UNCHANGED <<handle, ready, op, registrations, poll_ops, completions, requests, woken>>

\* A request is done.
RequestCompletes(s) ==
  /\ requests' = Without(requests, {s})
  /\ port' = port \cup {s}
  /\ UNCHANGED <<handle, ready, op, registrations, poll_ops, completions, afd, woken>>

\* process_entries, AFD polls: their registrations.
Notified == {poll_ops[p] : p \in port \cap DOMAIN poll_ops}

ClearedToken(p) == IF p \in port THEN None ELSE p

AfterPolls ==
  [k \in DOMAIN registrations |->
     IF k \in Notified
       THEN [registrations[k] EXCEPT
               !.waiter = None, !.poll_token = ClearedToken(@)]
       ELSE registrations[k]]

\* process_entries, completions: the ignored ones are removed.
AfterCompletions ==
  LET done == port \cap DOMAIN completions
  IN  [s \in {t \in DOMAIN completions : ~(t \in done /\ completions[t].ignored)} |->
         IF s \in done THEN [completions[s] EXCEPT
                               !.completed = TRUE, !.overlapped = FALSE, !.waiter = None]
         ELSE completions[s]]

\* A wake reaches the operation that is pending with this waker.
Reached(w) == {<<f, w>> : f \in {g \in Fds : op[g].pc = "pending" /\ op[g].waker = w}}

\* flush, and wait once an entry is there: process_ready_completions takes
\* batches until the port is empty.  (No entry depends on the one before.)
process_ready_completions ==
  /\ port # {}
  /\ registrations' = AfterPolls
  /\ poll_ops' = Without(poll_ops, port)
  /\ completions' = AfterCompletions
  /\ woken' = woken
       \cup UNION {Reached(registrations[k].waiter) : k \in Notified \cap DOMAIN registrations}
       \cup UNION {Reached(completions[s].waiter) : s \in port \cap DOMAIN completions}
  /\ port' = {}
  /\ UNCHANGED <<handle, ready, op, afd, requests>>

Next ==
  \/ \E f \in Fds :
       \/ \E k \in Tokens, m \in {"Poll", "Completion"} : register_handle_with_mode(f, k, m)
       \/ deregister_handle(f) \/ TryReady(f) \/ submit_poll(f) \/ arm_poll_operation_Fails(f)
       \/ \E p \in PollTokens : arm_poll_operation(f, p)
       \/ \E side \in Sides, w \in Wakers : TryBlocks(f, side, w)
       \/ \E w \in Wakers, s \in Slots : submit_completion(f, s, w)
       \/ get_completion_result(f) \/ Drop(f)
       \/ \E w \in Wakers : set_completion_waker(f, w)
       \/ \E side \in Sides : Changes(f, side)
  \/ \E p \in DOMAIN afd : AfdCompletes(p)
  \/ \E s \in DOMAIN requests : RequestCompletes(s)
  \/ process_ready_completions

Spec == Init /\ [][Next]_vars

-----------------------------------------------------------------------------
(* Properties.                                                             *)

(* What the kernel still uses or has queued is alive: the IO_STATUS_BLOCK  *)
(* and the buffers of an AFD poll, also after its registration was removed *)
(* and the token reused, and the OVERLAPPED of a request, also after its   *)
(* operation was dropped.  process_entries reads the key through this      *)
(* pointer.                                                                *)
StateOutlivesKernel ==
  /\ DOMAIN afd \cup (port \cap PollTokens) \subseteq DOMAIN poll_ops
  /\ \A s \in DOMAIN requests \cup (port \cap Slots) :
       s \in DOMAIN completions /\ completions[s].overlapped

(* A registration and its AFD poll agree.  The poll it names is its own    *)
(* and has an entry to come that clears the token, and every poll that is  *)
(* armed is named by the registration of its socket: there is one at a     *)
(* time, which is cancelled with the registration, whatever entries of a   *)
(* closed socket arrive under the same key.                                *)
PollTokenIsOwn ==
  /\ \A k \in DOMAIN registrations :
       LET p == registrations[k].poll_token
       IN  p # None =>
             /\ p \in DOMAIN poll_ops /\ poll_ops[p] = k
             /\ p \in port \/ (p \in DOMAIN afd /\ afd[p].fd = registrations[k].fd)
  /\ \A p \in DOMAIN afd :
       LET h == handle[afd[p].fd]
       IN  h.open = "yes" /\ registrations[h.token].poll_token = p

(* No pending operation is forgotten.  It has been woken with its last     *)
(* waker, or that waker is in its completion with an entry to come, or in  *)
(* its registration, with an AFD poll that reports the side it waits for   *)
(* or has an entry in the port.  This is for handles whose operations all  *)
(* wait for one side: the poll of a dropped operation stays armed for its  *)
(* side when an operation for the other side follows.                      *)
PendingIsReached ==
  \A f \in Fds :
    op[f].pc = "pending" =>
      \/ <<f, op[f].waker>> \in woken
      \/ /\ op[f].slot # None /\ completions[op[f].slot].waiter = op[f].waker
         /\ op[f].slot \in DOMAIN requests \cup port
      \/ /\ op[f].slot = None
         /\ LET r == registrations[handle[f].token]
            IN  /\ r.waiter = op[f].waker
                /\ \/ r.poll_token \in port
                   \/ r.poll_token \in DOMAIN afd /\ op[f].side \in afd[r.poll_token].events

(* The memory the kernel uses is alive and belongs to who names it: the    *)
(* two invariants above of registrations, polls and requests.              *)
KernelStateIsOwned == StateOutlivesKernel /\ PollTokenIsOwn
=============================================================================
