----------------------------- MODULE Operations ------------------------------
(***************************************************************************)
(* The operations of op/*.rs on Linux: what one of them does from poll to  *)
(* poll until its result is returned or its future is dropped.  WaitPidOp  *)
(* belongs to the reaper and ReadinessOp to the poll streams; both are     *)
(* left out here.                                                          *)
(*                                                                         *)
(* An operation is polled on the path its handle was registered for        *)
(* (fd_inner.rs).  On the poll path every system call is a step, so that   *)
(* the object may change between two of them.  On the completion path a    *)
(* poll is one step, and the kernel works on the request meanwhile.        *)
(*                                                                         *)
(* The driver is reduced to what the operations use: a slab of             *)
(* completions and one waiter per object (UringDriver and MioDriver have   *)
(* the rest).                                                              *)
(***************************************************************************)
EXTENDS Naturals, FiniteSets

CONSTANTS
  Ops,      \* operations, each of which is used once
  Tokens,   \* keys of the slab of completions
  Wakers,   \* wakers an operation may be polled with
  OpKinds,  \* the kinds of operation that each of them may be
  None      \* no token, no waker

-----------------------------------------------------------------------------
(* The operations.  `paths` are the polls it implements, `waits` is the    *)
(* interest its poll path submits, `lends` the memory its request points   *)
(* to until it completes, `keeps` what its Drop gives to                   *)
(* ignore_completion, and `checks` whether something may still fail once   *)
(* the kernel succeeded (the address of a peer, the flags of a             *)
(* descriptor).                                                            *)

Both == {"poll", "completion"}

Buffered(interest) ==
  [paths |-> Both, waits |-> interest, lends |-> {"buf"}, keeps |-> {"buf"}, checks |-> FALSE]

Plain == [paths |-> {"completion"}, waits |-> "none", lends |-> {}, keeps |-> {}, checks |-> FALSE]

ReadOp == Buffered("readable")
RecvOp == Buffered("readable")
WriteOp == Buffered("writable")
SendOp == Buffered("writable")
ReadAtOp == [Buffered("none") EXCEPT !.paths = {"completion"}]
WriteAtOp == [Buffered("none") EXCEPT !.paths = {"completion"}]

ReadvOp == [Buffered("readable") EXCEPT !.lends = {"buf", "iovecs"}, !.keeps = {"buf", "iovecs"}]
WritevOp == [Buffered("writable") EXCEPT !.lends = {"buf", "iovecs"}, !.keeps = {"buf", "iovecs"}]

RecvfromOp ==
  [Buffered("readable") EXCEPT !.lends = {"buf", "msghdr"}, !.keeps = {"buf", "msghdr"},
                               !.checks = TRUE]
SendtoOp == [Buffered("writable") EXCEPT !.lends = {"buf", "msghdr"}, !.keeps = {"buf", "msghdr"}]

AcceptOp == [Plain EXCEPT !.paths = Both, !.waits = "readable", !.checks = TRUE]
AcceptUnixOp == [Plain EXCEPT !.paths = Both, !.waits = "readable", !.checks = TRUE]
ConnectOp == [Plain EXCEPT !.paths = Both, !.waits = "writable"]
SpliceOp == [Plain EXCEPT !.paths = Both, !.waits = "writable"]
SendfileOp == [Plain EXCEPT !.paths = {"poll"}, !.waits = "writable"]
StatxOp == [Plain EXCEPT !.lends = {"statxbuf"}, !.keeps = {"statxbuf"}]
OpenOp == Plain
FsyncOp == Plain
MkDirOp == Plain
RenameOp == Plain
UnlinkOp == Plain
SymlinkOp == Plain
HardLinkOp == Plain

Shapes ==
  [Read |-> ReadOp, Recv |-> RecvOp, Write |-> WriteOp, Send |-> SendOp, ReadAt |-> ReadAtOp,
   WriteAt |-> WriteAtOp, Readv |-> ReadvOp, Writev |-> WritevOp, Recvfrom |-> RecvfromOp,
   Sendto |-> SendtoOp, Accept |-> AcceptOp, AcceptUnix |-> AcceptUnixOp, Connect |-> ConnectOp,
   Splice |-> SpliceOp, Sendfile |-> SendfileOp, Statx |-> StatxOp, Open |-> OpenOp,
   Fsync |-> FsyncOp, MkDir |-> MkDirOp, Rename |-> RenameOp, Unlink |-> UnlinkOp,
   Symlink |-> SymlinkOp, HardLink |-> HardLinkOp]

Kinds == DOMAIN Shapes

ASSUME OperationsAssumption ==
  None \notin Tokens \cup Wakers /\ OpKinds \in [Ops -> SUBSET Kinds]

\* The interest that says the system call of an operation would not block.
Needs(k) ==
  IF k \in {"Read", "Recv", "Readv", "Recvfrom", "Accept", "AcceptUnix"} THEN "readable"
  ELSE "writable"

VARIABLES
  op,           \* the operations
  object,       \* what an operation works on: [ready, conn, effect]
  waiter,       \* the waiter of the object's registration: [waker, interest]
  completions,  \* the slab of completions
  request,      \* the kernel's side of a completion
  woken         \* the operations woken since their last poll, with the waker

vars == <<op, object, waiter, completions, request, woken>>

NoWaiter == [waker |-> None, interest |-> "none"]

Init ==
  /\ op = [o \in Ops |-> [kind |-> "Read", path |-> "poll", pc |-> "none", token |-> None,
                          started |-> FALSE, waker |-> None, mem |-> {}, result |-> "none"]]
  /\ object = [o \in Ops |-> [ready |-> {}, conn |-> "idle", effect |-> 0]]
  /\ waiter = [o \in Ops |-> NoWaiter]
  /\ completions = [t \in {} |-> {}]
  /\ request = [t \in {} |-> {}]
  /\ woken = {}

-----------------------------------------------------------------------------
(* Memory: a piece and where it is.  A buffer is on the heap (Vec) or held *)
(* by value (an array); what an operation builds for its request is boxed. *)

\* Mutant: a buffer held by value stays in the operation.
CompletionBuffer_Inline(inline, stable) == IF inline THEN "op" ELSE "heap"

\* CompletionBuffer::new.
CompletionBuffer(inline, stable) ==
  IF inline THEN (IF stable THEN "box" ELSE "op") ELSE "heap"

\* into_stable_box.
StableBox(m) == IF m[2] = "op" THEN <<m[1], "box">> ELSE m

Shape(o) == Shapes[op[o].kind]

\* A new operation, with its buffer.  The buffers of readv and writev are
\* behind pointers.
New(o, k, p, inline) ==
  /\ op[o].pc = "none"
  /\ p \in Shapes[k].paths
  /\ inline => "buf" \in Shapes[k].lends /\ "iovecs" \notin Shapes[k].lends
  /\ op' = [op EXCEPT ![o] =
       [@ EXCEPT !.kind = k, !.path = p, !.pc = "idle",
                 !.mem = IF "buf" \in Shapes[k].lends
                           THEN {<<"buf", CompletionBuffer(inline, p = "completion")>>} ELSE {}]]
  /\ UNCHANGED <<object, waiter, completions, request, woken>>

\* The poll returns Ready: the caller has the result, its buffers back
\* (take_bufs) and drops the operation, which has no token any more.
Ready(o, r) == [op[o] EXCEPT !.pc = "over", !.token = None, !.mem = {}, !.result = r]

\* The results of an operation whose system call or request succeeded.
Succeeds(o) == {"ok"} \cup (IF Shape(o).checks THEN {"err"} ELSE {})

\* poll_op of the handle, on path p.
Polled(o, p) == op[o].pc = "idle" /\ op[o].path = p

\* Waking the waiter of an operation that is over has no use to it.
Woken(o, w) == IF op[o].pc = "over" THEN woken ELSE woken \cup {<<o, w>>}

Unwoken(o) == woken' = {x \in woken : x[1] # o}

-----------------------------------------------------------------------------
(* The completion path.                                                    *)

Built(o) == {<<m, "box">> : m \in Shape(o).lends \ {"buf"}}

Pending(o, w, t) == [op[o] EXCEPT !.waker = w, !.token = t, !.mem = @ \cup Built(o)]

\* poll_completion, without a token: submit_completion.
submit_completion(o, w, t) ==
  /\ Polled(o, "completion")
  /\ op[o].token = None
  /\ t \notin DOMAIN completions
  /\ op' = [op EXCEPT ![o] = Pending(o, w, t)]
  /\ completions' = [j \in DOMAIN completions \cup {t} |->
       IF j = t THEN [waker |-> w, completed |-> "no", ignored |-> FALSE, kept |-> {}]
       ELSE completions[j]]
  /\ request' = [j \in DOMAIN request \cup {t} |->
       IF j = t THEN [op |-> o, state |-> "working", lent |-> op[o].mem \cup Built(o)]
       ELSE request[j]]
  /\ Unwoken(o)
  /\ UNCHANGED <<object, waiter>>

\* SubmitErr.
submit_completion_Fails(o, w) ==
  /\ Polled(o, "completion")
  /\ op[o].token = None
  /\ op' = [op EXCEPT ![o] = Ready(o, "err")]
  /\ Unwoken(o)
  /\ UNCHANGED <<object, waiter, completions, request>>

\* poll_completion, with a token: get_completion_result.
get_completion_result(o, w) ==
  LET t == op[o].token
  IN  /\ Polled(o, "completion")
      /\ t # None
      /\ completions[t].completed # "no"
      /\ \E r \in IF completions[t].completed = "ok" THEN Succeeds(o) ELSE {"err"} :
           op' = [op EXCEPT ![o] = Ready(o, r)]
      /\ completions' = [j \in DOMAIN completions \ {t} |-> completions[j]]
      /\ Unwoken(o)
      /\ UNCHANGED <<object, waiter, request>>

\* Mutant: the waker of the first poll stays.
set_completion_waker_Keeps(o, w) ==
  /\ Polled(o, "completion")
  /\ op[o].token # None
  /\ completions[op[o].token].completed = "no"
  /\ op' = [op EXCEPT ![o].waker = w]
  /\ Unwoken(o)
  /\ UNCHANGED <<object, waiter, completions, request>>

\* ... or set_completion_waker.
set_completion_waker(o, w) ==
  /\ Polled(o, "completion")
  /\ op[o].token # None
  /\ completions[op[o].token].completed = "no"
  /\ op' = [op EXCEPT ![o].waker = w]
  /\ completions' = [completions EXCEPT ![op[o].token].waker = w]
  /\ Unwoken(o)
  /\ UNCHANGED <<object, waiter, request>>

\* The kernel is done with a request, which had its effect or none (an error,
\* or the handle was dropped and its requests were cancelled).
Complete(t, r) ==
  /\ request[t].state = "working"
  /\ request' = [request EXCEPT ![t].state = r]
  /\ object' = IF r = "ok" THEN [object EXCEPT ![request[t].op].effect = @ + 1] ELSE object
  /\ UNCHANGED <<op, waiter, completions, woken>>

\* The driver drains a completion.
Drain(t) ==
  /\ request[t].state # "working"
  /\ request' = [j \in DOMAIN request \ {t} |-> request[j]]
  /\ completions' =
       IF completions[t].ignored THEN [j \in DOMAIN completions \ {t} |-> completions[j]]
       ELSE [completions EXCEPT ![t].completed = request[t].state, ![t].waker = None]
  /\ woken' = Woken(request[t].op, completions[t].waker)
  /\ UNCHANGED <<op, object, waiter>>

\* Drop of an operation that is still pending: ignore_completion takes what
\* the request points to.
Drop(o) ==
  LET t == op[o].token
  IN  /\ op[o].pc = "idle"
      /\ op' = [op EXCEPT ![o] = Ready(o, "dropped")]
      /\ completions' =
           IF t = None THEN completions
           ELSE [completions EXCEPT
                   ![t].ignored = TRUE,
                   ![t].kept = {StableBox(m) : m \in {n \in op[o].mem : n[1] \in Shape(o).keeps}}]
      /\ Unwoken(o)
      /\ UNCHANGED <<object, waiter, request>>

-----------------------------------------------------------------------------
(* The poll path.                                                          *)

\* poll_poll of all but ConnectOp: the system call.  Where it would block,
\* poll_result_or_wait goes on with submit_poll.
poll_poll(o, w) ==
  /\ Polled(o, "poll")
  /\ op[o].kind # "Connect"
  /\ IF Needs(op[o].kind) \in object[o].ready
       THEN \/ /\ object' = [object EXCEPT ![o].effect = @ + 1]
               /\ \E r \in Succeeds(o) : op' = [op EXCEPT ![o] = Ready(o, r)]
            \/ /\ op' = [op EXCEPT ![o] = Ready(o, "err")]
               /\ UNCHANGED object
       ELSE /\ op' = [op EXCEPT ![o].pc = "wait", ![o].waker = w]
            /\ UNCHANGED object
  /\ Unwoken(o)
  /\ UNCHANGED <<waiter, completions, request>>

\* submit_poll: the operation is pending.
submit_poll(o) ==
  /\ op[o].pc = "wait"
  /\ waiter' = [waiter EXCEPT ![o] = [waker |-> op[o].waker, interest |-> Shape(o).waits]]
  /\ op' = [op EXCEPT ![o].pc = "idle"]
  /\ UNCHANGED <<object, completions, request, woken>>

\* submit_poll fails: the operation ends with its error.
submit_poll_Fails(o) ==
  /\ op[o].pc = "wait"
  /\ op' = [op EXCEPT ![o] = Ready(o, "err")]
  /\ UNCHANGED <<object, waiter, completions, request, woken>>

\* ConnectOp::poll_poll, start_nonblocking_connect: connect is called once.  It
\* fails, is in progress, is done at once, or finds the backlog of a Unix
\* socket full (EWOULDBLOCK, with the socket left as it was).
start_nonblocking_connect(o, w) ==
  /\ Polled(o, "poll")
  /\ op[o].kind = "Connect"
  /\ ~op[o].started
  /\ \/ /\ op' = [op EXCEPT ![o] = Ready(o, "err")]
        /\ UNCHANGED object
     \/ /\ object[o].conn = "idle"
        /\ op' = [op EXCEPT ![o].pc = "so_error", ![o].started = TRUE, ![o].waker = w]
        /\ \/ object' = [object EXCEPT ![o].conn = "connecting"]
           \/ object' = [object EXCEPT ![o].conn = "connected", ![o].effect = 1,
                                       ![o].ready = {"writable"}]
           \/ object' = [object EXCEPT ![o].ready = {"writable"}]
  /\ Unwoken(o)
  /\ UNCHANGED <<waiter, completions, request>>

\* Later polls go on with connect_poll_unix.
ConnectStarted(o, w) ==
  /\ Polled(o, "poll")
  /\ op[o].kind = "Connect"
  /\ op[o].started
  /\ op' = [op EXCEPT ![o].pc = "so_error", ![o].waker = w]
  /\ Unwoken(o)
  /\ UNCHANGED <<object, waiter, completions, request>>

\* connect_poll_unix reads SO_ERROR, which clears it ...
SoError(o) ==
  /\ op[o].pc = "so_error"
  /\ IF object[o].conn = "failed"
       THEN /\ op' = [op EXCEPT ![o] = Ready(o, "err")]
            /\ object' = [object EXCEPT ![o].conn = "closed"]
       ELSE /\ op' = [op EXCEPT ![o].pc = "peer"]
            /\ UNCHANGED object
  /\ UNCHANGED <<waiter, completions, request, woken>>

\* Mutant: SO_ERROR alone decides.
getpeername_Skipped(o) ==
  /\ op[o].pc = "peer"
  /\ op' = [op EXCEPT ![o] = Ready(o, "ok")]
  /\ UNCHANGED <<object, waiter, completions, request, woken>>

\* ... and asks for the peer, to see whether there is a connection.
getpeername(o) ==
  /\ op[o].pc = "peer"
  /\ op' = [op EXCEPT ![o] = IF object[o].conn = "connected" THEN Ready(o, "ok")
                             ELSE [@ EXCEPT !.pc = "wait"]]
  /\ UNCHANGED <<object, waiter, completions, request, woken>>

-----------------------------------------------------------------------------
(* The objects and the driver's events.                                    *)

\* Data, room or a connection to accept comes, or another reader takes it.
Changes(o) ==
  /\ op[o].pc \notin {"none", "over"} /\ op[o].path = "poll" /\ op[o].kind # "Connect"
  /\ object' = [object EXCEPT ![o].ready = {Needs(op[o].kind)} \ @]
  /\ UNCHANGED <<op, waiter, completions, request, woken>>

\* The connection is made, is refused or, once made, reset.
ConnectionChanges(o, c) ==
  /\ <<object[o].conn, c>> \in {<<"connecting", "connected">>, <<"connecting", "failed">>,
                                <<"connected", "failed">>}
  /\ object' = [object EXCEPT ![o].conn = c, ![o].ready = {"readable", "writable"},
                              ![o].effect = IF c = "connected" THEN 1 ELSE @]
  /\ UNCHANGED <<op, waiter, completions, request, woken>>

\* The driver wakes the waiter of an object that is ready for its interest.
Event(o) ==
  /\ waiter[o].interest \in object[o].ready
  /\ woken' = Woken(o, waiter[o].waker)
  /\ waiter' = [waiter EXCEPT ![o] = NoWaiter]
  /\ UNCHANGED <<op, object, completions, request>>

Next ==
  \/ \E o \in Ops, p \in Both, inline \in BOOLEAN : \E k \in OpKinds[o] : New(o, k, p, inline)
  \/ \E o \in Ops, w \in Wakers :
       \/ \E t \in Tokens : submit_completion(o, w, t)
       \/ submit_completion_Fails(o, w) \/ get_completion_result(o, w) \/ set_completion_waker(o, w)
       \/ poll_poll(o, w) \/ start_nonblocking_connect(o, w) \/ ConnectStarted(o, w)
  \/ \E o \in Ops : submit_poll(o) \/ submit_poll_Fails(o) \/ SoError(o) \/ getpeername(o)
                      \/ Drop(o) \/ Event(o) \/ Changes(o)
  \/ \E t \in DOMAIN request : Drain(t) \/ \E r \in {"ok", "err"} : Complete(t, r)
  \/ \E o \in Ops, c \in {"connected", "failed"} : ConnectionChanges(o, c)

Spec == Init /\ [][Next]_vars

-----------------------------------------------------------------------------
(* Properties.                                                             *)

(* While the kernel works on a request, everything the request points to   *)
(* is alive and where it was: the pending operation owns it or, after the  *)
(* operation was dropped, the completion's slot does ("it needs to be kept *)
(* alive until the completion is ready").                                  *)
LentIsKept ==
  \A t \in DOMAIN request :
    request[t].state = "working" => request[t].lent \subseteq op[request[t].op].mem \cup completions[t].kept

(* A result says what happened.  An operation returns Ok only if it took   *)
(* effect exactly once, a connection that was in progress included, and an *)
(* operation that returns an error had none, unless the peer was lost or a *)
(* check after the system call failed.  No operation takes effect twice,   *)
(* however often it is polled.                                             *)
ResultIsTruthful ==
  \A o \in Ops :
    /\ object[o].effect <= 1
    /\ op[o].result = "ok" => object[o].effect = 1
    /\ op[o].result = "err" =>
         object[o].effect = 0 \/ Shape(o).checks \/ object[o].conn \in {"connected", "failed", "closed"}

(* An operation whose last poll returned Pending has been woken with the   *)
(* waker of that poll, or that waker is where an answer finds it: in the   *)
(* slot of its own request, which the kernel or the driver still has to    *)
(* finish, or as the waiter for an interest whose event comes when the     *)
(* operation can go on.                                                    *)
PendingIsWatched ==
  \A o \in Ops :
    LET t == op[o].token
    IN  op[o].pc = "idle" /\ op[o].waker # None =>
          \/ <<o, op[o].waker>> \in woken
          \/ /\ t # None /\ t \in DOMAIN request
             /\ request[t].op = o /\ completions[t].waker = op[o].waker
             /\ ~completions[t].ignored
          \/ /\ op[o].path = "poll"
             /\ waiter[o] = [waker |-> op[o].waker, interest |-> Needs(op[o].kind)]

=============================================================================
