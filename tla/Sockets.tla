-------------------------------- MODULE Sockets --------------------------------
(***************************************************************************)
(* Streams, datagram sockets, listeners and pipes: net/ and io/pipe.rs on  *)
(* InnerRawHandle (fd_inner.rs), with the part of the drivers they use.    *)
(*                                                                         *)
(* An object is an operating system's descriptor and a handle that is      *)
(* registered with the driver in one of two modes.  Its operations are     *)
(* requests to the driver in completion mode; in poll mode they are system *)
(* calls of the runtime's thread, that wait for readiness when the call    *)
(* would block.  That works if O_NONBLOCK of the file description, which   *)
(* clones share, is set in poll mode only.                                 *)
(*                                                                         *)
(* Left out: addresses, socket options, what is sent, and failures to      *)
(* register a handle, which drop the object.                               *)
(***************************************************************************)
EXTENDS Naturals

CONSTANTS
  Completes,   \* what supports_completion() may be
  Fds,         \* file descriptions
  Objects,     \* places of the program for objects
  Tasks,
  None

SocketsAssumption == Completes \subseteq BOOLEAN /\ None \notin Fds \cup Objects \cup Tasks

VARIABLES
  completion,    \* driver.supports_completion()
  object,        \* [type, poll, fd, mode] of an object; `poll` for the Poll... types
  ready,         \* read_ready and write_ready of the Poll... types
  nonblocking,   \* O_NONBLOCK of a description
  level,         \* the sides on which a description is ready, to the kernel
  waiter,        \* the driver's waiter for a side of a handle
  at,            \* what a task waits in, [object, side, where]: "ring" for a
                 \* request, "poll" for readiness, "lost" if a later poll of
                 \* another task has taken its place as waiter
  mixed,         \* descriptions that handles of both modes have shared
  wronged        \* descriptions on which a system call blocked the runtime, or
                 \* a request came back with EAGAIN

vars == <<completion, object, ready, nonblocking, level, waiter, at, mixed, wronged>>

Sides == {"read", "write"}
NoWaiter == [s \in Sides |-> None]
Idle == [object |-> None, side |-> None, where |-> "none"]

Init ==
  /\ completion \in Completes
  /\ object = [h \in Objects |-> None]
  /\ ready = [h \in Objects |-> {}]
  /\ nonblocking \in [Fds -> BOOLEAN]
  /\ level = [f \in Fds |-> {}]
  /\ waiter = [h \in Objects |-> NoWaiter]
  /\ at = [t \in Tasks |-> Idle]
  /\ mixed = {} /\ wronged = {}

-----------------------------------------------------------------------------
(* Handles.                                                                *)

\* new_with_driver_and_mode and rebind_mode: completion mode needs a driver
\* that supports it.
Granted(mode) == IF mode = "completion" /\ ~completion THEN "poll" ELSE mode

uses_completion(h) == completion /\ object[h].mode = "completion"

Exists(h) == object[h] # None
Holders(f) == {h \in Objects : Exists(h) /\ object[h].fd = f}
Used(h) == \E t \in Tasks : at[t].object = h

\* The modes of all handles of a description, with h's the given one.
Mixes(h, f, mode) == \E g \in Holders(f) \ {h} : object[g].mode # mode

\* Mutant: the flag is set for the mode that was asked for.
set_nonblocking_asked(mode) == mode = "poll"

\* set_nonblocking(!handle.uses_completion()).
set_nonblocking(mode) == ~(completion /\ Granted(mode) = "completion")

\* An object of a type, with a handle in the mode granted.
Makes(h, type, poll, f, mode) ==
  /\ ~Exists(h)
  /\ object' = [object EXCEPT ![h] = [type |-> type, poll |-> poll, fd |-> f,
                                      mode |-> Granted(mode)]]
  /\ ready' = [ready EXCEPT ![h] = {}]
  /\ waiter' = [waiter EXCEPT ![h] = NoWaiter]
  /\ nonblocking' = [nonblocking EXCEPT ![f] = set_nonblocking(mode)]
  /\ mixed' = IF Mixes(h, f, Granted(mode)) THEN mixed \cup {f}
              ELSE IF Holders(f) = {} THEN mixed \ {f} ELSE mixed
  /\ wronged' = IF Holders(f) = {} THEN wronged \ {f} ELSE wronged
  /\ UNCHANGED <<completion, level, at>>

\* A description the program has just got from the system, from std, or from
\* into_raw_fd.
New(h, type, poll, mode) == \E f \in Fds : Holders(f) = {} /\ Makes(h, type, poll, f, mode)

\* from_std, bind, accept and connect of the types: which mode they ask for.
TcpStream_from_std(h) == New(h, "TcpStream", FALSE, "completion")
PollTcpStream_from_std(h) == New(h, "TcpStream", TRUE, "poll")
UnixStream_from_std(h) == New(h, "UnixStream", FALSE, "completion")
PollUnixStream_from_std(h) == New(h, "UnixStream", TRUE, "poll")
from_std_poll(h) == New(h, "UnixStream", TRUE, "completion")
UdpSocket_from_std(h) == New(h, "UdpSocket", FALSE, "completion")
PollUdpSocket_from_std(h) == New(h, "UdpSocket", TRUE, "poll")
Pipe_from_std(h) == New(h, "Pipe", FALSE, "completion")
TcpListener_from_std(h) == New(h, "TcpListener", FALSE, "completion")
UnixListener_from_std(h) == New(h, "UnixListener", FALSE, "completion")

\* wrap_udp_socket of the quinn adapter: its clone is used only in the
\* closures it passes to try_io_readable and try_io_writable.
wrap_udp_socket(h) == New(h, "quinn", TRUE, "poll")

FromStd(h) ==
  \/ TcpStream_from_std(h) \/ PollTcpStream_from_std(h)
  \/ UnixStream_from_std(h) \/ PollUnixStream_from_std(h) \/ from_std_poll(h)
  \/ UdpSocket_from_std(h) \/ PollUdpSocket_from_std(h) \/ wrap_udp_socket(h)
  \/ Pipe_from_std(h) \/ TcpListener_from_std(h) \/ UnixListener_from_std(h)

\* try_clone of either type of datagram socket asks for completion mode.
Clone(g, h, poll) ==
  /\ Exists(h) /\ object[h].type = "UdpSocket" /\ object[h].poll = poll
  /\ Makes(g, "UdpSocket", poll, object[h].fd, "completion")

UdpSocket_try_clone(g, h) == Clone(g, h, FALSE)
PollUdpSocket_try_clone(g, h) == Clone(g, h, TRUE)

\* rebind_mode and set_nonblocking of the conversions: a new registration if
\* the mode changes.  The object is moved, so that no task waits in it.
Rebinds(h, poll, mode) ==
  /\ Exists(h) /\ ~Used(h)
  /\ object' = [object EXCEPT ![h].mode = Granted(mode), ![h].poll = poll]
  /\ ready' = [ready EXCEPT ![h] = {}]
  /\ waiter' = [waiter EXCEPT ![h] = IF object[h].mode = Granted(mode) THEN @ ELSE NoWaiter]
  /\ nonblocking' = [nonblocking EXCEPT ![object[h].fd] = set_nonblocking(mode)]
  /\ mixed' = IF Mixes(h, object[h].fd, Granted(mode)) THEN mixed \cup {object[h].fd} ELSE mixed
  /\ UNCHANGED <<completion, level, at, wronged>>

Is(h, type, poll) == Exists(h) /\ object[h].type = type /\ object[h].poll = poll

IntoPoll(h, type) == Is(h, type, FALSE) /\ Rebinds(h, TRUE, "poll")
IntoCompletion(h, type) == Is(h, type, TRUE) /\ Rebinds(h, FALSE, "completion")

TcpStream_into_poll(h) == IntoPoll(h, "TcpStream")
UnixStream_into_poll(h) == IntoPoll(h, "UnixStream")
UdpSocket_into_poll(h) == IntoPoll(h, "UdpSocket")
Pipe_into_poll(h) == IntoPoll(h, "Pipe")
TcpStream_into_completion(h) == IntoCompletion(h, "TcpStream")
UnixStream_into_completion(h) == IntoCompletion(h, "UnixStream")
UdpSocket_into_completion(h) == IntoCompletion(h, "UdpSocket")
Pipe_into_completion(h) == IntoCompletion(h, "Pipe")

\* into_adaptive keeps the handle as it is.
into_adaptive(h) ==
  /\ Exists(h) /\ object[h].poll /\ object[h].type # "quinn" /\ ~Used(h)
  /\ object' = [object EXCEPT ![h].poll = FALSE]
  /\ UNCHANGED <<completion, ready, nonblocking, level, waiter, at, mixed, wronged>>

\* Drop, into_raw_fd, into_raw_socket and into_std deregister the handle.
Deregisters(h, type) ==
  /\ Exists(h) /\ object[h].type = type /\ ~Used(h)
  /\ object' = [object EXCEPT ![h] = None]
  /\ waiter' = [waiter EXCEPT ![h] = NoWaiter]
  /\ UNCHANGED <<completion, ready, nonblocking, level, at, mixed, wronged>>

TcpStream_drop(h) == Deregisters(h, "TcpStream")
UnixStream_drop(h) == Deregisters(h, "UnixStream")
UdpSocket_drop(h) == Deregisters(h, "UdpSocket")
Pipe_drop(h) == Deregisters(h, "Pipe")
TcpListener_drop(h) == Deregisters(h, "TcpListener")
UnixListener_drop(h) == Deregisters(h, "UnixListener")
ZincioUdpSocket_drop(h) == Deregisters(h, "quinn")

Drops(h) ==
  \/ TcpStream_drop(h) \/ UnixStream_drop(h) \/ UdpSocket_drop(h) \/ Pipe_drop(h)
  \/ TcpListener_drop(h) \/ UnixListener_drop(h) \/ ZincioUdpSocket_drop(h)

Converts(h) ==
  \/ TcpStream_into_poll(h) \/ UnixStream_into_poll(h)
  \/ UdpSocket_into_poll(h) \/ Pipe_into_poll(h)
  \/ TcpStream_into_completion(h) \/ UnixStream_into_completion(h)
  \/ UdpSocket_into_completion(h) \/ Pipe_into_completion(h)
  \/ into_adaptive(h)

-----------------------------------------------------------------------------
(* Operations.                                                             *)

Answers(t) == at' = [at EXCEPT ![t] = Idle]

\* Mutant: the first waiter of a side is kept.
update_waiter_first(h, s, t) == IF waiter[h][s] = None THEN t ELSE waiter[h][s]

\* A side has one waiter: the task that polled last.
update_waiter(h, s, t) == t

\* driver.submit_poll: the task waits for the side.
submit_poll(t, h, s) ==
  /\ waiter' = [waiter EXCEPT ![h][s] = update_waiter(h, s, t)]
  /\ at' = [u \in Tasks |->
              IF u = t THEN [object |-> h, side |-> s, where |-> "poll"]
              ELSE IF at[u].object = h /\ at[u].side = s /\ at[u].where = "poll"
              THEN [at[u] EXCEPT !.where = "lost"] ELSE at[u]]

\* A system call on the runtime's thread: it succeeds, and may use up what
\* there is; or it would block.
Succeeds(t, f, s) ==
  /\ s \in level[f]
  /\ \E rest \in {level[f], level[f] \ {s}} : level' = [level EXCEPT ![f] = rest]
  /\ Answers(t)
  /\ UNCHANGED wronged

Blocks(t, f, s) ==
  /\ s \notin level[f] /\ ~nonblocking[f]
  /\ wronged' = wronged \cup {f}
  /\ Answers(t)
  /\ UNCHANGED level

\* Op::poll_poll: the system call, and the wait for readiness after EAGAIN.
poll_poll(t, h, s) ==
  LET f == object[h].fd
  IN  /\ \/ Succeeds(t, f, s) /\ UNCHANGED waiter
         \/ Blocks(t, f, s) /\ UNCHANGED waiter
         \/ /\ s \notin level[f] /\ nonblocking[f]
            /\ submit_poll(t, h, s)
            /\ UNCHANGED <<level, wronged>>
      /\ UNCHANGED <<completion, object, ready, nonblocking, mixed>>

\* poll_op: a request in completion mode.
poll_op(t, h, s) ==
  \/ ~uses_completion(h) /\ poll_poll(t, h, s)
  \/ /\ uses_completion(h)
     /\ at' = [at EXCEPT ![t] = [object |-> h, side |-> s, where |-> "ring"]]
     /\ UNCHANGED <<completion, object, ready, nonblocking, level, waiter, mixed, wronged>>

\* poll_op_poll: completion mode is refused.
poll_op_poll(t, h, s) ==
  \/ ~uses_completion(h) /\ poll_poll(t, h, s)
  \/ /\ uses_completion(h)
     /\ Answers(t)
     /\ UNCHANGED <<completion, object, ready, nonblocking, level, waiter, mixed, wronged>>

\* A task that waits for nothing polls: an operation it begins, or the one it
\* was woken in.  `&mut self` keeps other tasks from the same side of a stream
\* or a pipe.
Shared(type) == type \in {"UdpSocket", "TcpListener", "UnixListener", "quinn"}
Alone(t, h, s) == \A u \in Tasks \ {t} : at[u].object # h \/ at[u].side # s

Operation(t, h, s, type, poll) ==
  /\ Is(h, type, poll) /\ (Shared(type) \/ Alone(t, h, s))
  /\ at[t] = Idle /\ poll_op(t, h, s)

PollOperation(t, h, s, type) ==
  /\ Is(h, type, TRUE) /\ (Shared(type) \/ Alone(t, h, s))
  /\ at[t] = Idle /\ poll_op_poll(t, h, s)

\* connect_one waits for the socket it has made; a socket that cannot be
\* connected is dropped before the next address is tried.
TcpStream_connect(t, h) == Operation(t, h, "write", "TcpStream", FALSE)
PollTcpStream_connect(t, h) == Operation(t, h, "write", "TcpStream", TRUE)
UnixStream_connect(t, h) == Operation(t, h, "write", "UnixStream", FALSE)
PollUnixStream_connect(t, h) == Operation(t, h, "write", "UnixStream", TRUE)

\* read, write and their vectored forms; peek.
TcpStream_read(t, h) == Operation(t, h, "read", "TcpStream", FALSE)
TcpStream_write(t, h) == Operation(t, h, "write", "TcpStream", FALSE)
PollTcpStream_poll_read(t, h) == PollOperation(t, h, "read", "TcpStream")
PollTcpStream_poll_write(t, h) == PollOperation(t, h, "write", "TcpStream")
UnixStream_read(t, h) == Operation(t, h, "read", "UnixStream", FALSE)
UnixStream_write(t, h) == Operation(t, h, "write", "UnixStream", FALSE)
PollUnixStream_poll_read(t, h) == PollOperation(t, h, "read", "UnixStream")
PollUnixStream_poll_write(t, h) == PollOperation(t, h, "write", "UnixStream")
Pipe_read(t, h) == Operation(t, h, "read", "Pipe", FALSE)
Pipe_write(t, h) == Operation(t, h, "write", "Pipe", FALSE)
PollPipe_poll_read(t, h) == PollOperation(t, h, "read", "Pipe")
PollPipe_poll_write(t, h) == PollOperation(t, h, "write", "Pipe")

\* recv, recv_from, peek and peek_from; send, send_to and connect.  The
\* futures of PollUdpSocket are those of UdpSocket.
UdpSocket_recv(t, h) == Operation(t, h, "read", "UdpSocket", FALSE)
UdpSocket_send(t, h) == Operation(t, h, "write", "UdpSocket", FALSE)
PollUdpSocket_recv(t, h) == Operation(t, h, "read", "UdpSocket", TRUE)
PollUdpSocket_poll_recv(t, h) == PollOperation(t, h, "read", "UdpSocket")
PollUdpSocket_poll_send(t, h) == PollOperation(t, h, "write", "UdpSocket")

\* accept; what it returns becomes a stream with from_std.
TcpListener_accept(t, h) == Operation(t, h, "read", "TcpListener", FALSE)
UnixListener_accept(t, h) == Operation(t, h, "read", "UnixListener", FALSE)

Operates(t, h) ==
  \/ TcpStream_connect(t, h) \/ PollTcpStream_connect(t, h)
  \/ UnixStream_connect(t, h) \/ PollUnixStream_connect(t, h)
  \/ TcpStream_read(t, h) \/ TcpStream_write(t, h)
  \/ PollTcpStream_poll_read(t, h) \/ PollTcpStream_poll_write(t, h)
  \/ UnixStream_read(t, h) \/ UnixStream_write(t, h)
  \/ PollUnixStream_poll_read(t, h) \/ PollUnixStream_poll_write(t, h)
  \/ Pipe_read(t, h) \/ Pipe_write(t, h)
  \/ PollPipe_poll_read(t, h) \/ PollPipe_poll_write(t, h)
  \/ UdpSocket_recv(t, h) \/ UdpSocket_send(t, h) \/ PollUdpSocket_recv(t, h)
  \/ PollUdpSocket_poll_recv(t, h) \/ PollUdpSocket_poll_send(t, h)
  \/ TcpListener_accept(t, h) \/ UnixListener_accept(t, h)

-----------------------------------------------------------------------------
(* Readiness of the Poll... types, and the quinn adapter.                  *)

Readies == {"TcpStream", "UnixStream", "UdpSocket", "quinn"}

\* poll_readable and poll_writable: the flag is set with the wait, for the
\* poll that the wakeup leads to.
poll_ready(t, h, s) ==
  /\ Exists(h) /\ object[h].poll /\ object[h].type \in Readies
  /\ at[t] = Idle
  /\ \/ s \in ready[h] /\ Answers(t) /\ UNCHANGED <<ready, waiter>>
     \/ s \notin ready[h] /\ uses_completion(h) /\ Answers(t) /\ UNCHANGED <<ready, waiter>>
     \/ /\ s \notin ready[h] /\ ~uses_completion(h)
        /\ ready' = [ready EXCEPT ![h] = @ \cup {s}]
        /\ submit_poll(t, h, s)
  /\ UNCHANGED <<completion, object, nonblocking, level, mixed, wronged>>

\* try_io_readable and try_io_writable: the closure is called if the flag is
\* set, and an error clears it.
try_io(t, h, s) ==
  LET f == object[h].fd
  IN  /\ Exists(h) /\ object[h].poll /\ object[h].type \in Readies
      /\ at[t] = Idle /\ s \in ready[h]
      /\ \/ (Succeeds(t, f, s) \/ Blocks(t, f, s)) /\ UNCHANGED ready
         \/ /\ s \notin level[f] /\ nonblocking[f]
            /\ ready' = [ready EXCEPT ![h] = @ \ {s}]
            /\ UNCHANGED <<level, at, wronged>>
      /\ UNCHANGED <<completion, object, nonblocking, waiter, mixed>>

\* poll_recv of the quinn adapter: poll_readable and try_io_readable in turn,
\* until there is a datagram or nothing to be read.
ZincioUdpSocket_poll_recv(t, h) ==
  /\ Is(h, "quinn", TRUE) /\ at[t] = Idle
  /\ \/ "read" \in ready[h] /\ Succeeds(t, object[h].fd, "read") /\ UNCHANGED <<ready, waiter>>
     \/ /\ "read" \notin ready[h] \/ "read" \notin level[object[h].fd]
        /\ ready' = [ready EXCEPT ![h] = @ \cup {"read"}]
        /\ submit_poll(t, h, "read")
        /\ UNCHANGED <<level, wronged>>
  /\ UNCHANGED <<completion, object, nonblocking, mixed>>

-----------------------------------------------------------------------------
(* The drivers and the kernel.                                             *)

\* wait: a side that is ready wakes its waiter, which then polls again.
Deliver(h, s) ==
  /\ Exists(h) /\ ~uses_completion(h) /\ waiter[h][s] # None /\ s \in level[object[h].fd]
  /\ LET w == waiter[h][s]
     IN  at' = IF at[w].object = h /\ at[w].side = s
               THEN [at EXCEPT ![w] = Idle] ELSE at
  /\ waiter' = [waiter EXCEPT ![h][s] = None]
  /\ UNCHANGED <<completion, object, ready, nonblocking, level, mixed, wronged>>

\* A request ends when its side is ready, or at once with EAGAIN if the
\* description is not to block.
RingEnds(t) ==
  LET f == object[at[t].object].fd
  IN  /\ at[t].where = "ring"
      /\ \/ Succeeds(t, f, at[t].side)
         \/ /\ at[t].side \notin level[f] /\ nonblocking[f]
            /\ wronged' = wronged \cup {f}
            /\ Answers(t)
            /\ UNCHANGED level
      /\ UNCHANGED <<completion, object, ready, nonblocking, waiter, mixed>>

\* The future of an operation is dropped.
Cancels(t) ==
  /\ at[t] # Idle
  /\ Answers(t)
  /\ UNCHANGED <<completion, object, ready, nonblocking, level, waiter, mixed, wronged>>

\* The peer sends, reads, connects or is accepted.
Rises(f, s) ==
  /\ s \notin level[f]
  /\ level' = [level EXCEPT ![f] = @ \cup {s}]
  /\ UNCHANGED <<completion, object, ready, nonblocking, waiter, at, mixed, wronged>>

Next ==
  \/ \E h \in Objects :
       \/ FromStd(h) \/ Converts(h) \/ Drops(h)
       \/ \E g \in Objects : UdpSocket_try_clone(g, h) \/ PollUdpSocket_try_clone(g, h)
       \/ \E t \in Tasks : Operates(t, h) \/ ZincioUdpSocket_poll_recv(t, h)
       \/ \E t \in Tasks, s \in Sides : poll_ready(t, h, s) \/ try_io(t, h, s)
       \/ \E s \in Sides : Deliver(h, s)
  \/ \E t \in Tasks : RingEnds(t) \/ Cancels(t)
  \/ \E f \in Fds, s \in Sides : Rises(f, s)

Spec == Init /\ [][Next]_vars

-----------------------------------------------------------------------------
(* No operation blocks the runtime's thread or is sent back by the kernel  *)
(* because of O_NONBLOCK, through all conversions between the types: the   *)
(* flag follows the mode of the handle, unless handles of both modes share *)
(* the description.                                                        *)
FlagFollowsMode == wronged \subseteq mixed

(* The task that polled a side last is the one the driver will wake: a     *)
(* conversion, a flag or another task's earlier poll does not take its     *)
(* place.  (Of two tasks that wait for one side in poll mode, the first is *)
(* woken no more.)                                                         *)
LastWaiterIsKept ==
  \A t \in Tasks : at[t].where = "poll" => waiter[at[t].object][at[t].side] = t

(* "All I/O operations on this type use readiness-based (poll) I/O,        *)
(* regardless of whether the runtime supports completion-based I/O."       *)
(* (net/udp/poll.rs, and alike of the other Poll... types.)  try_clone of  *)
(* PollUdpSocket and from_std_poll of UnixStream make objects for which    *)
(* all poll functions fail.                                                *)
PollTypesUsePoll == \A h \in Objects : Exists(h) /\ object[h].poll => ~uses_completion(h)
=============================================================================
