------------------------------ MODULE MCObjects ------------------------------
(* Operations, Sockets and IocpDriver for TLC, side by side: a behaviour   *)
(* is about one of them, and the variables of the others are not used.     *)
(* Sockets and other objects, keys of a kind, and wakers or tasks are      *)
(* interchangeable.                                                        *)
EXTENDS Operations, TLC

CONSTANTS
  One, Another,  \* two operations
  Places,        \* places for objects, and keys of the slab of AFD polls
  Connections,   \* the sockets of the completion port
  f1             \* a file description

VARIABLES
  part,  \* the part of the system this behaviour is about
  s_completion, s_object, s_ready, s_nonblocking, s_level, s_waiter, s_at,
  s_mixed, s_wronged,
  i_handle, i_ready, i_op, i_registrations, i_poll_ops, i_completions, i_afd,
  i_requests, i_port, i_woken

MCOps == {One, Another}

\* One operation of any kind, and one to share the slab with.
MCOpKinds ==
  One :> {"Read", "Recv", "Write", "Send", "ReadAt", "WriteAt", "Readv", "Writev", "Recvfrom",
          "Sendto", "Accept", "AcceptUnix", "Connect", "Splice", "Sendfile", "Statx", "Open",
          "Fsync", "MkDir", "Rename", "Unlink", "Symlink", "HardLink"}
    @@ Another :> {"Recvfrom"}

S == INSTANCE Sockets WITH
  Completes <- BOOLEAN, Fds <- {f1}, Objects <- Places, Tasks <- Wakers,
  completion <- s_completion, object <- s_object,
  ready <- s_ready, nonblocking <- s_nonblocking, level <- s_level,
  waiter <- s_waiter, at <- s_at, mixed <- s_mixed, wronged <- s_wronged

I == INSTANCE IocpDriver WITH
  Fds <- Connections, PollTokens <- Places, Slots <- Tokens,
  Sides <- {"readable"}, handle <- i_handle,
  ready <- i_ready, op <- i_op, registrations <- i_registrations,
  poll_ops <- i_poll_ops, completions <- i_completions, afd <- i_afd,
  requests <- i_requests, port <- i_port, woken <- i_woken

ASSUME S!SocketsAssumption
ASSUME I!IocpAssumption

s_all ==
  <<s_completion, s_object, s_ready, s_nonblocking, s_level, s_waiter, s_at,
    s_mixed, s_wronged>>
i_all ==
  <<i_handle, i_ready, i_op, i_registrations, i_poll_ops, i_completions,
    i_afd, i_requests, i_port, i_woken>>

fullvars == <<part, vars, s_all, i_all>>

\* A part that the behaviour is not about has no state, or is in the initial one.
NoSockets ==
  /\ s_completion = 0 /\ s_object = 0 /\ s_ready = 0 /\ s_nonblocking = 0
  /\ s_level = 0 /\ s_waiter = 0 /\ s_at = 0 /\ s_mixed = 0
  /\ s_wronged = 0
NoIocpDriver ==
  /\ i_handle = 0 /\ i_ready = 0 /\ i_op = 0 /\ i_registrations = 0
  /\ i_poll_ops = 0 /\ i_completions = 0 /\ i_afd = 0 /\ i_requests = 0
  /\ i_port = 0 /\ i_woken = 0

SumInit ==
  \/ part = "operations" /\ Init /\ NoSockets /\ NoIocpDriver
  \/ part = "sockets" /\ S!Init /\ Init /\ NoIocpDriver
  \/ part = "iocp" /\ I!Init /\ Init /\ NoSockets

SumNext ==
  \/ part = "operations" /\ Next /\ UNCHANGED <<part, s_all, i_all>>
  \/ part = "sockets" /\ S!Next /\ UNCHANGED <<part, vars, i_all>>
  \/ part = "iocp" /\ I!Next /\ UNCHANGED <<part, vars, s_all>>
  \/ part \in {"operations", "iocp"} /\ UNCHANGED fullvars  \* these may stop

SumSpec == SumInit /\ [][SumNext]_fullvars

Symmetry ==
  Permutations(Tokens) \cup Permutations(Places)
    \cup Permutations(Wakers)

-----------------------------------------------------------------------------
(* The invariants of the parts, of the behaviours that are about them.     *)

(* Sockets: O_NONBLOCK of a description follows the mode of its handles.   *)
FlagFollowsMode == part = "sockets" => S!FlagFollowsMode

(* Sockets: the last task that waits for a side is the one to be woken.    *)
LastWaiterIsKept == part = "sockets" => S!LastWaiterIsKept

(* IocpDriver: the memory the kernel uses is alive and its owner's.        *)
KernelStateIsOwned == part = "iocp" => I!KernelStateIsOwned

(* IocpDriver: no pending operation is forgotten.                          *)
PendingIsReached == part = "iocp" => I!PendingIsReached
=============================================================================
