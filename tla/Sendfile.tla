------------------------------- MODULE Sendfile -------------------------------
(***************************************************************************)
(* sendfile_exact (io/sendfile.rs) and splice_exact (io/splice.rs): one    *)
(* call that moves `len` bytes from a file, or from a pipe, to a socket.   *)
(*                                                                         *)
(* "sendfile" on io_uring goes through a pipe of its own: a splice fills   *)
(* it from the file, the next one empties it into the socket.  The unit is *)
(* a page: a splice moves whole ones.  On io_uring a splice waits in the   *)
(* kernel for bytes or for room; elsewhere it fails with EAGAIN and the    *)
(* task waits for the socket to become writable.                           *)
(***************************************************************************)
EXTENDS Naturals

CONSTANTS
  Kinds,      \* which of the four ways are taken
  MaxLen,     \* the most a caller asks for, and a source has
  U32,        \* the longest splice an entry of the ring can ask for
  PipeRoom,   \* what the pipe holds
  OutRoom     \* what the socket holds until its peer reads

SendfileAssumption ==
  /\ Kinds \subseteq {"sendfile_ring", "sendfile_poll", "splice_ring", "splice_poll"}
  /\ MaxLen \in Nat /\ U32 \in Nat /\ PipeRoom \in Nat \ {0} /\ OutRoom \in Nat \ {0}

VARIABLES
  kind,              \* the function and the mode of the socket's handle
  len,
  source,            \* bytes that can be read from the file or the pipe
  coming,            \* bytes that are still to be written to the source, by others
  pipe,              \* bytes in the pipe of sendfile_exact_completion
  out,               \* bytes in the socket, that the peer has not read
  delivered,         \* bytes the socket has taken
  total_from_file, total_to_socket, file_eof,
  pc,                \* the next splice, or "done"
  waiting,           \* the task waits for the socket to become writable
  result             \* what the call returned: "none", "ok", or an error

vars == <<kind, len, source, coming, pipe, out, delivered, total_from_file,
          total_to_socket, file_eof, pc, waiting, result>>

Ring == kind \in {"sendfile_ring", "splice_ring"}
Least(S) == CHOOSE n \in S : \A m \in S : n <= m

Returns(r) == pc' = "done" /\ result' = r

\* Mutant: the loop ends with the file, not with the pipe.
Loop_file(from, to, eof) ==
  IF from < len /\ ~eof THEN pc' = "file" /\ UNCHANGED result ELSE Returns("ok")

\* The loop of sendfile_exact_completion: the file is read until `len` or its
\* end, the pipe is emptied until the socket has all.
Loop(from, to, eof) ==
  CASE from < len /\ ~eof -> pc' = "file" /\ UNCHANGED result
    [] to < from /\ ~(from < len /\ ~eof) -> pc' = "socket" /\ UNCHANGED result
    [] OTHER -> Returns("ok")

\* The loops of splice_exact and sendfile_exact_poll.
LoopExact(to) == IF to < len THEN pc' = "copy" /\ UNCHANGED result ELSE Returns("ok")

Init ==
  /\ kind \in Kinds /\ len \in 0..MaxLen
  /\ \E n \in 0..MaxLen :
       IF kind \in {"splice_ring", "splice_poll"} THEN source = 0 /\ coming = n
                                                  ELSE source = n /\ coming = 0
  /\ pipe = 0 /\ out = 0 /\ delivered = 0
  /\ total_from_file = 0 /\ total_to_socket = 0 /\ file_eof = FALSE
  /\ pc = "start" /\ waiting = FALSE /\ result = "none"

\* sendfile_exact: the mode of the socket's handle selects the loop.
sendfile_exact ==
  /\ pc = "start"
  /\ IF kind = "sendfile_ring" THEN Loop(0, 0, FALSE) ELSE LoopExact(0)
  /\ UNCHANGED <<kind, len, source, coming, pipe, out, delivered, total_from_file,
                 total_to_socket, file_eof, waiting>>

\* Mutant: the end of the file is not noticed.
IsEof_never(n) == FALSE

\* A splice of nothing is the end of the file.
IsEof(n) == n = 0

\* A splice from the file into the pipe, that waits for room in it; nothing
\* at the end of the file.  What is in the pipe goes to the socket next.
FromFile ==
  LET moved == 0..Least({source, len - total_from_file, PipeRoom - pipe})
  IN  /\ pc = "file" /\ len - total_from_file <= U32 /\ pipe < PipeRoom
      /\ \E n \in moved :
           /\ n = 0 <=> source = 0
           /\ source' = source - n /\ pipe' = pipe + n
           /\ total_from_file' = total_from_file + n /\ file_eof' = IsEof(n)
           /\ IF pipe + n > 0 THEN pc' = "socket" /\ UNCHANGED result
                              ELSE Loop(total_from_file, total_to_socket, file_eof')
      /\ UNCHANGED <<kind, len, coming, out, delivered, total_to_socket, waiting>>

\* A splice from the pipe into the socket, that waits for room in it, and may
\* take less than it was asked for.
ToSocket ==
  /\ pc = "socket" /\ total_from_file - total_to_socket <= U32 /\ out < OutRoom
  /\ \E n \in 1..Least({pipe, OutRoom - out}) :
       /\ pipe' = pipe - n /\ out' = out + n /\ delivered' = delivered + n
       /\ total_to_socket' = total_to_socket + n
       /\ Loop(total_from_file, total_to_socket + n, file_eof)
  /\ UNCHANGED <<kind, len, source, coming, total_from_file, file_eof, waiting>>

\* SpliceOp and SendfileOp without a pipe between: some bytes, or none at the
\* end of the source.
Copies ==
  /\ pc = "copy" /\ ~waiting /\ (Ring => len - total_to_socket <= U32)
  /\ \/ /\ source > 0 /\ out < OutRoom
        /\ \E n \in 1..Least({source, len - total_to_socket, OutRoom - out}) :
             /\ source' = source - n /\ out' = out + n /\ delivered' = delivered + n
             /\ total_to_socket' = total_to_socket + n
             /\ LoopExact(total_to_socket + n)
     \/ /\ source = 0 /\ coming = 0
        /\ Returns("ok")
        /\ UNCHANGED <<source, out, delivered, total_to_socket>>
  /\ UNCHANGED <<kind, len, coming, pipe, total_from_file, file_eof, waiting>>

\* poll_result_or_wait after EAGAIN: the task waits for the socket, whichever
\* side could not go on.
WouldBlock ==
  /\ pc = "copy" /\ ~Ring /\ ~waiting
  /\ out = OutRoom \/ (source = 0 /\ coming > 0)
  /\ waiting' = TRUE
  /\ UNCHANGED <<kind, len, source, coming, pipe, out, delivered, total_from_file,
                 total_to_socket, file_eof, pc, result>>

\* u32::try_from refuses the length of an entry.
TooLong ==
  /\ \/ pc = "file" /\ len - total_from_file > U32
     \/ pc = "socket" /\ total_from_file - total_to_socket > U32
     \/ pc = "copy" /\ Ring /\ len - total_to_socket > U32
  /\ Returns("InvalidInput")
  /\ UNCHANGED <<kind, len, source, coming, pipe, out, delivered, total_from_file,
                 total_to_socket, file_eof, waiting>>

\* The kernel refuses a splice: `?` leaves the loop, and drops the pipe.
Fails ==
  /\ pc \in {"file", "socket", "copy"} /\ ~waiting
  /\ Returns("error")
  /\ UNCHANGED <<kind, len, source, coming, pipe, out, delivered, total_from_file,
                 total_to_socket, file_eof, waiting>>

\* The writer of the source pipe goes on.
SourceGrows ==
  /\ coming > 0
  /\ coming' = coming - 1 /\ source' = source + 1
  /\ UNCHANGED <<kind, len, pipe, out, delivered, total_from_file, total_to_socket,
                 file_eof, pc, waiting, result>>

\* The peer reads.
PeerReads ==
  /\ out > 0
  /\ out' = out - 1
  /\ UNCHANGED <<kind, len, source, coming, pipe, delivered, total_from_file,
                 total_to_socket, file_eof, pc, waiting, result>>

\* The driver reports a socket with room, also if it had room before: the task
\* that waits for its source tries again and again.
SocketIsWritable ==
  /\ waiting /\ out < OutRoom
  /\ waiting' = FALSE
  /\ UNCHANGED <<kind, len, source, coming, pipe, out, delivered, total_from_file,
                 total_to_socket, file_eof, pc, result>>

Transfers ==
  \/ sendfile_exact \/ FromFile \/ ToSocket \/ Copies \/ WouldBlock \/ TooLong
  \/ SocketIsWritable

Next == Transfers \/ Fails \/ SourceGrows \/ PeerReads

\* The kernel works on the splices of the ring, the task runs when it is woken,
\* the peer reads on and the writer of the source writes on.
Fairness == WF_vars(Transfers) /\ WF_vars(SourceGrows) /\ WF_vars(PeerReads)

Spec == Init /\ [][Next]_vars /\ Fairness

-----------------------------------------------------------------------------
(* A call that succeeds has put into the socket what it says, and that is  *)
(* `len` bytes or all the source had; nothing stays in the pipe that is    *)
(* dropped with it, and nothing is taken from the source beyond that.  A   *)
(* call that is refused for its length has moved nothing.                  *)
SendfileIsExact ==
  /\ result = "ok" => /\ delivered = total_to_socket /\ delivered <= len
                      /\ delivered < len => source = 0 /\ coming = 0
                      /\ pipe = 0
  /\ result = "InvalidInput" => delivered = 0 /\ pipe = 0
  /\ pc # "done" => pipe = total_from_file - total_to_socket \/ kind # "sendfile_ring"

(* The two sides of the transfer do not wait for each other: the pipe is   *)
(* emptied when it is full, a task that found its source empty tries       *)
(* again, and a call ends if the peer reads on and the source ends.        *)
TransferEnds == <>(pc = "done")
=============================================================================
