------------------------------- MODULE AsyncWrap ------------------------------
(***************************************************************************)
(* AsyncWrap (util/async_wrap.rs): an object with futures that own it, as  *)
(* an object that is polled.                                               *)
(*                                                                         *)
(* The inner object is in the wrapper or in the one future that works on   *)
(* it.  A future stays in the wrapper when its caller gives up, and the    *)
(* next poll of the same kind goes on with it.  Bytes are their positions  *)
(* in the stream that is read, and in what the callers have written.       *)
(***************************************************************************)
EXTENDS Naturals, Sequences

CONSTANTS
  Input,        \* how many bytes there are to read
  MaxWritten,   \* how many bytes callers write
  BufferSize,   \* BUFFER_SIZE
  MaxBuf        \* the largest buffer of a caller

AsyncWrapAssumption ==
  Input \in Nat /\ MaxWritten \in Nat /\ BufferSize \in Nat \ {0} /\ MaxBuf \in Nat \ {0}

VARIABLES
  at,          \* where `inner` is: "here", or in the future "read", "write", "flush"
  read_buf,    \* bytes of a read that no caller had room for
  unread,      \* bytes the inner object has not returned
  heard,       \* bytes the callers of poll_read got
  rest,        \* of the future of a write: what it has to write
  written,     \* and how much it has written
  wire,        \* bytes the inner object has taken
  offered,     \* how many bytes callers of poll_write have offered
  told         \* how many of them they were told are written

vars == <<at, read_buf, unread, heard, rest, written, wire, offered, told>>

Count(n, k) == [i \in 1..k |-> n + i]
Drop(s, n) == SubSeq(s, n + 1, Len(s))

Init ==
  /\ at = "here"
  /\ read_buf = <<>> /\ unread = Count(0, Input) /\ heard = <<>>
  /\ rest = <<>> /\ written = 0 /\ wire = <<>> /\ offered = 0 /\ told = 0

\* Mutant: what a caller had no room for is forgotten.
Keeps_none(bs, room) == read_buf' = <<>>

\* What a caller has no room for is kept for the next.
Keeps(bs, room) == read_buf' = Drop(bs, room)

Least(m, n) == IF m < n THEN m ELSE n

Gives(bs, room) == heard' = heard \o SubSeq(bs, 1, Least(room, Len(bs))) /\ Keeps(bs, room)

\* poll_read with something left of an earlier read.
poll_read_buffered(room) ==
  /\ at # "read" /\ read_buf # <<>>
  /\ Gives(read_buf, room)
  /\ UNCHANGED <<at, unread, rest, written, wire, offered, told>>

\* poll_read makes a future, or fails if another has the inner object; the
\* failure changes nothing.
poll_read_starts ==
  /\ at = "here" /\ read_buf = <<>>
  /\ at' = "read"
  /\ UNCHANGED <<read_buf, unread, heard, rest, written, wire, offered, told>>

\* poll_read finds the future ready: with some bytes, none at the end of the
\* stream, or an error.
poll_read_ready(room) ==
  /\ at = "read"
  /\ at' = "here"
  /\ \/ \E n \in 0..BufferSize :
          /\ n <= Len(unread) /\ (n = 0 => unread = <<>>)
          /\ Gives(SubSeq(unread, 1, n), room)
          /\ unread' = Drop(unread, n)
     \/ UNCHANGED <<read_buf, unread, heard>>
  /\ UNCHANGED <<rest, written, wire, offered, told>>

\* poll_write copies the buffer into a future.
poll_write_starts(len) ==
  /\ at = "here" /\ offered = told /\ offered + len <= MaxWritten
  /\ at' = "write"
  /\ offered' = offered + len
  /\ rest' = Count(offered, len) /\ written' = 0
  /\ UNCHANGED <<read_buf, unread, heard, wire, told>>

\* The future of a write goes on until nothing is left.
WritesOn(n) == at' = IF n = Len(rest) THEN "wrote" ELSE "write"

\* The future is polled, and the inner object takes some bytes.
poll_write_progress ==
  /\ at = "write"
  /\ \E n \in 1..Len(rest) :
       /\ wire' = wire \o SubSeq(rest, 1, n)
       /\ rest' = Drop(rest, n)
       /\ written' = written + n
       /\ WritesOn(n)
  /\ UNCHANGED <<read_buf, unread, heard, offered, told>>

\* The future is ready with the number of all bytes: its caller moves on by it.
poll_write_ready ==
  /\ at = "wrote"
  /\ at' = "here"
  /\ told' = told + written
  /\ UNCHANGED <<read_buf, unread, heard, rest, written, wire, offered>>

\* The inner object fails: the error says nothing of what was written before,
\* and the caller gives up writing.
poll_write_fails ==
  /\ at = "write"
  /\ at' = "here"
  /\ UNCHANGED <<read_buf, unread, heard, rest, written, wire, offered, told>>

\* poll_flush takes the inner object for as long as its flush takes.
poll_flush ==
  /\ at \in {"here", "flush"}
  /\ at' = IF at = "here" THEN "flush" ELSE "here"
  /\ UNCHANGED <<read_buf, unread, heard, rest, written, wire, offered, told>>

Next ==
  \/ \E room \in 1..MaxBuf : poll_read_buffered(room) \/ poll_read_ready(room)
  \/ poll_read_starts
  \/ \E len \in 1..MaxBuf : poll_write_starts(len)
  \/ poll_write_progress \/ poll_write_ready \/ poll_write_fails
  \/ poll_flush

Spec == Init /\ [][Next]_vars

-----------------------------------------------------------------------------
(* No byte is lost or swapped between the inner object and the callers,    *)
(* whatever their buffers hold, and also if a caller gives up on a read    *)
(* that goes on: what they got, then what is kept, then what was not read  *)
(* is the stream.  What is written arrives in order, what callers were     *)
(* told of has arrived, and a write that is ready has written its buffer   *)
(* to the end.                                                             *)
StreamIsKept ==
  /\ heard \o read_buf \o unread = Count(0, Input)
  /\ wire = Count(0, Len(wire)) /\ Len(wire) <= offered
  /\ told <= Len(wire) /\ (at = "wrote" => Len(wire) = offered)
=============================================================================
