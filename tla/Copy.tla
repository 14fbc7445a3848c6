--------------------------------- MODULE Copy ---------------------------------
(***************************************************************************)
(* copy, split and copy_bidirectional (io/util.rs).                        *)
(*                                                                         *)
(* An end is an I/O object with a peer behind it.  A direction is a call   *)
(* of copy: "ab" reads from end a and writes to end b, "ba" the other way  *)
(* round.  copy_bidirectional runs both, on the halves of two ends that    *)
(* were split: each call of a half locks the end until the call is over,   *)
(* also while it waits for the peer.  Bytes are their positions in what    *)
(* the peer sent.                                                          *)
(*                                                                         *)
(* copy's buffer is a Vec without length: the readers of this module are   *)
(* those that read into its capacity, sockets and pipes.                   *)
(***************************************************************************)
EXTENDS Naturals, Sequences

CONSTANTS
  Chunk,      \* the capacity of copy's buffer
  Room,       \* what an end takes before its peer has read some of it
  MaxBytes,   \* what a peer sends
  Nobody      \* no direction

CopyAssumption ==
  /\ Nobody \notin {"ab", "ba"}
  /\ Chunk \in Nat \ {0} /\ Room \in Nat \ {0} /\ MaxBytes \in Nat

VARIABLES
  dirs,      \* the directions: both, or "ab" for a call of copy on its own
  pc,        \* where a direction is
  lock,      \* the direction that has an end locked
  buf,       \* what a direction has read and not written
  read,      \* how much its last read returned
  copied,    \* what it has counted
  unread,    \* bytes of an end's peer that were not read
  sent,      \* how many its peer sent
  closed,    \* ends whose peer will send no more
  written,   \* bytes that were written to an end
  taken      \* how many of them its peer has read

vars == <<dirs, pc, lock, buf, read, copied, unread, sent, closed, written, taken>>

Ends == {"a", "b"}
Directions == {"ab", "ba"}
Reader(d) == IF d = "ab" THEN "a" ELSE "b"
Writer(d) == IF d = "ab" THEN "b" ELSE "a"

Init ==
  /\ dirs \in {{"ab"}, Directions}
  /\ pc = [d \in Directions |-> IF d \in dirs THEN "read" ELSE "none"]
  /\ lock = [e \in Ends |-> Nobody]
  /\ buf = [d \in Directions |-> <<>>]
  /\ read = [d \in Directions |-> 0]
  /\ copied = [d \in Directions |-> 0]
  /\ unread = [e \in Ends |-> <<>>]
  /\ sent = [e \in Ends |-> 0]
  /\ closed = {}
  /\ written = [e \in Ends |-> <<>>]
  /\ taken = [e \in Ends |-> 0]

Goes(d, l) == pc' = [pc EXCEPT ![d] = l]

\* The guard of a half is dropped at the end of its call.
Unlocks(e) == lock' = [lock EXCEPT ![e] = Nobody]

-----------------------------------------------------------------------------
(* The peers.                                                              *)

Sends(e) ==
  /\ e \notin closed /\ sent[e] < MaxBytes
  /\ sent' = [sent EXCEPT ![e] = @ + 1]
  /\ unread' = [unread EXCEPT ![e] = Append(@, sent[e] + 1)]
  /\ UNCHANGED <<dirs, pc, lock, buf, read, copied, closed, written, taken>>

Closes(e) ==
  /\ e \notin closed
  /\ closed' = closed \cup {e}
  /\ UNCHANGED <<dirs, pc, lock, buf, read, copied, unread, sent, written, taken>>

Takes(e) ==
  /\ taken[e] < Len(written[e])
  /\ taken' = [taken EXCEPT ![e] = @ + 1]
  /\ UNCHANGED <<dirs, pc, lock, buf, read, copied, unread, sent, closed, written>>

-----------------------------------------------------------------------------
(* A direction.                                                            *)

\* `self.inner.lock().await` of a half.
HalfLocks(d, e) == lock[e] = Nobody /\ lock' = [lock EXCEPT ![e] = d]

\* ReadHalf::read: the end is locked and read.
ReadLocks(d) ==
  /\ pc[d] = "read"
  /\ HalfLocks(d, Reader(d))
  /\ Goes(d, "reading")
  /\ UNCHANGED <<dirs, buf, read, copied, unread, sent, closed, written, taken>>

\* Mutant: the end of the stream is not reported.
Reads_endless(e) == {n \in 1..Chunk : n <= Len(unread[e])}

\* What a read can return: a prefix of what is there; nothing at the end of
\* the stream.
Reads(e) ==
  {n \in 1..Chunk : n <= Len(unread[e])} \cup {n \in {0} : unread[e] = <<>> /\ e \in closed}

\* The read returns, which unlocks the end.  0 is taken for the end of the
\* stream.
ReadReturns(d) == LET e == Reader(d) IN
  /\ pc[d] = "reading"
  /\ \E n \in Reads(e) :
       /\ buf' = [buf EXCEPT ![d] = SubSeq(unread[e], 1, n)]
       /\ read' = [read EXCEPT ![d] = n]
       /\ unread' = [unread EXCEPT ![e] = SubSeq(@, n + 1, Len(@))]
       /\ Goes(d, IF n = 0 THEN "flush" ELSE "write")
  /\ Unlocks(e)
  /\ UNCHANGED <<dirs, copied, sent, closed, written, taken>>

\* WriteHalf::write locks the end.
WriteLocks(d) ==
  /\ pc[d] = "write"
  /\ HalfLocks(d, Writer(d))
  /\ Goes(d, "writing")
  /\ UNCHANGED <<dirs, buf, read, copied, unread, sent, closed, written, taken>>

\* Mutant: a short write is taken for a whole one.
Advances_all(b, n) == <<>>

\* IoBufWithCursor::advance.
Advances(b, n) == SubSeq(b, n + 1, Len(b))

\* The write returns: some bytes, as far as there is room.  When all are
\* written, what was read is counted.
WriteReturns(d) == LET e == Writer(d) IN
  /\ pc[d] = "writing"
  /\ \E n \in 1..Len(buf[d]) :
       /\ Len(written[e]) - taken[e] + n <= Room
       /\ written' = [written EXCEPT ![e] = @ \o SubSeq(buf[d], 1, n)]
       /\ buf' = [buf EXCEPT ![d] = Advances(@, n)]
       /\ IF Advances(buf[d], n) = <<>>
          THEN Goes(d, "read") /\ copied' = [copied EXCEPT ![d] = @ + read[d]]
          ELSE Goes(d, "write") /\ UNCHANGED copied
  /\ Unlocks(e)
  /\ UNCHANGED <<dirs, read, unread, sent, closed, taken>>

\* The end of the stream: WriteHalf::flush locks the other end.
FlushLocks(d) ==
  /\ pc[d] = "flush"
  /\ HalfLocks(d, Writer(d))
  /\ Goes(d, "flushing")
  /\ UNCHANGED <<dirs, buf, read, copied, unread, sent, closed, written, taken>>

\* The flush returns, and copy with it.
FlushReturns(d) ==
  /\ pc[d] = "flushing"
  /\ Unlocks(Writer(d))
  /\ Goes(d, "ok")
  /\ UNCHANGED <<dirs, buf, read, copied, unread, sent, closed, written, taken>>

\* A read, a write or the flush fails, or a write returns 0: copy returns the
\* error.  copy_bidirectional goes on with the other direction.
Fails(d) == LET e == IF pc[d] = "reading" THEN Reader(d) ELSE Writer(d) IN
  /\ pc[d] \in {"reading", "writing", "flushing"}
  /\ Unlocks(e)
  /\ Goes(d, "err")
  /\ UNCHANGED <<dirs, buf, read, copied, unread, sent, closed, written, taken>>

\* copy.
copy(d) ==
  \/ ReadLocks(d) \/ ReadReturns(d)
  \/ WriteLocks(d) \/ WriteReturns(d)
  \/ FlushLocks(d) \/ FlushReturns(d)

Next ==
  \/ \E d \in Directions : copy(d) \/ Fails(d)
  \/ \E e \in Ends : Sends(e) \/ Closes(e) \/ Takes(e)

\* The task of a direction is polled when it can go on.  Peers read what
\* they are sent; they need not send or close.
Spec ==
  /\ Init /\ [][Next]_vars
  /\ \A d \in Directions : WF_vars(copy(d))
  /\ \A e \in Ends : WF_vars(Takes(e))

-----------------------------------------------------------------------------
(* copy loses, repeats and swaps no byte, whatever the reads and the       *)
(* writes return: what was written to one end, then what the direction     *)
(* holds, then what was not read, is what the peer of the other end sent.  *)
(* When copy returns Ok(n), that peer has closed, all that it sent was     *)
(* written, and n is its length.                                           *)
CopiesAll ==
  \A d \in dirs :
    /\ written[Writer(d)] \o buf[d] \o unread[Reader(d)] = [i \in 1..sent[Reader(d)] |-> i]
    /\ pc[d] = "ok" =>
         /\ Reader(d) \in closed
         /\ copied[d] = sent[Reader(d)] /\ Len(written[Writer(d)]) = sent[Reader(d)]

(* Once the peers have closed, copy and copy_bidirectional return: two     *)
(* directions that lock the same two ends do not wait for each other       *)
(* forever.                                                                *)
EndedIsCopied ==
  (\A d \in dirs : Reader(d) \in closed) ~> (\A d \in dirs : pc[d] \in {"ok", "err"})

(* What a direction of copy_bidirectional has read is written to the other *)
(* end: the ends are split "so the copies may proceed concurrently"        *)
(* (io/util.rs).  It does not hold: the other direction keeps that end     *)
(* locked while it waits for bytes of the end's peer.                      *)
DataIsForwarded ==
  \A d \in Directions : buf[d] # <<>> ~> (buf[d] = <<>> \/ pc[d] = "err")
=============================================================================
