--------------------------------- MODULE Files --------------------------------
(***************************************************************************)
(* A file and the calls on it: OpenOptions::open (fs/open_options.rs),     *)
(* File (fs/file.rs), and fs::read and fs::write (fs/paths.rs).            *)
(*                                                                         *)
(* A call asks the kernel for one part of its work after the other.  Who   *)
(* asks depends on how the file was opened: the ring ("completion"), a     *)
(* thread of the blocking pool ("pool", module PoolIo), or the runtime's   *)
(* own thread ("blocking").  A future that is dropped leaves its request   *)
(* behind, which is carried out all the same.                              *)
(*                                                                         *)
(* A file is a sequence of bytes, and a byte is the number of the call     *)
(* that wrote it, or 0.  A buffer is its length, its capacity and whether  *)
(* it is a Vec, whose length set_buf_init changes, or an array, whose it   *)
(* does not.                                                               *)
(***************************************************************************)
EXTENDS Naturals, Sequences, FiniteSets

CONSTANTS
  Size,       \* how long files get
  MaxCalls,   \* how many calls are made
  Ios,        \* how the file may be opened
  Buffers,    \* buffers of the callers: "vec", "array"
  NoCall      \* no call, no request

FilesAssumption ==
  /\ Size \in Nat /\ MaxCalls \in Nat
  /\ Ios \subseteq {"completion", "pool", "blocking"}
  /\ Buffers \subseteq {"vec", "array"}

VARIABLES
  io,        \* who asks the kernel
  flags,     \* the options the file is opened with, then its access mode
  file,      \* the file, or NoCall if there is none
  disk,      \* what a crash would leave of it
  cursor,    \* File::cursor; NoCall before the file is open
  call,      \* the call that is being polled
  request,   \* what it asked of the kernel
  orphans,   \* requests of futures that were dropped
  calls,     \* how many calls were made
  answer,    \* what the last call returned, if it was not an error
  claimed,   \* the byte the callers were last told is at a position
  synced,    \* what they had been told when the last sync returned
  unsure     \* positions where a write was dropped or failed half way

vars == <<io, flags, file, disk, cursor, call, request, orphans, calls, answer,
          claimed, synced, unsure>>

Positions == 0..(Size - 1)

Options == {"read", "write", "append", "truncate", "create", "create_new"}

Init ==
  /\ io \in Ios
  /\ flags \in SUBSET Options
  /\ file \in {NoCall} \cup {[i \in 1..n |-> 0] : n \in 0..Size}
  /\ disk = file
  /\ cursor = NoCall
  /\ call = NoCall /\ request = NoCall /\ orphans = {}
  /\ calls = 0
  /\ answer = NoCall
  /\ claimed = [p \in Positions |-> NoCall]
  /\ synced = [p \in Positions |-> NoCall]
  /\ unsure = {}

-----------------------------------------------------------------------------
(* Opening.                                                                *)

Writing(f) == "write" \in f \/ "append" \in f

\* OpenOptions::validate.
validate(f) ==
  /\ "read" \in f \/ Writing(f)
  /\ {"truncate", "create", "create_new"} \cap f # {} => Writing(f)

\* Mutant: create_new does not ask for O_EXCL.
build_open_op_shared(f) ==
  {o \in {"O_APPEND", "O_TRUNC", "O_CREAT", "O_EXCL"} :
    \/ o = "O_APPEND" /\ "append" \in f
    \/ o = "O_TRUNC" /\ "truncate" \in f
    \/ o = "O_CREAT" /\ {"create", "create_new"} \cap f # {}}

\* OpenOptions::build_open_op.
build_open_op(f) ==
  {o \in {"O_APPEND", "O_TRUNC", "O_CREAT", "O_EXCL"} :
    \/ o = "O_APPEND" /\ "append" \in f
    \/ o = "O_TRUNC" /\ "truncate" \in f
    \/ o = "O_CREAT" /\ {"create", "create_new"} \cap f # {}
    \/ o = "O_EXCL" /\ "create_new" \in f}

\* std::fs::OpenOptions: the flags of its openat, or NoCall for what it refuses.
std_open(f) ==
  LET creates == {"truncate", "create", "create_new"} \cap f
      refused == \/ {"read", "write", "append"} \cap f = {}
                 \/ {"write", "append"} \cap f = {} /\ creates # {}
                 \/ "append" \in f /\ "truncate" \in f /\ "create_new" \notin f
  IN IF refused THEN NoCall
     ELSE (IF "append" \in f THEN {"O_APPEND"} ELSE {})
          \cup (IF "create_new" \in f THEN {"O_CREAT", "O_EXCL"}
                ELSE {o \in {"O_CREAT", "O_TRUNC"} :
                        \/ o = "O_CREAT" /\ "create" \in f
                        \/ o = "O_TRUNC" /\ "truncate" \in f})

\* openat: the file there is then, or NoCall if it fails.
Openat(o, before) ==
  CASE o = NoCall -> NoCall
    [] before = NoCall -> IF "O_CREAT" \in o THEN <<>> ELSE NoCall
    [] OTHER -> IF "O_EXCL" \in o THEN NoCall
                ELSE IF "O_TRUNC" \in o THEN <<>> ELSE before

\* OpenOptions::open by `i`: on the ring, in the pool or in the runtime's thread.
Opened(i, f, before) ==
  IF ~validate(f) THEN NoCall
  ELSE Openat(IF i = "completion" THEN build_open_op(f) ELSE std_open(f), before)

\* OpenOptions::initial_cursor_for_append.
initial_cursor_for_append(f, opened) == IF "append" \in f THEN Len(opened) ELSE 0

\* The future of open is awaited to its end here; what is left of the options
\* is how the file may be used.
open ==
  /\ cursor = NoCall /\ Opened(io, flags, file) # NoCall
  /\ file' = Opened(io, flags, file)
  /\ cursor' = initial_cursor_for_append(flags, file')
  /\ flags' = flags \cap {"read", "write", "append"}
  /\ disk' = file'
  /\ UNCHANGED <<io, call, request, orphans, calls, answer, claimed, synced, unsure>>

IsOpen == cursor # NoCall

-----------------------------------------------------------------------------
(* Calls.  `off` is where the next request goes, `len` and `cap` are the   *)
(* buffer's, `at` is where IoBufWithCursor stands in it, and `bytes` is    *)
(* what was read so far.  `start` and `want` are what the caller asked for.*)

Cursored == {"read", "write", "fs_read", "fs_write"}
Reading == {"read_at", "read_exact_at", "read", "fs_read"}
Writes == {"write_at", "write_exact_at", "write", "fs_write"}
Syncs == {"sync"}

\* O_APPEND lets no write choose its position: callers of such a file use the
\* cursor.  fs::read has an array of its own; for writes, and where only the
\* length counts, one buffer is like the other.
Begin(op, off, want, kind, extra) ==
  /\ calls < MaxCalls /\ IsOpen /\ call = NoCall
  /\ op \in {"write_at", "write_exact_at"} => "append" \notin flags
  /\ op \in Writes => off + want <= Size
  /\ op = "fs_read" => kind = "array" /\ want > 0 /\ off = 0
  /\ op \notin Reading => kind = "vec" /\ extra = 0
  /\ extra > 0 => kind = "vec" /\ io = "completion"
  /\ op \in Cursored => off = cursor
  /\ op \in Syncs => off = 0 /\ want = 0
  /\ calls' = calls + 1
  /\ call' = [op |-> op, id |-> calls + 1, start |-> off, off |-> off, want |-> want,
              kind |-> kind, len |-> want, cap |-> want + extra, at |-> 0, bytes |-> <<>>]
  /\ answer' = NoCall
  /\ UNCHANGED <<io, flags, file, disk, cursor, request, orphans, claimed, synced, unsure>>

Touched(c) ==
  IF "append" \in flags THEN {p \in Positions : p >= c.start}
  ELSE {p \in Positions : p >= c.start /\ p < c.start + c.want}

\* The call returns Ok: callers now know what is in the file.
Succeeds(c, n) ==
  /\ answer' = [op |-> c.op, id |-> c.id, start |-> c.start, want |-> c.want,
                kind |-> c.kind, bytes |-> c.bytes, n |-> n]
  /\ call' = NoCall /\ request' = NoCall
  /\ claimed' = IF c.op \notin Writes THEN claimed
                ELSE [p \in Positions |-> IF p >= c.start /\ p < c.start + n THEN c.id ELSE claimed[p]]
  /\ synced' = IF c.op \in Syncs THEN claimed ELSE synced
  /\ UNCHANGED unsure

\* The call returns an error: a write may have been done in part.
GivesUp(c) ==
  /\ answer' = NoCall
  /\ call' = NoCall /\ request' = NoCall
  /\ unsure' = IF c.op \in Writes THEN unsure \cup Touched(c) ELSE unsure
  /\ UNCHANGED <<claimed, synced>>

\* read_at and write_at with an empty buffer; the loops of read_exact_at,
\* write_exact_at and fs::write when there is nothing left.
EmptyIsDone ==
  /\ call # NoCall /\ request = NoCall
  /\ call.op \notin Syncs /\ call.len - call.at = 0
  /\ Succeeds(call, call.off - call.start)
  /\ UNCHANGED <<io, flags, file, disk, cursor, orphans, calls>>

\* A request is made: the ring reads into the capacity of the buffer, the
\* others into its length.
Asks ==
  /\ call # NoCall /\ request = NoCall
  /\ call.op \in Syncs \/ call.len - call.at > 0
  /\ request' = [op |-> call.op, id |-> call.id, off |-> call.off, state |-> "asked",
                 n |-> IF io = "completion" /\ call.op \in Reading
                       THEN call.cap - call.at ELSE call.len - call.at,
                 bytes |-> <<>>]
  /\ UNCHANGED <<io, flags, file, disk, cursor, call, orphans, calls, answer, claimed, synced, unsure>>

-----------------------------------------------------------------------------
(* The kernel.                                                             *)

\* Where a request that writes writes.
Where(r) == IF "append" \in flags THEN Len(file) ELSE r.off

\* `bs` written to `f` at `p`; a hole before it is filled with zeros.
Written(f, p, bs) ==
  [i \in 1..(IF p + Len(bs) > Len(f) THEN p + Len(bs) ELSE Len(f)) |->
    IF i > p /\ i <= p + Len(bs) THEN bs[i - p] ELSE IF i <= Len(f) THEN f[i] ELSE 0]

\* The states of a request that was carried out: in part, if it is a read or a
\* write.
Performed(r) ==
  LET there == IF r.off < Len(file) THEN Len(file) - r.off ELSE 0
      most == IF r.op \in Reading /\ there < r.n THEN there ELSE r.n
      some == IF r.op \in Syncs \/ most = 0 THEN {0} ELSE 1..most
  IN {[r EXCEPT !.state = "done", !.n = k,
                !.bytes = IF r.op \in Reading THEN SubSeq(file, r.off + 1, r.off + k)
                          ELSE [i \in 1..k |-> r.id]] : k \in some}

Allowed(r) ==
  /\ r.op \in Reading => "read" \in flags
  /\ r.op \in Writes => Writing(flags) /\ Where(r) + r.n <= Size

\* The effect of a request that was carried out.
Effect(r) ==
  /\ file' = IF r.op \in Writes THEN Written(file, Where(r), r.bytes) ELSE file
  /\ disk' = IF r.op \in Syncs THEN file ELSE disk

Performs ==
  /\ request # NoCall /\ request.state = "asked" /\ Allowed(request)
  /\ \E r \in Performed(request) : Effect(r) /\ request' = r
  /\ UNCHANGED <<io, flags, cursor, call, orphans, calls, answer, claimed, synced, unsure>>

\* It fails without an effect, or it could not be made: the ring is full, the
\* file cannot be cloned, or the pool dropped the job.
Fails ==
  /\ request # NoCall /\ request.state = "asked"
  /\ GivesUp(call)
  /\ UNCHANGED <<io, flags, file, disk, cursor, orphans, calls>>

OrphanPerforms ==
  /\ \E o \in orphans :
       /\ orphans' = orphans \ {o}
       /\ \/ Allowed(o) /\ \E r \in Performed(o) : Effect(r)
          \/ UNCHANGED <<file, disk>>
  /\ UNCHANGED <<io, flags, cursor, call, request, calls, answer, claimed, synced, unsure>>

-----------------------------------------------------------------------------
(* Answers.                                                                *)

\* The buffer after a read of `k` bytes: ReadAtOp calls set_buf_init, the other
\* ways leave the length alone.
Filled(c, k) ==
  IF io = "completion" /\ c.kind = "vec" /\ c.op \in Reading THEN c.at + k ELSE c.len

\* Mutant: the position is not moved on with the buffer.
Advanced_buffer_only(c, k, bs) == [c EXCEPT !.at = @ + k, !.bytes = @ \o bs, !.len = Filled(c, k)]

\* The next round of a loop: IoBufWithCursor::advance and the offset move on by
\* what was done.
Advanced(c, k, bs) ==
  [c EXCEPT !.at = @ + k, !.off = @ + k, !.bytes = @ \o bs, !.len = Filled(c, k)]

\* AsyncRead and AsyncWrite: the cursor moves on by what was done.
MovesCursor(c, k) == cursor' = IF c.op \in Cursored THEN cursor + k ELSE cursor

\* One request is all: File::read_at, write_at, read, write, sync_all, sync_data.
Single(c, k, bs) ==
  /\ c.op \in {"read_at", "write_at", "read", "write"} \cup Syncs
  /\ Succeeds([c EXCEPT !.bytes = bs], k)

\* File::read_exact_at and File::write_exact_at: 0 is an error.
Exact(c, k, bs) ==
  /\ c.op \in {"read_exact_at", "write_exact_at"}
  /\ IF k = 0 THEN GivesUp(c)
     ELSE /\ call' = Advanced(c, k, bs) /\ request' = NoCall
          /\ UNCHANGED <<answer, claimed, synced, unsure>>

\* fs::read: until a read returns 0, with the whole buffer each time.
ReadsAll(c, k, bs) ==
  /\ c.op = "fs_read"
  /\ IF k = 0 THEN Succeeds(c, Len(c.bytes))
     ELSE /\ call' = [c EXCEPT !.off = @ + k, !.bytes = @ \o bs] /\ request' = NoCall
          /\ UNCHANGED <<answer, claimed, synced, unsure>>

\* fs::write: the rest of the contents each time, 0 is an error.
WritesAll(c, k, bs) ==
  /\ c.op = "fs_write"
  /\ IF k = 0 THEN GivesUp(c)
     ELSE /\ call' = [c EXCEPT !.off = @ + k, !.len = @ - k, !.cap = @ - k] /\ request' = NoCall
          /\ UNCHANGED <<answer, claimed, synced, unsure>>

Answers ==
  /\ call # NoCall /\ request # NoCall /\ request.state = "done"
  /\ LET k == request.n  bs == IF call.op \in Reading THEN request.bytes ELSE <<>> IN
       /\ MovesCursor(call, k)
       /\ Single(call, k, bs) \/ Exact(call, k, bs) \/ ReadsAll(call, k, bs) \/ WritesAll(call, k, bs)
  /\ UNCHANGED <<io, flags, file, disk, orphans, calls>>

\* The future is dropped while it waits: the request goes on without it, if
\* the kernel or the pool has it.
Drops ==
  /\ call # NoCall /\ request # NoCall /\ io # "blocking"
  /\ orphans' = IF request.state = "asked" THEN orphans \cup {request} ELSE orphans
  /\ GivesUp(call)
  /\ UNCHANGED <<io, flags, file, disk, cursor, calls>>

Next ==
  \/ open
  \/ /\ call = NoCall
     /\ \E op \in Reading \cup Writes \cup Syncs, off \in 0..Size, want \in 0..Size,
           kind \in Buffers, extra \in {0, 1} : Begin(op, off, want, kind, extra)
  \/ EmptyIsDone \/ Asks
  \/ Performs \/ Fails \/ OrphanPerforms
  \/ Answers \/ Drops

Spec == Init /\ [][Next]_vars

-----------------------------------------------------------------------------
\* What the call that is being polled is about to change.
Overwritten == IF call # NoCall /\ call.op \in Writes THEN Touched(call) ELSE {}

(* What callers were told is in the file is in the file: a write that      *)
(* returned Ok(n) is there with n bytes at its position, however the       *)
(* requests of it and of later calls were split, unless a later call still *)
(* is at it or a call that touched the position was dropped or failed.     *)
(* What was there when sync_all or sync_data returned is on the disk.      *)
FileHoldsReported ==
  \A p \in Positions \ (unsure \cup Overwritten) :
    /\ claimed[p] # NoCall => p < Len(file) /\ file[p + 1] = claimed[p]
    /\ synced[p] # NoCall => p < Len(disk) /\ disk[p + 1] >= synced[p]

(* A read that returned Ok gave the bytes the callers had been told of,    *)
(* at the position it was made for: of read_exact_at, of a read at the     *)
(* cursor and of fs::read no byte is missing in between or comes twice.    *)
ReadSeesReported ==
  answer # NoCall /\ answer.op \in Reading =>
    LET c == answer IN
    /\ c.op # "read_exact_at" => Len(c.bytes) = c.n
    /\ \A i \in 1..Len(c.bytes) : LET p == c.start + i - 1 IN
         p < Size /\ p \notin unsure /\ claimed[p] # NoCall /\ claimed[p] < c.id => c.bytes[i] = claimed[p]

(* write_exact_at and fs::write return Ok only when the whole buffer is in *)
(* the file, and read_exact_at only when the whole buffer was filled - of  *)
(* a Vec read by the ring only as far as the last short read.              *)
ExactIsWhole ==
  answer # NoCall =>
    LET c == answer IN
    /\ c.op \in {"write_exact_at", "fs_write"} => c.n = c.want
    /\ c.op = "read_exact_at" /\ ~(io = "completion" /\ c.kind = "vec") => Len(c.bytes) = c.want

(* "This method reads into the provided buffer starting at the given       *)
(* offset, ensuring the entire buffer is filled" (fs/file.rs).             *)
ReadExactFills ==
  answer # NoCall /\ answer.op = "read_exact_at" => Len(answer.bytes) >= answer.want

(* The options mean what they mean to std::fs::OpenOptions, whoever opens  *)
(* the file: the same opens succeed, with the same file.  (The exception:  *)
(* the ring truncates a file opened for append and truncate, which std     *)
(* refuses to open.)                                                       *)
OpenMeansStd ==
  ~IsOpen /\ ~({"append", "truncate"} \subseteq flags)
    => Opened(io, flags, file) = Openat(std_open(flags), file)

(* What calls on a file report is what happened to it: the three           *)
(* invariants above, of all reads, writes and syncs.                       *)
FileIsAsReported == FileHoldsReported /\ ReadSeesReported /\ ExactIsWhole
=============================================================================
