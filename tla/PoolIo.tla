-------------------------------- MODULE PoolIo --------------------------------
(***************************************************************************)
(* Calls that hand blocking work to the pool, and lend it what they work   *)
(* on: the functions of fs/ and File (fs/file.rs), standard input, output  *)
(* and error (io/stdio.rs), the pipes of a child process and Command       *)
(* (process/mod.rs).                                                       *)
(*                                                                         *)
(* A call puts what it lends into a shared cell: the caller's buffer, or   *)
(* what it took out of `self` for the time of the call, or both.  The job  *)
(* takes it out of the cell, and sends it back with its result.  If the    *)
(* job never ran the call takes it out of the cell itself; if the future   *)
(* is dropped, what was lent goes down with it.                            *)
(***************************************************************************)
EXTENDS Naturals, Sequences, FiniteSets

CONSTANT MaxCalls    \* how many calls are made, one after the other

PoolIoAssumption == MaxCalls \in Nat

VARIABLES
  site,        \* the function that is called
  platform,    \* "linux", "unix", "windows"
  driver,      \* "completion", "poll", or "none" outside of a runtime
  offload,     \* RuntimeInner::fs_offload
  registered,  \* whether the handle of `self`, if it has one, is registered
  inner,       \* whether `self` has its inner object
  call,        \* of each call: "none", "waiting", "ok", "error", "closed", "dropped"
  job,         \* its job: "none", "queued", "running", "sent", "lost"
  lent,        \* where what it lent is: "caller", "cell", "job", "channel", "gone"
  input,       \* of the stream: how much the jobs consumed
  heard,       \* what the callers got, in order
  part,        \* what a job consumed
  panicked     \* an `expect` found nothing

vars == <<site, platform, driver, offload, registered, inner, call, job, lent,
          input, heard, part, panicked>>

Calls == 1..MaxCalls

-----------------------------------------------------------------------------
(* The functions.  `op` says where an operation of a driver does the work  *)
(* (modules Files and Operations); `pool` says when the pool does it: in   *)
(* any runtime, or in one that offloads files; `lends` is what it lends.   *)

FsFunction(name) == [name |-> name, op |-> "linux", pool |-> "offload", lends |-> {}]

rename == FsFunction("rename")
remove_dir == FsFunction("remove_dir")
remove_file == FsFunction("remove_file")
create_dir == FsFunction("create_dir")
hard_link == FsFunction("hard_link")
symlink_dir == FsFunction("symlink_dir")
symlink_file == FsFunction("symlink_file")
metadata == FsFunction("metadata")
symlink_metadata == FsFunction("symlink_metadata")
canonicalize == [name |-> "canonicalize", op |-> "never", pool |-> "offload", lends |-> {}]
open == FsFunction("open")

File(name, l) == [name |-> name, op |-> "completion", pool |-> "offload", lends |-> l]

read_at == File("read_at", {"buf"})
write_at == File("write_at", {"buf"})
sync_all == File("sync_all", {})
sync_data == File("sync_data", {})
file_metadata == File("file_metadata", {})

Stdio(name, l) == [name |-> name, op |-> "never", pool |-> "runtime", lends |-> l]

stdin_read == Stdio("stdin_read", {"buf"})
stdout_write == Stdio("stdout_write", {"buf"})
stderr_write == Stdio("stderr_write", {"buf"})
stdout_flush == Stdio("stdout_flush", {})
stderr_flush == Stdio("stderr_flush", {})

ChildPipe(name, l) == [name |-> name, op |-> "unix", pool |-> "runtime", lends |-> l]

child_stdin_write == ChildPipe("child_stdin_write", {"inner", "buf"})
child_stdin_flush == ChildPipe("child_stdin_flush", {"inner"})
child_stdout_read == ChildPipe("child_stdout_read", {"inner", "buf"})
child_stderr_read == ChildPipe("child_stderr_read", {"inner", "buf"})

Command_status == [name |-> "status", op |-> "never", pool |-> "runtime", lends |-> {"inner"}]
Command_output == [name |-> "output", op |-> "never", pool |-> "runtime", lends |-> {"inner"}]

Sites ==
  {rename, remove_dir, remove_file, create_dir, hard_link, symlink_dir, symlink_file,
   metadata, symlink_metadata, canonicalize, open, read_at, write_at, sync_all, sync_data,
   file_metadata, stdin_read, stdout_write, stderr_write, stdout_flush, stderr_flush,
   child_stdin_write, child_stdin_flush, child_stdout_read, child_stderr_read,
   Command_status, Command_output}

Sequential == {"stdin_read", "child_stdout_read", "child_stderr_read"}

Init ==
  /\ site \in Sites
  /\ platform \in {"linux", "unix", "windows"}
  /\ driver \in {"completion", "poll", "none"}
  /\ platform = "unix" => driver # "completion"
  /\ offload \in BOOLEAN /\ (driver = "none" => ~offload)
  /\ registered \in BOOLEAN
  /\ inner = TRUE
  /\ call = [c \in Calls |-> "none"]
  /\ job = [c \in Calls |-> "none"]
  /\ lent = [c \in Calls |-> "caller"]
  /\ input = 0 /\ heard = <<>>
  /\ part = [c \in Calls |-> 0]
  /\ panicked = FALSE

\* Who does the work.
Route ==
  CASE site.op = "linux" /\ platform = "linux" /\ driver = "completion" -> "op"
    [] site.op = "completion" /\ driver = "completion" /\ registered -> "op"
    [] site.op = "unix" /\ platform # "windows" /\ driver # "none" /\ registered -> "op"
    [] driver # "none" /\ (site.pool = "runtime" \/ offload) -> "pool"
    [] OTHER -> "thread"

-----------------------------------------------------------------------------

\* `self` is borrowed by a call: they are made one after the other.
Idle == \A c \in Calls : call[c] # "waiting"
IsNext(c) == call[c] = "none" /\ \A b \in Calls : b < c => call[b] # "none"

\* The call is made, and given to the pool.  A resource that an earlier call
\* lost is missed here.
Submits(c) ==
  /\ IsNext(c) /\ Idle /\ Route = "pool"
  /\ \/ /\ "inner" \in site.lends /\ ~inner
        /\ call' = [call EXCEPT ![c] = "closed"]
        /\ UNCHANGED <<job, lent, inner>>
     \/ /\ "inner" \in site.lends => inner
        /\ call' = [call EXCEPT ![c] = "waiting"]
        /\ job' = [job EXCEPT ![c] = "queued"]
        /\ lent' = [lent EXCEPT ![c] = IF site.lends = {} THEN "caller" ELSE "cell"]
        /\ inner' = (inner /\ "inner" \notin site.lends)
  /\ UNCHANGED <<site, platform, driver, offload, registered, input, heard, part, panicked>>

\* The work is done at once by the thread of the caller.
Blocks(c) ==
  /\ IsNext(c) /\ Idle /\ Route = "thread"
  /\ call' = [call EXCEPT ![c] = "ok"]
  /\ IF site.name \in Sequential
     THEN input' = input + 1 /\ heard' = Append(heard, input + 1)
     ELSE UNCHANGED <<input, heard>>
  /\ UNCHANGED <<site, platform, driver, offload, registered, inner, job, lent, part, panicked>>

\* A job starts: it takes what was lent out of the cell.
JobStarts(c) ==
  /\ job[c] = "queued"
  /\ job' = [job EXCEPT ![c] = "running"]
  /\ lent' = [lent EXCEPT ![c] = IF @ = "cell" THEN "job" ELSE @]
  /\ panicked' = (panicked \/ (site.lends # {} /\ lent[c] # "cell"))

\* A job ends: what it consumed and what was lent goes into the channel, or is
\* dropped if nobody is there to receive it.
JobEnds(c) ==
  /\ job[c] = "running"
  /\ job' = [job EXCEPT ![c] = "sent"]
  /\ lent' = [lent EXCEPT ![c] =
       IF @ # "job" THEN @ ELSE IF call[c] = "waiting" THEN "channel" ELSE "gone"]
  /\ IF site.name \in Sequential
     THEN input' = input + 1 /\ part' = [part EXCEPT ![c] = input + 1]
     ELSE UNCHANGED <<input, part>>
  /\ UNCHANGED panicked

\* The pool drops a job that it did not start.
JobLost(c) ==
  /\ job[c] = "queued"
  /\ job' = [job EXCEPT ![c] = "lost"]
  /\ UNCHANGED <<lent, input, part, panicked>>

Pool(c) ==
  /\ (JobStarts(c) /\ UNCHANGED <<input, part>>) \/ JobEnds(c) \/ JobLost(c)
  /\ UNCHANGED <<site, platform, driver, offload, registered, inner, call, heard>>

\* Mutant: what was taken out of `self` is not put back after an error.
Returns_forgetful(c) == inner' = (inner \/ ("inner" \in site.lends /\ job[c] = "sent"))

\* What was taken out of `self` is put back.
Returns(c) == inner' = (inner \/ "inner" \in site.lends)

\* The result arrives, with what was lent.
Receives(c) ==
  /\ call[c] = "waiting" /\ job[c] = "sent"
  /\ call' = [call EXCEPT ![c] = "ok"]
  /\ lent' = [lent EXCEPT ![c] = "caller"]
  /\ Returns(c)
  /\ heard' = IF part[c] = 0 THEN heard ELSE Append(heard, part[c])
  /\ UNCHANGED <<site, platform, driver, offload, registered, job, input, part, panicked>>

\* The job was lost: the cell still has what was lent, or `expect` panics.
Recovers(c) ==
  /\ call[c] = "waiting" /\ job[c] = "lost"
  /\ call' = [call EXCEPT ![c] = "error"]
  /\ panicked' = (panicked \/ (site.lends # {} /\ lent[c] # "cell"))
  /\ lent' = [lent EXCEPT ![c] = "caller"]
  /\ Returns(c)
  /\ UNCHANGED <<site, platform, driver, offload, registered, job, input, heard, part>>

\* The future is dropped.  The job has its own reference to the cell.
Drops(c) ==
  /\ call[c] = "waiting"
  /\ call' = [call EXCEPT ![c] = "dropped"]
  /\ lent' = [lent EXCEPT ![c] =
       IF @ = "channel" \/ (@ = "cell" /\ job[c] = "lost") THEN "gone" ELSE @]
  /\ UNCHANGED <<site, platform, driver, offload, registered, inner, job, input, heard, part, panicked>>

Next == \E c \in Calls : Submits(c) \/ Blocks(c) \/ Pool(c) \/ Receives(c) \/ Recovers(c) \/ Drops(c)

Spec == Init /\ [][Next]_vars

-----------------------------------------------------------------------------
(* What a call lent comes back with its answer: no `expect` finds its cell *)
(* empty, also when the pool drops the job, and `self` is without its      *)
(* inner object only during a call or after the future of one was dropped  *)
(* (every later call of it then fails).                                    *)
LentComesBack ==
  /\ ~panicked
  /\ ~inner => \E c \in Calls : call[c] \in {"waiting", "dropped"}

(* What the jobs take from a stream reaches the callers in the order of    *)
(* the stream, although the job of a dropped call may still run, before or *)
(* after the job of the next one; what is missing was taken by such a job, *)
(* or is on its way.                                                       *)
HeardInOrder ==
  /\ \A i, j \in 1..Len(heard) : i < j => heard[i] < heard[j]
  /\ \A n \in 1..input :
       \/ \E i \in 1..Len(heard) : heard[i] = n
       \/ \E c \in Calls : part[c] = n /\ call[c] \in {"waiting", "dropped"}

(* A call gets back what it lent and what its job took from the stream:    *)
(* the two invariants above.                                               *)
CallsGetTheirDue == LentComesBack /\ HeardInOrder
=============================================================================
