----------------------------- MODULE MCProgress ------------------------------
(* Tasks, child processes, copies and transfers for TLC, side by side: a   *)
(* behaviour is about one part, and the variables of the others keep their *)
(* value.                                                                  *)
EXTENDS Tasks

CONSTANT Children   \* child processes

VARIABLES
  part,  \* the part of the system this behaviour is about
  p_mode, p_runtime, p_proc, p_child, p_answer, p_holder, p_at, p_current,
  p_reapers, p_sigchld, p_lost, c_dirs, c_pc, c_lock, c_buf, c_read,
  c_copied, c_unread, c_sent, c_closed, c_written, c_taken, s_kind, s_len,
  s_source, s_coming, s_pipe, s_out, s_delivered, s_total_from_file,
  s_total_to_socket, s_file_eof, s_pc, s_waiting, s_result

P == INSTANCE Process WITH
  Children <- Children,
  Modes <- {"uring", "mio", "signal", "blocking", "windows"},
  Failures <- TRUE, None <- NoOne, mode <- p_mode, runtime <- p_runtime,
  proc <- p_proc, child <- p_child, answer <- p_answer, holder <- p_holder,
  at <- p_at, current <- p_current, reapers <- p_reapers,
  sigchld <- p_sigchld, lost <- p_lost

C == INSTANCE Copy WITH
  Chunk <- 2, Room <- 1, MaxBytes <- 2, Nobody <- NoOne, dirs <- c_dirs,
  pc <- c_pc, lock <- c_lock, buf <- c_buf, read <- c_read,
  copied <- c_copied, unread <- c_unread, sent <- c_sent, closed <- c_closed,
  written <- c_written, taken <- c_taken

S == INSTANCE Sendfile WITH
  Kinds <- {"sendfile_ring", "sendfile_poll", "splice_ring", "splice_poll"},
  MaxLen <- 5, U32 <- 4, PipeRoom <- 2, OutRoom <- 2, kind <- s_kind,
  len <- s_len, source <- s_source, coming <- s_coming, pipe <- s_pipe,
  out <- s_out, delivered <- s_delivered,
  total_from_file <- s_total_from_file, total_to_socket <- s_total_to_socket,
  file_eof <- s_file_eof, pc <- s_pc, waiting <- s_waiting,
  result <- s_result

ASSUME P!ProcessAssumption
ASSUME C!CopyAssumption
ASSUME S!SendfileAssumption

p_all ==
  <<p_mode, p_runtime, p_proc, p_child, p_answer, p_holder, p_at, p_current,
    p_reapers, p_sigchld, p_lost>>
c_all ==
  <<c_dirs, c_pc, c_lock, c_buf, c_read, c_copied, c_unread, c_sent,
    c_closed, c_written, c_taken>>
s_all ==
  <<s_kind, s_len, s_source, s_coming, s_pipe, s_out, s_delivered,
    s_total_from_file, s_total_to_socket, s_file_eof, s_pc, s_waiting,
    s_result>>

fullvars == <<part, vars, p_all, c_all, s_all>>

\* A part that the behaviour is not about stays in one of its initial states.
NoProcess == P!Init /\ p_mode = "uring"
NoCopy == C!Init /\ c_dirs = {"ab"}
NoSendfile == S!Init /\ s_kind = "sendfile_poll" /\ s_len = 0 /\ s_source = 0

SumInit ==
  \/ part = "tasks" /\ Init /\ NoProcess /\ NoCopy /\ NoSendfile
  \/ part = "process" /\ P!Init /\ Init /\ NoCopy /\ NoSendfile
  \/ part = "copy" /\ C!Init /\ Init /\ NoProcess /\ NoSendfile
  \/ part = "sendfile" /\ S!Init /\ Init /\ NoProcess /\ NoCopy

SumNext ==
  \/ part = "tasks" /\ Next /\ UNCHANGED <<part, p_all, c_all, s_all>>
  \/ part = "process" /\ P!Next /\ UNCHANGED <<part, vars, c_all, s_all>>
  \/ part = "copy" /\ C!Next /\ UNCHANGED <<part, vars, p_all, s_all>>
  \/ part = "sendfile" /\ S!Next /\ UNCHANGED <<part, vars, p_all, c_all>>
  \/ part \in {"tasks", "process", "copy", "sendfile"} /\ UNCHANGED fullvars  \* these may stop

\* The fairness of the parts; nothing of Tasks is enabled in its initial state.
SumFairness ==
  /\ Fairness
  /\ \A c \in Children : WF_p_all(part = "process" /\ P!ReaperStep(c))
  /\ \A d \in C!Directions : WF_c_all(part = "copy" /\ C!copy(d))
  /\ \A e \in C!Ends : WF_c_all(part = "copy" /\ C!Takes(e))
  /\ WF_s_all(part = "sendfile" /\ S!Transfers)
  /\ WF_s_all(part = "sendfile" /\ S!SourceGrows)
  /\ WF_s_all(part = "sendfile" /\ S!PeerReads)

SumSpec == SumInit /\ [][SumNext]_fullvars /\ SumFairness

-----------------------------------------------------------------------------
(* The properties of the parts, of the behaviours that are about them.     *)

(* Process: no wait is told a lie, no exit is missed.                      *)
ExitsAreKnown == part = "process" => P!ExitsAreKnown

(* Process: the wait for a process that has exited ends.                   *)
WaitIsAnswered == P!WaitIsAnswered

(* Process: a process whose Child is waited for or dropped is reaped.      *)
NoZombieStays == P!NoZombieStays

(* Copy: copy loses, repeats and swaps nothing.                            *)
CopiesAll == part = "copy" => C!CopiesAll

(* Copy: once the peers have closed, copy and copy_bidirectional return.   *)
EndedIsCopied == C!EndedIsCopied

(* Sendfile: what sendfile_exact and splice_exact report was delivered.    *)
SendfileIsExact == part = "sendfile" => S!SendfileIsExact

(* Sendfile: every transfer ends.                                          *)
TransferEnds == part = "sendfile" => S!TransferEnds
=============================================================================
