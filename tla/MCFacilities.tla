---------------------------- MODULE MCFacilities -----------------------------
(* Sleeps, intervals, signals, files, AsyncWrap and the pool for TLC, side *)
(* by side: a behaviour is about one part, and the variables of the others *)
(* keep their value.                                                       *)
EXTENDS Timer

CONSTANT NoCall   \* no call of a file

VARIABLES
  part,  \* the part of the system this behaviour is about
  i_clock, i_period, i_missed_tick_behavior, i_next_deadline, i_target,
  i_start, i_ticks, i_returned, g_action, g_signals, g_states, g_counter,
  g_wakers, g_pipe, g_dispatch, g_listener, g_woken, g_raised, f_io, f_flags,
  f_file, f_disk, f_cursor, f_call, f_request, f_orphans, f_calls, f_answer,
  f_claimed, f_synced, f_unsure, a_at, a_read_buf, a_unread, a_heard, a_rest,
  a_written, a_wire, a_offered, a_told, b_site, b_platform, b_driver,
  b_offload, b_registered, b_inner, b_call, b_job, b_lent, b_input, b_heard,
  b_part, b_panicked

I == INSTANCE Interval WITH
  Periods <- {0, 3}, Milli <- 2, ClockSteps <- {1, 4}, MaxClock <- 16,
  clock <- i_clock, period <- i_period,
  missed_tick_behavior <- i_missed_tick_behavior,
  next_deadline <- i_next_deadline, target <- i_target, start <- i_start,
  ticks <- i_ticks, returned <- i_returned

G == INSTANCE Signal WITH
  Kinds <- {"SIGINT"}, Listeners <- {"l1", "l2"}, PipeSize <- 2,
  MaxSignals <- 3, MaxStates <- 2, action <- g_action, signals <- g_signals,
  states <- g_states, counter <- g_counter, wakers <- g_wakers,
  pipe <- g_pipe, dispatch <- g_dispatch, listener <- g_listener,
  woken <- g_woken, raised <- g_raised

F == INSTANCE Files WITH
  Size <- 2, MaxCalls <- 2, Ios <- {"completion", "pool", "blocking"},
  Buffers <- {"vec", "array"}, NoCall <- NoCall, io <- f_io,
  flags <- f_flags, file <- f_file, disk <- f_disk, cursor <- f_cursor,
  call <- f_call, request <- f_request, orphans <- f_orphans,
  calls <- f_calls, answer <- f_answer, claimed <- f_claimed,
  synced <- f_synced, unsure <- f_unsure

A == INSTANCE AsyncWrap WITH
  Input <- 4, MaxWritten <- 4, BufferSize <- 3, MaxBuf <- 2, at <- a_at,
  read_buf <- a_read_buf, unread <- a_unread, heard <- a_heard,
  rest <- a_rest, written <- a_written, wire <- a_wire, offered <- a_offered,
  told <- a_told

B == INSTANCE PoolIo WITH
  MaxCalls <- 3, site <- b_site, platform <- b_platform, driver <- b_driver,
  offload <- b_offload, registered <- b_registered, inner <- b_inner,
  call <- b_call, job <- b_job, lent <- b_lent, input <- b_input,
  heard <- b_heard, part <- b_part, panicked <- b_panicked

ASSUME I!IntervalAssumption
ASSUME G!SignalAssumption
ASSUME F!FilesAssumption
ASSUME A!AsyncWrapAssumption
ASSUME B!PoolIoAssumption

i_all ==
  <<i_clock, i_period, i_missed_tick_behavior, i_next_deadline, i_target,
    i_start, i_ticks, i_returned>>
g_all ==
  <<g_action, g_signals, g_states, g_counter, g_wakers, g_pipe, g_dispatch,
    g_listener, g_woken, g_raised>>
f_all ==
  <<f_io, f_flags, f_file, f_disk, f_cursor, f_call, f_request, f_orphans,
    f_calls, f_answer, f_claimed, f_synced, f_unsure>>
a_all ==
  <<a_at, a_read_buf, a_unread, a_heard, a_rest, a_written, a_wire,
    a_offered, a_told>>
b_all ==
  <<b_site, b_platform, b_driver, b_offload, b_registered, b_inner, b_call,
    b_job, b_lent, b_input, b_heard, b_part, b_panicked>>

fullvars == <<part, vars, i_all, g_all, f_all, a_all, b_all>>

\* A part that the behaviour is not about stays in one of its initial states.
NoInterval == I!Init /\ i_period = 0 /\ i_next_deadline = 0
NoSignal == G!Init
NoFiles == F!Init /\ f_io = "pool" /\ f_flags = {} /\ f_file = <<>>
NoAsyncWrap == A!Init
NoPoolIo == B!Init /\ b_site = B!rename /\ b_platform = "unix" /\ b_driver = "poll" /\ ~b_offload /\ ~b_registered

SumInit ==
  \/ part = "timer" /\ Init /\ NoInterval /\ NoSignal /\ NoFiles /\ NoAsyncWrap /\ NoPoolIo
  \/ part = "interval" /\ I!Init /\ Init /\ NoSignal /\ NoFiles /\ NoAsyncWrap /\ NoPoolIo
  \/ part = "signal" /\ G!Init /\ Init /\ NoInterval /\ NoFiles /\ NoAsyncWrap /\ NoPoolIo
  \/ part = "files" /\ F!Init /\ Init /\ NoInterval /\ NoSignal /\ NoAsyncWrap /\ NoPoolIo
  \/ part = "async_wrap" /\ A!Init /\ Init /\ NoInterval /\ NoSignal /\ NoFiles /\ NoPoolIo
  \/ part = "pool" /\ B!Init /\ Init /\ NoInterval /\ NoSignal /\ NoFiles /\ NoAsyncWrap

SumNext ==
  \/ part = "timer" /\ Next /\ UNCHANGED <<part, i_all, g_all, f_all, a_all, b_all>>
  \/ part = "interval" /\ I!Next /\ UNCHANGED <<part, vars, g_all, f_all, a_all, b_all>>
  \/ part = "signal" /\ G!Next /\ UNCHANGED <<part, vars, i_all, f_all, a_all, b_all>>
  \/ part = "files" /\ F!Next /\ UNCHANGED <<part, vars, i_all, g_all, a_all, b_all>>
  \/ part = "async_wrap" /\ A!Next /\ UNCHANGED <<part, vars, i_all, g_all, f_all, b_all>>
  \/ part = "pool" /\ B!Next /\ UNCHANGED <<part, vars, i_all, g_all, f_all, a_all>>
  \/ part \in {"signal", "files", "async_wrap", "pool"} /\ UNCHANGED fullvars  \* these may stop

SumSpec == SumInit /\ [][SumNext]_fullvars

-----------------------------------------------------------------------------
(* The invariants of the parts, of the behaviours that are about them.     *)

(* Interval: ticks come on the grid and none comes twice.                  *)
TicksOnGrid == part = "interval" => I!TicksOnGrid

(* Interval: a tick that slept skips no deadline to come.                  *)
SkipsNoFutureDeadline == part = "interval" => I!SkipsNoFutureDeadline

(* Signal: a signal reaches every listener that waits for it.              *)
ListenersAreReached == part = "signal" => G!ListenersAreReached

(* Files: what calls on a file report is what happened to it.              *)
FileIsAsReported == part = "files" => F!FileIsAsReported

(* Files: the options mean what they mean to std::fs::OpenOptions.         *)
OpenMeansStd == part = "files" => F!OpenMeansStd

(* AsyncWrap: the bytes of both directions are kept.                       *)
StreamIsKept == part = "async_wrap" => A!StreamIsKept

(* PoolIo: a call of the pool gets back what it lent and what it read.     *)
CallsGetTheirDue == part = "pool" => B!CallsGetTheirDue
=============================================================================
