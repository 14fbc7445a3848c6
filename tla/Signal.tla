------------------------------- MODULE Signal -------------------------------
(***************************************************************************)
(* Unix signals, signal/unix.rs: the handler that writes signal numbers to *)
(* a pipe, the dispatch thread that reads it, the registry of signals, and *)
(* the Signal listeners, each on a thread of its own.                      *)
(*                                                                         *)
(* A step is one critical section, one atomic access or one system call.   *)
(* SignalState objects are numbered in the order of their creation.  The   *)
(* wakers of a state are a set: register_waker replaces a waker that wakes *)
(* the same task.                                                          *)
(***************************************************************************)
EXTENDS Naturals, Sequences, FiniteSets

CONSTANTS
  Kinds,      \* signal numbers
  Listeners,  \* the Signal values, named after their tasks
  PipeSize,   \* how many signals the pipe holds
  MaxSignals, \* bound on the signals raised
  MaxStates   \* bound on the SignalStates created

SignalAssumption ==
  /\ PipeSize \in Nat \ {0}
  /\ MaxSignals \in Nat
  /\ MaxStates \in Nat

NoEntry == [state |-> 0, refs |-> 0, prev_action |-> "original"]

VARIABLES
  action,    \* the kernel's disposition of each signal
  signals,   \* Registry::signals
  states,    \* how many SignalStates were created
  counter,   \* SignalState::counter
  wakers,    \* SignalState::wakers
  pipe,      \* the pipe from the handler to the dispatch thread
  dispatch,  \* the dispatch thread: [pc, state, wakers]
  listener,  \* the listeners: [pc, kind, state, last_seen, prev_action]
  woken,     \* the tasks that were woken and not polled since
  raised     \* the number of signals raised

vars == <<action, signals, states, counter, wakers, pipe, dispatch, listener, woken, raised>>

NoListener ==
  [pc |-> "none", kind |-> CHOOSE k \in Kinds : TRUE, state |-> 0, last_seen |-> 0,
   prev_action |-> "original"]

Idle == [pc |-> "read", state |-> 0, wakers |-> {}]

Init ==
  /\ action = [k \in Kinds |-> "original"]
  /\ signals = [k \in Kinds |-> NoEntry]
  /\ states = 0
  /\ counter = [i \in 1..MaxStates |-> 0]
  /\ wakers = [i \in 1..MaxStates |-> {}]
  /\ pipe = <<>>
  /\ dispatch = Idle
  /\ listener = [l \in Listeners |-> NoListener]
  /\ woken = {}
  /\ raised = 0

-----------------------------------------------------------------------------
(* The handler and the dispatch thread.                                    *)

\* A signal arrives.  With its original disposition it is not our business;
\* signal_handler loses it when the pipe is full.
Raise(k) ==
  /\ raised < MaxSignals
  /\ raised' = raised + 1
  /\ pipe' = IF action[k] = "handler" /\ Len(pipe) < PipeSize THEN Append(pipe, k) ELSE pipe
  /\ UNCHANGED <<action, signals, states, counter, wakers, dispatch, listener, woken>>

\* dispatch_loop reads a number, and dispatch_signal looks it up.
Lookup ==
  /\ dispatch.pc = "read"
  /\ pipe # <<>>
  /\ pipe' = Tail(pipe)
  /\ LET entry == signals[Head(pipe)]
     IN  dispatch' = IF entry = NoEntry THEN Idle
                     ELSE [pc |-> "add", state |-> entry.state, wakers |-> {}]
  /\ UNCHANGED <<action, signals, states, counter, wakers, listener, woken, raised>>

Add ==
  /\ dispatch.pc = "add"
  /\ counter' = [counter EXCEPT ![dispatch.state] = @ + 1]
  /\ dispatch' = [dispatch EXCEPT !.pc = "take"]
  /\ UNCHANGED <<action, signals, states, wakers, pipe, listener, woken, raised>>

Take ==
  /\ dispatch.pc = "take"
  /\ dispatch' = [dispatch EXCEPT !.pc = "wake", !.wakers = wakers[dispatch.state]]
  /\ wakers' = [wakers EXCEPT ![dispatch.state] = {}]
  /\ UNCHANGED <<action, signals, states, counter, pipe, listener, woken, raised>>

Wake ==
  /\ dispatch.pc = "wake"
  /\ IF dispatch.wakers = {}
       THEN dispatch' = Idle /\ UNCHANGED woken
       ELSE \E l \in dispatch.wakers :
              /\ woken' = woken \cup {l}
              /\ dispatch' = [dispatch EXCEPT !.wakers = @ \ {l}]
  /\ UNCHANGED <<action, signals, states, counter, wakers, pipe, listener, raised>>

-----------------------------------------------------------------------------
(* Listeners.                                                              *)

Live(l) == listener[l].pc \notin {"none", "restore"}

\* register_signal, under the lock of the registry: the first listener of a
\* signal installs the handler.
register_signal(l, k) ==
  /\ listener[l].pc = "none"
  /\ IF signals[k] # NoEntry
       THEN /\ signals' = [signals EXCEPT ![k].refs = @ + 1]
            /\ UNCHANGED <<action, states>>
       ELSE /\ states < MaxStates
            /\ states' = states + 1
            /\ signals' = [signals EXCEPT ![k] = [state |-> states + 1, refs |-> 1,
                                                  prev_action |-> action[k]]]
            /\ action' = [action EXCEPT ![k] = "handler"]
  /\ listener' = [listener EXCEPT ![l] = [NoListener EXCEPT !.pc = "new", !.kind = k,
                                                            !.state = signals'[k].state]]
  /\ woken' = woken \ {l}
  /\ UNCHANGED <<counter, wakers, pipe, dispatch, raised>>

\* The rest of Signal::new: last_seen.
LoadSeen(l) ==
  /\ listener[l].pc = "new"
  /\ listener' = [listener EXCEPT ![l].pc = "idle", ![l].last_seen = counter[listener[l].state]]
  /\ UNCHANGED <<action, signals, states, counter, wakers, pipe, dispatch, woken, raised>>

\* poll_recv: the load of the counter.  The task is polled when recv is
\* called, when it was woken, or for another reason.
PollLoad(l) ==
  /\ listener[l].pc \in {"idle", "pending"}
  /\ LET current == counter[listener[l].state]
     IN  listener' = IF current # listener[l].last_seen
                       THEN [listener EXCEPT ![l].pc = "idle", ![l].last_seen = current]
                       ELSE [listener EXCEPT ![l].pc = "register"]
  /\ woken' = woken \ {l}
  /\ UNCHANGED <<action, signals, states, counter, wakers, pipe, dispatch, raised>>

\* Mutant: a waker that is there, of whatever task, is taken for this one's.
register_waker_First(l) ==
  /\ listener[l].pc = "register"
  /\ wakers' = [wakers EXCEPT ![listener[l].state] = IF @ = {} THEN {l} ELSE @]
  /\ listener' = [listener EXCEPT ![l].pc = "pending"]
  /\ UNCHANGED <<action, signals, states, counter, pipe, dispatch, woken, raised>>

\* ... and, when it has not changed, register_waker: recv is pending.
register_waker(l) ==
  /\ listener[l].pc = "register"
  /\ wakers' = [wakers EXCEPT ![listener[l].state] = @ \cup {l}]
  /\ listener' = [listener EXCEPT ![l].pc = "pending"]
  /\ UNCHANGED <<action, signals, states, counter, pipe, dispatch, woken, raised>>

\* Drop for Signal: unregister_signal, under the lock ...
unregister_signal(l) ==
  /\ listener[l].pc \in {"idle", "pending"}
  /\ LET k == listener[l].kind
     IN  IF signals[k].refs > 1
           THEN /\ signals' = [signals EXCEPT ![k].refs = @ - 1]
                /\ listener' = [listener EXCEPT ![l] = NoListener]
           ELSE /\ signals' = [signals EXCEPT ![k] = NoEntry]
                /\ listener' = [listener EXCEPT ![l] =
                                  [NoListener EXCEPT !.pc = "restore", !.kind = k,
                                                     !.prev_action = signals[k].prev_action]]
  /\ woken' = woken \ {l}
  /\ UNCHANGED <<action, states, counter, wakers, pipe, dispatch, raised>>

\* ... and, after the lock, restore_handler for the last listener.
restore_handler(l) ==
  /\ listener[l].pc = "restore"
  /\ action' = [action EXCEPT ![listener[l].kind] = listener[l].prev_action]
  /\ listener' = [listener EXCEPT ![l] = NoListener]
  /\ UNCHANGED <<signals, states, counter, wakers, pipe, dispatch, woken, raised>>

-----------------------------------------------------------------------------

Next ==
  \/ \E k \in Kinds : Raise(k)
  \/ Lookup \/ Add \/ Take \/ Wake
  \/ \E l \in Listeners :
       \/ \E k \in Kinds : register_signal(l, k)
       \/ LoadSeen(l) \/ PollLoad(l) \/ register_waker(l)
       \/ unregister_signal(l) \/ restore_handler(l)

Spec == Init /\ [][Next]_vars

-----------------------------------------------------------------------------
(* Properties.                                                             *)

(* The registry counts its listeners, and all listeners of a signal share  *)
(* the SignalState of the registry: none waits on a state that dispatch    *)
(* does not know any more ("all will be woken when the signal is           *)
(* received", unix.rs 147).                                                *)
ListenersShareState ==
  \A k \in Kinds :
    LET here == {l \in Listeners : Live(l) /\ listener[l].kind = k}
    IN  /\ signals[k].refs = Cardinality(here)
        /\ \A l \in here : listener[l].state = signals[k].state

(* A pending listener is never stranded: its waker is registered or being  *)
(* woken, so that the next signal reaches it.                              *)
NeverStranded ==
  \A l \in Listeners : listener[l].pc = "pending" /\ l \notin woken =>
    \/ l \in wakers[listener[l].state]
    \/ l \in dispatch.wakers

(* A signal reaches every listener that waits for it: listeners, registry  *)
(* and dispatch thread agree on the state, and a pending one has its waker *)
(* there.                                                                  *)
ListenersAreReached == ListenersShareState /\ NeverStranded
=============================================================================
