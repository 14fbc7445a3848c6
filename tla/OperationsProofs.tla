-------------------------- MODULE OperationsProofs --------------------------
(***************************************************************************)
(* Proof that the memory a request points to outlives the kernel's use of  *)
(* it (LentIsKept of module Operations), for any number of operations,     *)
(* keys and wakers, and for all 23 kinds of operation.                     *)
(***************************************************************************)
EXTENDS Operations, TLAPS

(* What Drop gives to ignore_completion is all that the request was lent,  *)
(* for every kind of operation.                                            *)
LEMMA KeepsWhatItLends == \A k \in Kinds : Shapes[k].lends \subseteq Shapes[k].keeps
<1> DEFINE Kept(r) == r.lends \subseteq r.keeps
<1>1. /\ Kept(Plain) /\ \A i \in {"readable", "writable", "none"} : Kept(Buffered(i))
  BY DEF Plain, Buffered
<1>2. /\ Kept(ReadOp) /\ Kept(RecvOp) /\ Kept(WriteOp) /\ Kept(SendOp)
      /\ Kept(OpenOp) /\ Kept(FsyncOp) /\ Kept(MkDirOp) /\ Kept(RenameOp)
      /\ Kept(UnlinkOp) /\ Kept(SymlinkOp) /\ Kept(HardLinkOp)
  BY <1>1 DEF ReadOp, RecvOp, WriteOp, SendOp, OpenOp, FsyncOp, MkDirOp, RenameOp, UnlinkOp,
              SymlinkOp, HardLinkOp
<1>3. Kept(ReadAtOp) /\ Kept(WriteAtOp)
  BY DEF ReadAtOp, WriteAtOp, Buffered
<1>4. Kept(ReadvOp) /\ Kept(WritevOp) /\ Kept(RecvfromOp) /\ Kept(SendtoOp)
  BY DEF ReadvOp, WritevOp, RecvfromOp, SendtoOp, Buffered
<1>5. Kept(AcceptOp) /\ Kept(AcceptUnixOp) /\ Kept(ConnectOp)
  BY DEF AcceptOp, AcceptUnixOp, ConnectOp, Plain
<1>6. Kept(SpliceOp) /\ Kept(SendfileOp) /\ Kept(StatxOp)
  BY DEF SpliceOp, SendfileOp, StatxOp, Plain
<1>7. \A k \in Kinds : Kept(Shapes[k])
  BY <1>2, <1>3, <1>4, <1>5, <1>6 DEF Kinds, Shapes
<1> QED
  BY <1>7

-----------------------------------------------------------------------------
(* The inductive invariant.                                                *)

Types ==
  /\ DOMAIN op = Ops
  /\ \A o \in Ops :
       /\ DOMAIN op[o] = {"kind", "path", "pc", "token", "started", "waker", "mem", "result"}
       /\ op[o].kind \in Kinds
  /\ DOMAIN completions \subseteq Tokens
  /\ \A t \in DOMAIN completions :
       DOMAIN completions[t] = {"waker", "completed", "ignored", "kept"}
  /\ \A t \in DOMAIN request :
       DOMAIN request[t] = {"op", "state", "lent"} /\ request[t].op \in Ops

(* A pending operation has a slot of its own, which nobody ignores.        *)
TokenIsOwn ==
  \A o \in Ops : op[o].token # None =>
    /\ op[o].pc = "idle" /\ op[o].path = "completion"
    /\ op[o].token \in DOMAIN completions
    /\ ~completions[op[o].token].ignored
    /\ \A p \in Ops : op[p].token = op[o].token => p = o

(* A request that was not drained has its slot, which is not completed, so *)
(* that no poll frees it; what the request points to is with the operation *)
(* or, when that is gone, with the slot.                                   *)
RequestIsKept ==
  \A t \in DOMAIN request :
    /\ t \in DOMAIN completions
    /\ completions[t].completed = "no"
    /\ completions[t].ignored => request[t].lent \subseteq completions[t].kept
    /\ ~completions[t].ignored =>
         /\ op[request[t].op].token = t
         /\ request[t].lent \subseteq op[request[t].op].mem

(* On the completion path nothing an operation lends is inside of it, where *)
(* it would move with it: a StableBox is the same memory.                  *)
MemIsStable ==
  \A o \in Ops : op[o].path = "completion" =>
    \A m \in op[o].mem :
      m[1] \in Shapes[op[o].kind].lends /\ m[2] # "op"

IInv == Types /\ TokenIsOwn /\ RequestIsKept /\ MemIsStable

(* There are neither operations nor requests at the start.                 *)
LEMMA InitEstablishes == Init => IInv
<1> SUFFICES ASSUME Init PROVE IInv
  OBVIOUS
<1>1. "Read" \in Kinds
  BY DEF Kinds, Shapes
<1> QED
  BY <1>1 DEF Init, IInv, Types, TokenIsOwn, RequestIsKept, MemIsStable

(* A step on the poll path, or one that ends an operation without a slot,  *)
(* touches neither slots nor requests.                                     *)
LEMMA WithoutSlot ==
  ASSUME IInv, UNCHANGED <<completions, request>>,
         NEW o \in Ops, op[o].token = None,
         op' = [op EXCEPT ![o] = op'[o]],
         DOMAIN op'[o] = DOMAIN op[o], op'[o].kind \in Kinds, op'[o].token = None,
         op'[o].path = "completion" =>
           \A m \in op'[o].mem : m[1] \in Shapes[op'[o].kind].lends /\ m[2] # "op"
  PROVE  IInv'
<1> USE DEF IInv
<1>1. \A p \in Ops : p # o => op'[p] = op[p]
  BY DEF Types
<1>2. Types'
  BY <1>1 DEF Types
<1>3. TokenIsOwn'
  BY <1>1 DEF TokenIsOwn, Types
<1>4. \A t \in DOMAIN request : ~completions[t].ignored => request[t].op # o
  BY OperationsAssumption DEF RequestIsKept, Types
<1>5. RequestIsKept'
  BY <1>1, <1>4 DEF RequestIsKept, Types
<1>6. MemIsStable'
  BY <1>1 DEF MemIsStable
<1> QED
  BY <1>2, <1>3, <1>5, <1>6

(* submit_completion takes a vacant slot for its request.                  *)
LEMMA Submits ==
  ASSUME IInv, NEW o \in Ops, NEW w \in Wakers, NEW t \in Tokens,
         submit_completion(o, w, t)
  PROVE  IInv'
<1> USE OperationsAssumption DEF IInv
<1>1. /\ t \notin DOMAIN completions /\ t \notin DOMAIN request
      /\ op[o].token = None /\ op[o].pc = "idle" /\ op[o].path = "completion"
  BY DEF submit_completion, Polled, RequestIsKept
<1>2. /\ \A p \in Ops : p # o => op'[p] = op[p]
      /\ DOMAIN op' = Ops /\ DOMAIN op'[o] = DOMAIN op[o]
      /\ op'[o].kind = op[o].kind /\ op'[o].token = t /\ op'[o].pc = "idle"
      /\ op'[o].path = "completion" /\ op'[o].mem = op[o].mem \cup Built(o)
  BY <1>1 DEF submit_completion, Pending, Types
<1>3. /\ DOMAIN completions' = DOMAIN completions \cup {t}
      /\ \A u \in DOMAIN completions : completions'[u] = completions[u]
      /\ completions'[t] = [waker |-> w, completed |-> "no", ignored |-> FALSE, kept |-> {}]
  BY <1>1 DEF submit_completion
<1>4. /\ DOMAIN request' = DOMAIN request \cup {t}
      /\ \A u \in DOMAIN request : request'[u] = request[u]
      /\ request'[t] = [op |-> o, state |-> "working", lent |-> op[o].mem \cup Built(o)]
  BY <1>1 DEF submit_completion
<1>5. Types'
  BY <1>2, <1>3, <1>4 DEF Types
<1>6. TokenIsOwn'
  BY <1>1, <1>2, <1>3 DEF TokenIsOwn
<1>7. \A u \in DOMAIN request : ~completions[u].ignored => request[u].op # o
  BY <1>1 DEF RequestIsKept, Types
<1>8. RequestIsKept'
  <2> SUFFICES ASSUME NEW u \in DOMAIN request'
               PROVE  /\ u \in DOMAIN completions' /\ completions'[u].completed = "no"
                      /\ completions'[u].ignored => request'[u].lent \subseteq completions'[u].kept
                      /\ ~completions'[u].ignored =>
                           /\ op'[request'[u].op].token = u
                           /\ request'[u].lent \subseteq op'[request'[u].op].mem
    BY DEF RequestIsKept
  <2>1. CASE u = t
    BY <2>1, <1>2, <1>3, <1>4
  <2>2. CASE u # t
    BY <2>2, <1>1, <1>2, <1>3, <1>4, <1>7 DEF RequestIsKept, Types
  <2> QED
    BY <2>1, <2>2
<1>9. MemIsStable'
  BY <1>1, <1>2 DEF MemIsStable, Built, Shape
<1> QED
  BY <1>5, <1>6, <1>8, <1>9

(* get_completion_result frees a slot whose request was drained.           *)
LEMMA Finishes ==
  ASSUME IInv, NEW o \in Ops, NEW w \in Wakers,
         get_completion_result(o, w)
  PROVE  IInv'
<1> USE OperationsAssumption DEF IInv
<1> DEFINE t == op[o].token
<1>1. t # None /\ completions[t].completed # "no" /\ UNCHANGED request
  BY DEF get_completion_result
<1>2. t \in DOMAIN completions /\ t \notin DOMAIN request /\ ~completions[t].ignored
  BY <1>1 DEF TokenIsOwn, RequestIsKept
<1>3. /\ \A p \in Ops : p # o => op'[p] = op[p]
      /\ DOMAIN op' = Ops /\ DOMAIN op'[o] = DOMAIN op[o]
      /\ op'[o].kind = op[o].kind /\ op'[o].token = None /\ op'[o].mem = {}
  BY DEF get_completion_result, Ready, Types
<1>4. /\ DOMAIN completions' = DOMAIN completions \ {t}
      /\ \A u \in DOMAIN completions' : completions'[u] = completions[u]
  BY DEF get_completion_result
<1> HIDE DEF t
<1>5. Types'
  BY <1>1, <1>3, <1>4 DEF Types
<1>6. TokenIsOwn'
  BY <1>2, <1>3, <1>4 DEF TokenIsOwn, t
<1>7. RequestIsKept'
  BY <1>1, <1>2, <1>3, <1>4 DEF RequestIsKept, Types, t
<1>8. MemIsStable'
  BY <1>3 DEF MemIsStable
<1> QED
  BY <1>5, <1>6, <1>7, <1>8

(* set_completion_waker changes a waker only.                              *)
LEMMA PollsAgain ==
  ASSUME IInv, NEW o \in Ops, NEW w \in Wakers, set_completion_waker(o, w)
  PROVE  IInv'
<1> USE DEF IInv
<1> DEFINE t == op[o].token
<1>1. t \in DOMAIN completions /\ UNCHANGED request
  BY DEF set_completion_waker, TokenIsOwn
<1>2. /\ DOMAIN op' = Ops
      /\ \A p \in Ops : /\ DOMAIN op'[p] = DOMAIN op[p] /\ op'[p].kind = op[p].kind
                         /\ op'[p].token = op[p].token /\ op'[p].pc = op[p].pc
                         /\ op'[p].path = op[p].path /\ op'[p].mem = op[p].mem
  BY DEF set_completion_waker, Types
<1>3. /\ DOMAIN completions' = DOMAIN completions
      /\ \A u \in DOMAIN completions :
           /\ DOMAIN completions'[u] = DOMAIN completions[u]
           /\ completions'[u].completed = completions[u].completed
           /\ completions'[u].ignored = completions[u].ignored
           /\ completions'[u].kept = completions[u].kept
  BY <1>1 DEF set_completion_waker, Types
<1>4. Types' /\ MemIsStable'
  BY <1>1, <1>2, <1>3 DEF Types, MemIsStable
<1>5. TokenIsOwn'
  BY <1>2, <1>3 DEF TokenIsOwn
<1>6. RequestIsKept'
  BY <1>1, <1>2, <1>3 DEF RequestIsKept, Types
<1> QED
  BY <1>4, <1>5, <1>6

(* The kernel finishes a request; its slot stays.                          *)
LEMMA Completes ==
  ASSUME IInv, NEW t \in DOMAIN request, NEW r \in {"ok", "err"}, Complete(t, r)
  PROVE  IInv'
<1>1. UNCHANGED <<op, completions>>
  BY DEF Complete
<1>2. /\ DOMAIN request' = DOMAIN request
      /\ \A u \in DOMAIN request : /\ DOMAIN request'[u] = DOMAIN request[u]
                                   /\ request'[u].op = request[u].op
                                   /\ request'[u].lent = request[u].lent
  BY DEF Complete, IInv, Types
<1> QED
  BY <1>1, <1>2 DEF IInv, Types, TokenIsOwn, RequestIsKept, MemIsStable

(* The driver drains the request, and frees its slot only if the operation *)
(* was dropped.                                                            *)
LEMMA Drains ==
  ASSUME IInv, NEW t \in DOMAIN request, Drain(t)
  PROVE  IInv'
<1> USE DEF IInv
<1>1. UNCHANGED op /\ DOMAIN request' = DOMAIN request \ {t}
      /\ \A u \in DOMAIN request' : request'[u] = request[u]
  BY DEF Drain
<1>2. t \in DOMAIN completions
  BY DEF RequestIsKept
<1>3. CASE completions[t].ignored
  <2>1. /\ DOMAIN completions' = DOMAIN completions \ {t}
        /\ \A u \in DOMAIN completions' : completions'[u] = completions[u]
    BY <1>3 DEF Drain
  <2>2. \A o \in Ops : op[o].token = t => t = None
    BY <1>3 DEF TokenIsOwn
  <2>3. TokenIsOwn'
    BY <1>1, <2>1, <2>2 DEF TokenIsOwn
  <2> QED
    BY <1>1, <2>1, <2>3 DEF Types, RequestIsKept, MemIsStable
<1>4. CASE ~completions[t].ignored
  <2>1. /\ DOMAIN completions' = DOMAIN completions
        /\ \A u \in DOMAIN completions :
             /\ DOMAIN completions'[u] = DOMAIN completions[u]
             /\ completions'[u].ignored = completions[u].ignored
             /\ completions'[u].kept = completions[u].kept
             /\ u # t => completions'[u].completed = completions[u].completed
    BY <1>2, <1>4 DEF Drain, Types
  <2>2. Types' /\ TokenIsOwn' /\ MemIsStable'
    BY <1>1, <2>1 DEF Types, TokenIsOwn, MemIsStable
  <2>3. RequestIsKept'
    BY <1>1, <2>1 DEF RequestIsKept
  <2> QED
    BY <2>2, <2>3
<1> QED
  BY <1>3, <1>4

(* Drop of a pending operation gives its memory to the slot, all of it and *)
(* without moving it.                                                      *)
LEMMA Drops ==
  ASSUME IInv, NEW o \in Ops, Drop(o)
  PROVE  IInv'
<1> USE OperationsAssumption DEF IInv
<1> DEFINE t == op[o].token
           kept == {StableBox(m) : m \in {n \in op[o].mem : n[1] \in Shape(o).keeps}}
<1>1. /\ UNCHANGED request
      /\ \A p \in Ops : p # o => op'[p] = op[p]
      /\ DOMAIN op' = Ops /\ DOMAIN op'[o] = DOMAIN op[o]
      /\ op'[o].kind = op[o].kind /\ op'[o].token = None /\ op'[o].mem = {}
  BY DEF Drop, Ready, Types
<1>2. CASE t = None
  <2>1. UNCHANGED completions
    BY <1>2 DEF Drop
  <2>2. op' = [op EXCEPT ![o] = op'[o]]
    BY DEF Drop, Types
  <2> QED
    BY <1>1, <1>2, <2>1, <2>2, WithoutSlot DEF Types
<1>3. CASE t # None
  <2>1. /\ t \in DOMAIN completions /\ op[o].path = "completion"
        /\ \A p \in Ops : op[p].token = t => p = o
    BY SMTT(60), <1>3 DEF TokenIsOwn
  <2>2. /\ DOMAIN completions' = DOMAIN completions
        /\ \A u \in DOMAIN completions :
             /\ DOMAIN completions'[u] = DOMAIN completions[u]
             /\ completions'[u].completed = completions[u].completed
             /\ u # t => completions'[u] = completions[u]
        /\ completions'[t].ignored /\ completions'[t].kept = kept
    BY ZenonT(60), <1>3, <2>1 DEF Drop, Types
  <2>3. op[o].mem \subseteq kept
    <3> SUFFICES ASSUME NEW m \in op[o].mem PROVE m \in kept
      OBVIOUS
    <3>1. m[1] \in Shape(o).keeps /\ m[2] # "op"
      BY <2>1, KeepsWhatItLends DEF MemIsStable, Types, Shape
    <3>2. StableBox(m) = m
      BY <3>1 DEF StableBox
    <3> QED
      BY <3>1, <3>2
  <2> HIDE DEF t, kept
  <2>4. Types' /\ MemIsStable'
    BY <1>1, <2>2 DEF Types, MemIsStable
  <2>5. TokenIsOwn'
    BY <1>1, <2>1, <2>2 DEF TokenIsOwn, t
  <2>6. RequestIsKept'
    <3> SUFFICES ASSUME NEW u \in DOMAIN request
                 PROVE  /\ u \in DOMAIN completions' /\ completions'[u].completed = "no"
                        /\ completions'[u].ignored => request[u].lent \subseteq completions'[u].kept
                        /\ ~completions'[u].ignored =>
                             /\ op'[request[u].op].token = u
                             /\ request[u].lent \subseteq op'[request[u].op].mem
      BY <1>1 DEF RequestIsKept
    <3>1. CASE u = t
      <4>1. ~completions[t].ignored
        BY <1>3 DEF TokenIsOwn, t
      <4>2. request[u].op = o
        BY <3>1, <4>1, <2>1 DEF RequestIsKept, Types
      <4> QED
        BY <3>1, <4>1, <4>2, <2>2, <2>3 DEF RequestIsKept
    <3>2. CASE u # t
      BY <3>2, <1>1, <1>3, <2>2 DEF RequestIsKept, Types, t
    <3> QED
      BY <3>1, <3>2
  <2> QED
    BY <2>4, <2>5, <2>6
<1> QED
  BY <1>2, <1>3

(* New operations, and the steps of the poll path.                         *)
LEMMA OthersPreserve ==
  ASSUME IInv, NEW o \in Ops,
         \/ \E p \in Both, inline \in BOOLEAN : \E k \in OpKinds[o] : New(o, k, p, inline)
         \/ \E w \in Wakers : \/ submit_completion_Fails(o, w) \/ poll_poll(o, w)
                             \/ start_nonblocking_connect(o, w) \/ ConnectStarted(o, w)
         \/ submit_poll(o) \/ submit_poll_Fails(o) \/ SoError(o) \/ getpeername(o)
  PROVE  IInv'
<1> USE DEF IInv
<1>1. UNCHANGED <<completions, request>>
  BY ZenonT(60) DEF New, submit_completion_Fails, poll_poll, start_nonblocking_connect, ConnectStarted,
         submit_poll, submit_poll_Fails, SoError, getpeername
<1>2. op[o].token = None
  BY Zenon DEF New, submit_completion_Fails, poll_poll, start_nonblocking_connect, ConnectStarted,
         submit_poll, submit_poll_Fails, SoError, getpeername, Polled, TokenIsOwn
<1>3. CASE \E p \in Both, inline \in BOOLEAN : \E k \in OpKinds[o] : New(o, k, p, inline)
  <2>1. PICK k \in Kinds, p \in Both, inline \in BOOLEAN : New(o, k, p, inline)
    BY SMTT(60), <1>3, OperationsAssumption
  <2> DEFINE mem == IF "buf" \in Shapes[k].lends
                      THEN {<<"buf", CompletionBuffer(inline, p = "completion")>>} ELSE {}
  <2>2. op' = [op EXCEPT ![o] = [@ EXCEPT !.kind = k, !.path = p, !.pc = "idle", !.mem = mem]]
    BY Zenon, <2>1 DEF New
  <2>3. p = "completion" => \A m \in mem : m[1] \in Shapes[k].lends /\ m[2] # "op"
    BY DEF CompletionBuffer
  <2> HIDE DEF mem
  <2>4. /\ op' = [op EXCEPT ![o] = op'[o]] /\ DOMAIN op'[o] = DOMAIN op[o]
        /\ op'[o].kind = k /\ op'[o].token = None /\ op'[o].path = p /\ op'[o].mem = mem
    BY <1>2, <2>2 DEF Types
  <2> QED
    BY <1>1, <1>2, <2>3, <2>4, WithoutSlot
<1>4. CASE \E r \in {"ok", "err"} : op' = [op EXCEPT ![o] = Ready(o, r)]
  <2>1. /\ op' = [op EXCEPT ![o] = op'[o]] /\ DOMAIN op'[o] = DOMAIN op[o]
        /\ op'[o].kind = op[o].kind /\ op'[o].token = None /\ op'[o].mem = {}
    BY <1>4 DEF Ready, Types
  <2> QED
    BY <1>1, <1>2, <2>1, WithoutSlot DEF Types
<1>5. CASE /\ op' = [op EXCEPT ![o] = op'[o]] /\ DOMAIN op'[o] = DOMAIN op[o]
           /\ op'[o].kind = op[o].kind /\ op'[o].token = op[o].token
           /\ op'[o].path = op[o].path /\ op'[o].mem = op[o].mem
  BY SMTT(60), <1>1, <1>2, <1>5, WithoutSlot DEF Types, MemIsStable
<1>6. ASSUME NEW w \in Wakers, submit_completion_Fails(o, w) PROVE IInv'
  BY <1>4, <1>6 DEF submit_completion_Fails
<1>7. ASSUME NEW w \in Wakers, poll_poll(o, w) PROVE IInv'
  <2>1. \/ \E r \in {"ok", "err"} : op' = [op EXCEPT ![o] = Ready(o, r)]
        \/ op' = [op EXCEPT ![o].pc = "wait", ![o].waker = w]
    BY SMTT(60), <1>7 DEF poll_poll, Succeeds
  <2> QED
    BY <1>4, <1>5, <2>1 DEF Types
<1>8. ASSUME NEW w \in Wakers, start_nonblocking_connect(o, w) \/ ConnectStarted(o, w) PROVE IInv'
  BY <1>4, <1>5, <1>8 DEF start_nonblocking_connect, ConnectStarted, Types
<1>9. CASE submit_poll(o) \/ submit_poll_Fails(o) \/ SoError(o)
  BY <1>4, <1>5, <1>9 DEF submit_poll, submit_poll_Fails, SoError, Types
<1>10. CASE getpeername(o)
  BY ZenonT(60), <1>4, <1>5, <1>10 DEF getpeername, Types
<1> QED
  BY SMTT(60), <1>3, <1>6, <1>7, <1>8, <1>9, <1>10

(* Every step preserves the invariant.                                     *)
LEMMA NextPreserves ==
  ASSUME IInv, [Next]_vars
  PROVE  IInv'
<1>1. CASE UNCHANGED <<op, completions, request>>
  BY <1>1 DEF IInv, Types, TokenIsOwn, RequestIsKept, MemIsStable
<1>2. ASSUME NEW o \in Ops, Event(o) \/ Changes(o) PROVE IInv'
  BY <1>1, <1>2 DEF Event, Changes
<1>3. ASSUME NEW o \in Ops, NEW c \in {"connected", "failed"}, ConnectionChanges(o, c) PROVE IInv'
  BY <1>1, <1>3 DEF ConnectionChanges
<1> QED
  BY <1>1, <1>2, <1>3, Submits, Finishes, PollsAgain, Completes, Drains, Drops, OthersPreserve
     DEF Next, vars

(* While the kernel works on a request, the memory the request points to   *)
(* is alive and where it was, whatever is polled, moved or dropped         *)
(* meanwhile.                                                              *)
THEOREM LentMemoryLives == Spec => []LentIsKept
<1>1. Init => IInv
  BY InitEstablishes
<1>2. IInv /\ [Next]_vars => IInv'
  BY NextPreserves
<1>3. IInv => LentIsKept
  BY DEF IInv, RequestIsKept, LentIsKept
<1> QED
  BY <1>1, <1>2, <1>3, PTL DEF Spec
=============================================================================
