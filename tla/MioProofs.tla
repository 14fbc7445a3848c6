------------------------------ MODULE MioProofs ------------------------------
(***************************************************************************)
(* Proof that the mio driver loses no readiness (RegistrationsAreSound of  *)
(* module MioDriver), for any number of handles, tokens and tasks, and any *)
(* capacity of the event buffer.                                           *)
(***************************************************************************)
EXTENDS MioDriver, TLAPS

Types ==
  /\ DOMAIN level = Handles
  /\ DOMAIN epoll = Handles
  /\ \A h \in Handles : DOMAIN epoll[h] = {"registered", "token", "mask", "queued"}
  /\ \A k \in DOMAIN registrations :
       /\ DOMAIN registrations[k] = {"fd", "waiter", "interest"}
       /\ registrations[k].fd \in Handles
       /\ DOMAIN registrations[k].waiter = Sides
  /\ DOMAIN op = Tasks
  /\ \A t \in Tasks : DOMAIN op[t] = {"pc", "handle", "side"}

(* An operation borrows a handle that is registered, and is the only one   *)
(* on its side of it.                                                      *)
OpsAreSole ==
  /\ \A t \in Tasks : op[t].pc # "idle" =>
       /\ op[t].handle \in Handles /\ op[t].side \in Sides
       /\ epoll[op[t].handle].registered
  /\ \A t, u \in Tasks :
       /\ op[t].pc # "idle" /\ op[u].pc # "idle"
       /\ op[t].handle = op[u].handle /\ op[t].side = op[u].side
       => t = u

IInv == Types /\ OpsAreSole /\ TokensOwned /\ CachedInterest /\ NoLostReadiness

(* Nothing is registered at the start.                                     *)
LEMMA InitEstablishes == Init => IInv
  BY DEF Init, IInv, Types, OpsAreSole, TokensOwned, CachedInterest, NoLostReadiness, NoHandle,
         NoOp, Registration

(* Steps that leave epoll and the registrations alone, and in which no     *)
(* task takes up waiting.                                                  *)
LEMMA OpsStep ==
  ASSUME IInv, UNCHANGED <<epoll, registrations>>,
         DOMAIN level' = Handles, \A h \in Handles : level'[h] \subseteq level[h],
         NEW t \in Tasks, DOMAIN op' = Tasks, \A u \in Tasks : u # t => op'[u] = op[u],
         DOMAIN op'[t] = {"pc", "handle", "side"}, op'[t].pc # "waiting",
         woken \subseteq woken' \cup {t},
         op'[t].pc # "idle" =>
           /\ op'[t].handle \in Handles /\ op'[t].side \in Sides
           /\ epoll[op'[t].handle].registered
           /\ Sole(t, op'[t].handle, op'[t].side)
  PROVE  IInv'
<1> USE DEF IInv
<1>1. \A u \in Tasks : u # t => op'[u] = op[u]
  OBVIOUS
<1>2. Types'
  BY <1>1 DEF Types
<1>3. OpsAreSole'
  BY <1>1 DEF OpsAreSole, Sole
<1>4. TokensOwned'
  BY DEF TokensOwned, Registration
<1>5. CachedInterest'
  <2> SUFFICES ASSUME NEW k \in DOMAIN registrations, registrations[k].interest # {}
               PROVE  LET h == registrations[k].fd
                          i == registrations[k].interest
                      IN  /\ epoll[h].mask = i
                          /\ Reported(level'[h], i) # {} => epoll[h].queued
    BY DEF CachedInterest, Reported
  <2>1. registrations[k].fd \in Handles
    BY SMTT(60) DEF Types
  <2> QED
    BY <2>1 DEF CachedInterest, Reported
<1>6. NoLostReadiness'
  <2> SUFFICES ASSUME NEW u \in Tasks, op'[u].pc = "waiting", u \notin woken'
               PROVE  LET h == op'[u].handle
                          s == op'[u].side
                      IN  /\ epoll[h].registered
                          /\ registrations[epoll[h].token].waiter[s] = u
                          /\ s \in epoll[h].mask
                          /\ Reported(level'[h], {s}) # {} => epoll[h].queued
    BY DEF NoLostReadiness, Registration, Reported
  <2>1. u # t /\ u \notin woken /\ op'[u] = op[u] /\ op[u].handle \in Handles
    BY <1>1 DEF OpsAreSole
  <2> QED
    BY SMTT(60), <2>1 DEF NoLostReadiness, Registration, Reported
<1> QED
  BY <1>2, <1>3, <1>4, <1>5, <1>6

(* The kernel: an event of a watched side is queued with it.               *)
LEMMA BecomesReadyStep ==
  ASSUME IInv, NEW h \in Handles, NEW s \in Sides \cup {"error"}, BecomesReady(h, s)
  PROVE  IInv'
<1> USE DEF IInv, BecomesReady
<1>1. /\ DOMAIN level' = Handles /\ DOMAIN epoll' = Handles
      /\ \A g \in Handles : /\ DOMAIN epoll'[g] = DOMAIN epoll[g]
                            /\ epoll'[g].registered = epoll[g].registered
                            /\ epoll'[g].token = epoll[g].token
                            /\ epoll'[g].mask = epoll[g].mask
                            /\ g # h => level'[g] = level[g] /\ epoll'[g] = epoll[g]
      /\ level'[h] = level[h] \cup {s}
      /\ epoll[h].queued => epoll'[h].queued
      /\ epoll[h].registered /\ Reported({s}, epoll[h].mask) # {} => epoll'[h].queued
  BY Zenon DEF Types
<1>2. Types'
  BY <1>1 DEF Types
<1>3. OpsAreSole'
  BY <1>1 DEF OpsAreSole
<1>4. TokensOwned'
  BY <1>1 DEF Types, TokensOwned, Registration
<1>5. CachedInterest'
  <2> SUFFICES ASSUME NEW k \in DOMAIN registrations, registrations[k].interest # {}
               PROVE  LET g == registrations[k].fd
                          i == registrations[k].interest
                      IN  /\ epoll'[g].mask = i
                          /\ Reported(level'[g], i) # {} => epoll'[g].queued
    BY DEF CachedInterest, Reported
  <2>1. registrations[k].fd \in Handles /\ epoll[registrations[k].fd].registered
    BY DEF Types, TokensOwned
  <2>2. CASE registrations[k].fd = h
    BY <1>1, <2>1, <2>2 DEF CachedInterest, Reported
  <2>3. CASE registrations[k].fd # h
    BY <1>1, <2>1, <2>3 DEF CachedInterest
  <2> QED
    BY <2>2, <2>3
<1>6. NoLostReadiness'
  <2> SUFFICES ASSUME NEW u \in Tasks, op[u].pc = "waiting", u \notin woken
               PROVE  LET g == op[u].handle
                          z == op[u].side
                      IN  /\ epoll'[g].registered
                          /\ registrations[epoll'[g].token].waiter[z] = u
                          /\ z \in epoll'[g].mask
                          /\ Reported(level'[g], {z}) # {} => epoll'[g].queued
    <3>1. op' = op /\ woken' = woken /\ registrations' = registrations
      OBVIOUS
    <3> HIDE DEF IInv, BecomesReady
    <3> QED
      BY <3>1 DEF NoLostReadiness, Registration, Reported
  <2>1. op[u].handle \in Handles
    BY DEF OpsAreSole
  <2>2. CASE op[u].handle = h
    <3>1. /\ epoll[h].registered /\ registrations[epoll[h].token].waiter[op[u].side] = u
          /\ op[u].side \in epoll[h].mask
          /\ Reported(level[h], {op[u].side}) # {} => epoll[h].queued
      BY <2>2 DEF NoLostReadiness, Registration
    <3>2. Reported(level'[h], {op[u].side}) # {} => epoll'[h].queued
      BY <1>1, <3>1 DEF Reported
    <3>3. epoll'[h].registered = epoll[h].registered /\ epoll'[h].token = epoll[h].token
          /\ epoll'[h].mask = epoll[h].mask
      BY <1>1
    <3> QED
      BY Zenon, <2>2, <3>1, <3>2, <3>3
  <2>3. CASE op[u].handle # h
    BY SMTT(60), <1>1, <2>1, <2>3 DEF NoLostReadiness, Registration
  <2> QED
    BY Zenon, <2>2, <2>3
<1> QED
  BY <1>2, <1>3, <1>4, <1>5, <1>6

(* register_handle: the token is new and no task uses the handle.          *)
LEMMA RegisterStep ==
  ASSUME IInv, NEW h \in Handles, NEW k \in Tokens, NEW i \in Interests,
         register_handle(h, k, i)
  PROVE  IInv'
<1> USE DEF IInv, register_handle
<1>1. /\ DOMAIN epoll' = Handles
      /\ epoll'[h] = Armed(h, k, i)
      /\ \A g \in Handles : g # h => epoll'[g] = epoll[g]
      /\ DOMAIN registrations' = DOMAIN registrations \cup {k}
      /\ registrations'[k] = [fd |-> h, waiter |-> [s \in Sides |-> None], interest |-> i]
      /\ \A j \in DOMAIN registrations : j # k /\ registrations'[j] = registrations[j]
  BY DEF Types
<1>2. \A j \in DOMAIN registrations : registrations[j].fd \in Handles /\ registrations[j].fd # h
  BY DEF Types, TokensOwned
<1>3. \A t \in Tasks : op[t].pc # "idle" =>
        op[t].handle \in Handles /\ op[t].handle # h /\ epoll[op[t].handle].registered
  BY DEF OpsAreSole
<1>4. Types'
  BY <1>1 DEF Types, Armed
<1>5. OpsAreSole'
  BY <1>1, <1>3 DEF OpsAreSole
<1>6. TokensOwned'
  BY <1>1, <1>2 DEF TokensOwned, Registration, Armed
<1>7. CachedInterest'
  BY ZenonT(60), <1>1, <1>2 DEF CachedInterest, Armed, Reported
<1>8. NoLostReadiness'
  BY ZenonT(60), <1>1, <1>3 DEF NoLostReadiness, TokensOwned, Registration, Reported
<1> QED
  BY <1>4, <1>5, <1>6, <1>7, <1>8

(* deregister_handle: no task uses the handle, and nobody has its token.   *)
LEMMA DeregisterStep ==
  ASSUME IInv, NEW h \in Handles, deregister_handle(h)
  PROVE  IInv'
<1> USE DEF IInv, deregister_handle
<1>1. /\ DOMAIN epoll' = Handles /\ DOMAIN level' = Handles
      /\ epoll'[h] = NoHandle
      /\ \A g \in Handles : g # h => epoll'[g] = epoll[g] /\ level'[g] = level[g]
      /\ DOMAIN registrations' = DOMAIN registrations \ {epoll[h].token}
      /\ \A j \in DOMAIN registrations' : registrations'[j] = registrations[j]
  BY DEF Types
<1>2. \A j \in DOMAIN registrations' : registrations[j].fd \in Handles /\ registrations[j].fd # h
  BY <1>1 DEF Types, TokensOwned
<1>3. \A t \in Tasks : op[t].pc # "idle" =>
        op[t].handle \in Handles /\ op[t].handle # h /\ epoll[op[t].handle].registered
  BY DEF OpsAreSole, UsedBy
<1>4. \A g \in Handles : g # h /\ epoll[g].registered => epoll[g].token # epoll[h].token
  BY DEF TokensOwned, Registration
<1>5. Types'
  BY <1>1 DEF Types, NoHandle
<1>6. OpsAreSole'
  BY <1>1, <1>3 DEF OpsAreSole
<1>7. TokensOwned'
  BY <1>1, <1>2, <1>4 DEF TokensOwned, Registration, NoHandle
<1>8. CachedInterest'
  BY Zenon, <1>1, <1>2 DEF CachedInterest, Reported
<1>9. NoLostReadiness'
  BY ZenonT(60), <1>1, <1>3, <1>4 DEF NoLostReadiness, TokensOwned, Registration, Reported
<1> QED
  BY <1>5, <1>6, <1>7, <1>8, <1>9

(* submit_poll: if the interest covers the side, epoll watches it and has  *)
(* kept its events; if it does not, epoll looks at the descriptor again,   *)
(* for this side and for whoever waits on the other.                       *)
LEMMA SubmitStep ==
  ASSUME IInv, NEW t \in Tasks, submit_poll(t)
  PROVE  IInv'
<1> DEFINE h == op[t].handle
           s == op[t].side
           k == epoll[h].token
           r == registrations[k]
           i == IF must_reregister(r, s) THEN wanted(r, s) ELSE r.interest
<1>1. /\ h \in Handles /\ s \in Sides /\ epoll[h].registered /\ op[t].pc = "blocked"
      /\ k \in DOMAIN registrations /\ r.fd = h
  BY ZenonT(60) DEF IInv, submit_poll, OpsAreSole, TokensOwned, Registration
<1>2. /\ DOMAIN registrations' = DOMAIN registrations
      /\ \A j \in DOMAIN registrations : j # k => registrations'[j] = registrations[j]
      /\ registrations'[k] = [r EXCEPT !.interest = i, !.waiter = [@ EXCEPT ![s] = t]]
  BY <1>1 DEF submit_poll, Registration, update_waiter
<1>3. /\ DOMAIN r = {"fd", "waiter", "interest"} /\ DOMAIN r.waiter = Sides
  BY <1>1 DEF IInv, Types
<1>4. /\ DOMAIN registrations'[k] = {"fd", "waiter", "interest"}
      /\ registrations'[k].fd = h
      /\ registrations'[k].interest = i
      /\ DOMAIN registrations'[k].waiter = Sides
      /\ registrations'[k].waiter[s] = t
      /\ \A z \in Sides : z # s => registrations'[k].waiter[z] = r.waiter[z]
  <2> HIDE DEF i, r, s, h, k
  <2> QED
    BY SMTT(60), <1>1, <1>2, <1>3
<1>5. /\ DOMAIN epoll' = Handles
      /\ \A g \in Handles : g # h => epoll'[g] = epoll[g]
      /\ epoll'[h].registered /\ epoll'[h].token = k
      /\ DOMAIN epoll'[h] = DOMAIN epoll[h]
  BY Zenon, <1>1 DEF IInv, Types, submit_poll, Armed, Registration
<1>6. /\ level' = level /\ woken' = woken
      /\ DOMAIN op' = Tasks
      /\ op'[t] = [op[t] EXCEPT !.pc = "waiting"]
      /\ DOMAIN op'[t] = DOMAIN op[t] /\ op'[t].handle = h /\ op'[t].side = s
      /\ op'[t].pc = "waiting"
      /\ \A u \in Tasks : u # t => op'[u] = op[u]
  BY SMTT(60), <1>1 DEF IInv, Types, submit_poll
<1>7. s \in i /\ epoll'[h].mask = i /\ (Reported(level[h], i) # {} => epoll'[h].queued)
  <2>1. CASE must_reregister(r, s)
    BY ZenonT(60), <1>1, <2>1 DEF IInv, Types, submit_poll, Armed, Registration, wanted
  <2>2. CASE ~must_reregister(r, s)
    <3>1. epoll' = epoll /\ s \in r.interest /\ i = r.interest
      BY Zenon, <2>2 DEF submit_poll, Registration, must_reregister, wanted
    <3> QED
      BY SMTT(60), <1>1, <3>1 DEF IInv, CachedInterest
  <2> QED
    BY ZenonT(60), <2>1, <2>2
<1> HIDE DEF i, r, s, h, k
<1>8. Types'
  <2>1. \A j \in DOMAIN registrations :
          /\ DOMAIN registrations'[j] = {"fd", "waiter", "interest"}
          /\ registrations'[j].fd \in Handles
          /\ DOMAIN registrations'[j].waiter = Sides
    <3>1. \A j \in DOMAIN registrations :
            /\ DOMAIN registrations[j] = {"fd", "waiter", "interest"}
            /\ registrations[j].fd \in Handles
            /\ DOMAIN registrations[j].waiter = Sides
      BY DEF IInv, Types
    <3> TAKE j \in DOMAIN registrations
    <3>2. CASE j = k
      BY <1>1, <1>4, <3>2
    <3>3. CASE j # k
      BY <1>2, <3>1, <3>3
    <3> QED
      BY <3>2, <3>3
  <2>2. \A g \in Handles : DOMAIN epoll'[g] = {"registered", "token", "mask", "queued"}
    BY <1>1, <1>5 DEF IInv, Types
  <2>3. \A u \in Tasks : DOMAIN op'[u] = {"pc", "handle", "side"}
    BY <1>6 DEF IInv, Types
  <2> QED
    BY <1>2, <1>5, <1>6, <2>1, <2>2, <2>3 DEF IInv, Types
<1>9. OpsAreSole'
  <2>1. \A u \in Tasks : op'[u].pc # "idle" =>
          /\ op[u].pc # "idle"
          /\ op'[u].handle = op[u].handle /\ op'[u].side = op[u].side
    BY ZenonT(60), <1>1, <1>6 DEF h, s
  <2>2. \A g \in Handles : epoll[g].registered => epoll'[g].registered
    BY <1>5
  <2> QED
    BY <2>1, <2>2 DEF IInv, OpsAreSole
<1>10. TokensOwned'
  <2>1. ASSUME NEW g \in Handles, epoll'[g].registered
        PROVE  epoll'[g].token \in DOMAIN registrations /\ registrations'[epoll'[g].token].fd = g
    <3>1. CASE g = h
      BY <1>1, <1>4, <1>5, <3>1
    <3>2. CASE g # h
      BY <1>1, <1>2, <1>5, <2>1, <3>2 DEF IInv, TokensOwned, Registration, k, r
    <3> QED
      BY <3>1, <3>2
  <2>2. ASSUME NEW j \in DOMAIN registrations
        PROVE  LET g == registrations'[j].fd IN epoll'[g].registered /\ epoll'[g].token = j
    <3>1. CASE j = k
      BY <1>4, <1>5, <3>1
    <3>2. CASE j # k
      BY <1>2, <1>5, <3>2 DEF IInv, Types, TokensOwned, k
    <3> QED
      BY <3>1, <3>2
  <2> QED
    BY <1>2, <2>1, <2>2 DEF TokensOwned, Registration
<1>11. CachedInterest'
  <2> SUFFICES ASSUME NEW j \in DOMAIN registrations, registrations'[j].interest # {}
               PROVE  LET g == registrations'[j].fd
                          n == registrations'[j].interest
                      IN  /\ epoll'[g].mask = n
                          /\ Reported(level[g], n) # {} => epoll'[g].queued
    BY <1>2, <1>6 DEF CachedInterest, Reported
  <2>1. CASE j = k
    BY <1>4, <1>7, <2>1
  <2>2. CASE j # k
    <3>1. registrations[j].fd \in Handles /\ registrations[j].fd # h
      BY <2>2 DEF IInv, Types, TokensOwned, k
    <3> QED
      BY <1>2, <1>5, <2>2, <3>1 DEF IInv, CachedInterest
  <2> QED
    BY <2>1, <2>2
<1>12. NoLostReadiness'
  <2>0. \A u \in Tasks : op'[u].handle = op[u].handle /\ op'[u].side = op[u].side
    BY Zenon, <1>6 DEF h, s
  <2> SUFFICES ASSUME NEW u \in Tasks, op'[u].pc = "waiting", u \notin woken
               PROVE  LET g == op[u].handle
                          z == op[u].side
                      IN  /\ epoll'[g].registered
                          /\ registrations'[epoll'[g].token].waiter[z] = u
                          /\ z \in epoll'[g].mask
                          /\ Reported(level[g], {z}) # {} => epoll'[g].queued
    BY ZenonT(60), <1>6, <2>0 DEF NoLostReadiness, Registration, Reported
  <2>1. CASE u = t
    BY <1>4, <1>5, <1>7, <2>1 DEF Reported, h, s
  <2>2. CASE u # t
    <3> DEFINE z == op[u].side
    <3>1. op[u].pc = "waiting" /\ op[u].handle \in Handles /\ z \in Sides
      BY <1>6, <2>2 DEF IInv, OpsAreSole
    <3>2. LET g == op[u].handle
          IN  /\ epoll[g].registered /\ registrations[epoll[g].token].waiter[z] = u
              /\ z \in epoll[g].mask
              /\ Reported(level[g], {z}) # {} => epoll[g].queued
      BY SMTT(60), <3>1 DEF IInv, NoLostReadiness, Registration
    <3>3. CASE op[u].handle = h
      <4>1. z # s
        BY <1>1, <2>2, <3>1, <3>3 DEF IInv, OpsAreSole, h, s
      <4>2. registrations'[k].waiter[z] = u /\ z \in Waiting(r)
        BY <1>4, <3>1, <3>2, <3>3, <4>1, MioAssumption DEF Waiting, r, k
      <4>3. CASE must_reregister(r, s)
        BY <1>5, <1>7, <3>3, <4>2, <4>3 DEF i, wanted, Reported
      <4>4. CASE ~must_reregister(r, s)
        BY SMTT(60), <1>5, <1>7, <3>3, <4>2, <4>4 DEF i, wanted, must_reregister, Reported
      <4> QED
        BY SMTT(60), <4>3, <4>4
    <3>4. CASE op[u].handle # h
      <4>1. epoll[op[u].handle].token \in DOMAIN registrations /\ epoll[op[u].handle].token # k
        BY <1>1, <3>1, <3>2, <3>4 DEF IInv, TokensOwned, Registration, k, r
      <4> HIDE DEF z
      <4>2. registrations'[epoll[op[u].handle].token] = registrations[epoll[op[u].handle].token]
        BY <1>2, <4>1
      <4>3. epoll'[op[u].handle] = epoll[op[u].handle]
        BY <1>5, <3>1, <3>4
      <4> QED
        BY Zenon, <3>2, <4>2, <4>3 DEF z
    <3> QED
      BY Zenon, <3>3, <3>4
  <2> QED
    BY <2>1, <2>2
<1> QED
  BY SMTT(60), <1>8, <1>9, <1>10, <1>11, <1>12 DEF IInv

(* What an event leaves of a registration.                                 *)
LEMMA AfterEventFields ==
  ASSUME NEW r, NEW S, DOMAIN r = {"fd", "waiter", "interest"}
  PROVE  LET a == AfterEvent(r, S)
         IN  /\ DOMAIN a = {"fd", "waiter", "interest"}
             /\ a.fd = r.fd
             /\ a.interest = IF S # {} THEN {} ELSE r.interest
             /\ DOMAIN a.waiter = Sides
             /\ \A s \in Sides : a.waiter[s] = IF s \in S THEN None ELSE r.waiter[s]
<1>1. DOMAIN AfterEvent(r, S) = {"fd", "waiter", "interest"} /\ AfterEvent(r, S).fd = r.fd
  BY DEF AfterEvent
<1>2. AfterEvent(r, S).interest = IF S # {} THEN {} ELSE r.interest
  BY DEF AfterEvent
<1>3. AfterEvent(r, S).waiter = [s \in Sides |-> IF s \in S THEN None ELSE r.waiter[s]]
  BY DEF AfterEvent
<1> QED
  BY <1>1, <1>2, <1>3

(* wait_timeout: an event clears the interest that is cached, and wakes    *)
(* every side that is ready; the sides it leaves waiting are not ready.    *)
LEMMA WaitStep ==
  ASSUME IInv, NEW ready \in SUBSET Handles, wait_timeout(ready)
  PROVE  IInv'
<1> DEFINE sides(k) == EventSides(registrations[k].fd)
<1>1. /\ DOMAIN epoll' = Handles /\ level' = level /\ op' = op
      /\ \A h \in Handles : /\ DOMAIN epoll'[h] = DOMAIN epoll[h]
                            /\ epoll'[h].registered = epoll[h].registered
                            /\ epoll'[h].token = epoll[h].token
                            /\ epoll'[h].mask = epoll[h].mask
                            /\ h \notin ready => epoll'[h] = epoll[h]
  BY DEF IInv, Types, wait_timeout
<1>2. /\ DOMAIN registrations' = DOMAIN registrations
      /\ \A k \in DOMAIN registrations :
           registrations'[k] = IF registrations[k].fd \in ready
                                 THEN AfterEvent(registrations[k], sides(k))
                                 ELSE registrations[k]
  BY DEF wait_timeout
<1>3. ASSUME NEW k \in DOMAIN registrations
      PROVE  /\ DOMAIN registrations'[k] = {"fd", "waiter", "interest"}
             /\ registrations'[k].fd = registrations[k].fd
             /\ DOMAIN registrations'[k].waiter = Sides
             /\ registrations'[k].interest = IF registrations[k].fd \in ready /\ sides(k) # {}
                                               THEN {} ELSE registrations[k].interest
             /\ \A s \in Sides : registrations'[k].waiter[s] =
                  IF registrations[k].fd \in ready /\ s \in sides(k)
                    THEN None ELSE registrations[k].waiter[s]
  <2> HIDE DEF sides
  <2>1. DOMAIN registrations[k] = {"fd", "waiter", "interest"} /\ DOMAIN registrations[k].waiter = Sides
    BY DEF IInv, Types
  <2>2. CASE registrations[k].fd \in ready
    <3>1. registrations'[k] = AfterEvent(registrations[k], sides(k))
      BY <1>2, <2>2
    <3> QED
      BY <2>1, <2>2, <3>1, AfterEventFields
  <2>3. CASE registrations[k].fd \notin ready
    BY SMTT(60), <1>2, <2>1, <2>3
  <2> QED
    BY <2>2, <2>3
<1>4. ASSUME NEW k \in DOMAIN registrations, NEW s \in Sides,
             registrations[k].fd \in ready, s \in sides(k), registrations[k].waiter[s] # None
      PROVE  registrations[k].waiter[s] \in woken'
  <2>1. <<k, s>> \in (DOMAIN registrations) \X Sides
    OBVIOUS
  <2> QED
    BY <1>4, <2>1 DEF wait_timeout
<1>5. woken \subseteq woken'
  BY DEF wait_timeout
<1>6. Types'
  BY <1>1, <1>2, <1>3 DEF IInv, Types
<1>7. OpsAreSole'
  BY <1>1 DEF IInv, OpsAreSole
<1>8. TokensOwned'
  BY <1>1, <1>2, <1>3 DEF IInv, Types, TokensOwned, Registration
<1>9. CachedInterest'
  <2> SUFFICES ASSUME NEW k \in DOMAIN registrations, registrations'[k].interest # {}
               PROVE  LET h == registrations[k].fd
                          i == registrations[k].interest
                      IN  /\ registrations'[k].interest = i
                          /\ epoll[h].mask = i
                          /\ Reported(level[h], i) # {} => epoll'[h].queued
    BY <1>1, <1>2, <1>3 DEF CachedInterest, Reported, IInv, Types
  <2> DEFINE h == registrations[k].fd
             i == registrations[k].interest
  <2>1. /\ registrations'[k].interest = i /\ i # {} /\ h \in Handles
        /\ epoll[h].mask = i /\ (Reported(level[h], i) # {} => epoll[h].queued)
    BY <1>3 DEF IInv, CachedInterest, Types
  <2>2. CASE h \in ready
    <3>1. sides(k) = {}
      BY SMTT(60), <1>3, <2>2
    <3>2. Reported(level[h], i) = {}
      BY <2>1, <3>1 DEF EventSides, Sides
    <3> QED
      BY <2>1, <3>2
  <2>3. CASE h \notin ready
    BY <1>1, <2>1, <2>3
  <2> QED
    BY <2>2, <2>3
<1>10. NoLostReadiness'
  <2> SUFFICES ASSUME NEW u \in Tasks, op[u].pc = "waiting", u \notin woken'
               PROVE  LET h == op[u].handle
                          s == op[u].side
                      IN  /\ epoll'[h].registered
                          /\ registrations'[epoll'[h].token].waiter[s] = u
                          /\ s \in epoll'[h].mask
                          /\ Reported(level[h], {s}) # {} => epoll'[h].queued
    BY SMTT(60), <1>1 DEF NoLostReadiness, Registration, Reported
  <2> DEFINE h == op[u].handle
             s == op[u].side
             k == epoll[h].token
  <2>1. h \in Handles /\ s \in Sides
    BY DEF IInv, OpsAreSole
  <2>2. /\ epoll[h].registered /\ registrations[k].waiter[s] = u /\ s \in epoll[h].mask
        /\ Reported(level[h], {s}) # {} => epoll[h].queued
    BY SMTT(60), <1>5 DEF IInv, NoLostReadiness, Registration
  <2>3. k \in DOMAIN registrations /\ registrations[k].fd = h
    BY <2>1, <2>2 DEF IInv, TokensOwned, Registration
  <2>4. ~(h \in ready /\ s \in sides(k))
    BY SMTT(60), <1>4, <2>1, <2>2, <2>3, MioAssumption
  <2>5. registrations'[k].waiter[s] = u
    BY SMTT(60), <1>3, <2>1, <2>2, <2>3, <2>4
  <2>6. epoll'[h].registered /\ epoll'[h].token = k /\ s \in epoll'[h].mask
    BY <1>1, <2>1, <2>2
  <2>7. Reported(level[h], {s}) # {} => epoll'[h].queued
    <3>1. CASE h \in ready
      BY SMTT(60), <2>1, <2>2, <2>3, <2>4, <3>1 DEF EventSides, Reported
    <3>2. CASE h \notin ready
      BY Zenon, <1>1, <2>1, <2>2, <3>2
    <3> QED
      BY <3>1, <3>2
  <2> HIDE DEF h, s, k
  <2> QED
    BY SMTT(60), <2>5, <2>6, <2>7 DEF h, s
<1> QED
  BY <1>6, <1>7, <1>8, <1>9, <1>10 DEF IInv

(* Every step of the driver, of its users and of the kernel preserves the  *)
(* invariant.                                                              *)
LEMMA NextPreserves == IInv /\ [Next]_vars => IInv'
<1> SUFFICES ASSUME IInv, [Next]_vars PROVE IInv'
  OBVIOUS
<1>1. ASSUME NEW h \in Handles, NEW s \in Sides \cup {"error"}, BecomesReady(h, s)
      PROVE  IInv'
  BY <1>1, BecomesReadyStep
<1>2. ASSUME NEW h \in Handles, deregister_handle(h) PROVE IInv'
  BY <1>2, DeregisterStep
<1>3. ASSUME NEW h \in Handles, NEW k \in Tokens, NEW i \in Interests, register_handle(h, k, i)
      PROVE  IInv'
  BY <1>3, RegisterStep
<1>4. ASSUME NEW t \in Tasks, NEW h \in Handles, NEW s \in Sides, TryReady(t, h, s)
      PROVE  IInv'
  <2>1. op' = [op EXCEPT ![t] = NoOp] /\ op'[t] = NoOp
    BY <1>4 DEF TryReady, IInv, Types
  <2>2. DOMAIN level' = Handles /\ \A g \in Handles : level'[g] \subseteq level[g]
    BY <1>4 DEF TryReady, IInv, Types
  <2>3. /\ UNCHANGED <<epoll, registrations>> /\ woken \subseteq woken' \cup {t}
    BY <1>4 DEF TryReady
  <2>4. /\ DOMAIN op'[t] = {"pc", "handle", "side"} /\ op'[t].pc = "idle"
        /\ DOMAIN op' = Tasks /\ \A u \in Tasks : u # t => op'[u] = op[u]
    BY <2>1 DEF NoOp, IInv, Types
  <2> QED
    BY <2>2, <2>3, <2>4, OpsStep
<1>5. ASSUME NEW t \in Tasks, NEW h \in Handles, NEW s \in Sides,
             TryBlocks(t, h, s) \/ AskReadiness(t, h, s)
      PROVE  IInv'
  <2> DEFINE o == [pc |-> "blocked", handle |-> h, side |-> s]
  <2>1. op' = [op EXCEPT ![t] = o] /\ op'[t] = o /\ UNCHANGED <<level, epoll, registrations>>
    BY <1>5 DEF TryBlocks, AskReadiness, IInv, Types
  <2>2. epoll[h].registered /\ Sole(t, h, s)
    BY <1>5 DEF TryBlocks, AskReadiness, Polls, IInv, OpsAreSole, Sole
  <2>3. woken \subseteq woken' \cup {t}
    BY <1>5 DEF TryBlocks, AskReadiness
  <2>4. DOMAIN level' = Handles /\ \A g \in Handles : level'[g] \subseteq level[g]
    BY <2>1 DEF IInv, Types
  <2>5. /\ DOMAIN op'[t] = {"pc", "handle", "side"} /\ op'[t].pc = "blocked"
        /\ op'[t].handle = h /\ op'[t].side = s
        /\ DOMAIN op' = Tasks /\ \A u \in Tasks : u # t => op'[u] = op[u]
    BY <2>1 DEF IInv, Types
  <2>6. UNCHANGED <<epoll, registrations>>
    BY <2>1
  <2> HIDE DEF o
  <2> QED
    BY <2>2, <2>3, <2>4, <2>5, <2>6, OpsStep
<1>6. ASSUME NEW t \in Tasks, submit_poll(t) PROVE IInv'
  BY <1>6, SubmitStep
<1>7. ASSUME NEW t \in Tasks, submit_poll_Fails(t) \/ DropOp(t) PROVE IInv'
  <2>1. /\ op' = [op EXCEPT ![t] = NoOp] /\ op'[t] = NoOp
        /\ UNCHANGED <<level, epoll, registrations, woken>>
    BY <1>7 DEF submit_poll_Fails, DropOp, IInv, Types
  <2>2. DOMAIN level' = Handles /\ \A g \in Handles : level'[g] \subseteq level[g]
    BY <2>1 DEF IInv, Types
  <2>3. /\ UNCHANGED <<epoll, registrations>> /\ woken \subseteq woken' \cup {t}
    BY <2>1
  <2>4. /\ DOMAIN op'[t] = {"pc", "handle", "side"} /\ op'[t].pc = "idle"
        /\ DOMAIN op' = Tasks /\ \A u \in Tasks : u # t => op'[u] = op[u]
    BY <2>1 DEF NoOp, IInv, Types
  <2> QED
    BY <2>2, <2>3, <2>4, OpsStep
<1>8. ASSUME NEW ready \in SUBSET Handles, wait_timeout(ready) PROVE IInv'
  BY SMTT(60), <1>8, WaitStep
<1>9. CASE UNCHANGED vars
  BY <1>9 DEF vars, IInv, Types, OpsAreSole, TokensOwned, CachedInterest, NoLostReadiness,
              Registration, Reported
<1> QED
  BY <1>1, <1>2, <1>3, <1>4, <1>5, <1>6, <1>7, <1>8, <1>9 DEF Next

(* With any number of handles, tokens and tasks, in any interleaving of    *)
(* operations, closed and reused descriptors, tokens and kernel events:    *)
(* registrations are owned one to one, the interest that lets submit_poll  *)
(* skip the system call is epoll's, and a task that waits for a side that  *)
(* is ready has an event on its way (driver/mio.rs, submit_poll,           *)
(* wait_timeout and deregister_handle).                                    *)
THEOREM NoReadinessLost == Spec => []RegistrationsAreSound
<1>1. IInv => RegistrationsAreSound
  BY DEF IInv, RegistrationsAreSound
<1> QED
  BY <1>1, InitEstablishes, NextPreserves, PTL DEF Spec
=============================================================================
