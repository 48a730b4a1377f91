-------------------------- MODULE EventWaitProofs ---------------------------
(***************************************************************************)
(* Proofs about EventWait for any deliveries, contracts and waiters: no    *)
(* wake-up is lost, and success is the success of every required receiver. *)
(***************************************************************************)
EXTENDS EventWait, TLAPS

USE WaitAssumption

-----------------------------------------------------------------------------
(* Type correctness                                                        *)

LEMMA TypeInit == Init => TypeOK
<1> SUFFICES ASSUME Init PROVE TypeOK
  OBVIOUS
<1>1. woken \in [Waiters -> BOOLEAN]
  BY Zenon DEF Init
<1> QED
  BY <1>1 DEF Init, TypeOK, Statuses, Sleeps

LEMMA NotifyType ==
    ASSUME TypeOK, NEW e, NEW now
    PROVE  Notify(e, now) \in [Waiters -> BOOLEAN]
BY Zenon DEF Notify, TypeOK

(* A wait looks at deliveries of its event only.                           *)
LEMMA LookType ==
    ASSUME TypeOK, NEW w \in Waiters, NEW e \in Events, NEW sel \in SUBSET Deliveries,
           Look(w, e, sel)
    PROVE  TypeOK'
<1>1. /\ at' \in [Waiters -> {"idle", "asleep"} \cup Ends]
      /\ \A v \in Waiters : v # w => at'[v] = at[v]
  BY DEF Look, TypeOK, Ends
<1>2. woken' \in [Waiters -> BOOLEAN]
  BY DEF Look, TypeOK
<1>3. selected' \in [Waiters -> SUBSET Deliveries]
  BY DEF Look, TypeOK
<1>4. /\ DOMAIN waitsFor' = Waiters
      /\ \A v \in Waiters : waitsFor'[v] = IF v = w THEN e ELSE waitsFor[v]
  BY DEF Look, TypeOK
<1>5. \A v \in Waiters : Sleeps(v)' => waitsFor'[v] \in Events
  BY <1>1, <1>4 DEF Sleeps, TypeOK
<1> QED
  BY <1>1, <1>2, <1>3, <1>4, <1>5 DEF Look, eventVars, TypeOK

LEMMA GiveUpType ==
    ASSUME TypeOK, NEW w \in Waiters, GiveUp(w)
    PROVE  TypeOK'
BY DEF GiveUp, eventVars, TypeOK, Ends, Sleeps

(* What emit makes of the statuses.                                        *)
LEMMA EmitEffect ==
    ASSUME TypeOK, NEW e \in Events, NEW batch \in SUBSET Of(e), Satisfied(e, batch),
           Emit(e, batch)
    PROVE  /\ status' \in [Deliveries -> Statuses]
           /\ \A d \in Deliveries : d \notin batch => status'[d] = status[d]
           /\ required' \in [Events -> SUBSET Deliveries]
           /\ woken' = IF batch = {} THEN woken ELSE Notify(e, status')
           /\ UNCHANGED <<at, waitsFor, selected>>
<1>1. PICK first \in [batch -> {"queued", "completed", "failed"}] :
         status' = [d \in Deliveries |-> IF d \in batch THEN first[d] ELSE status[d]]
  BY DEF Emit
<1>2. /\ status' \in [Deliveries -> Statuses]
      /\ \A d \in Deliveries : d \notin batch => status'[d] = status[d]
  BY <1>1 DEF TypeOK, Statuses, Unfinished
<1>3. RequiredOf(e, batch) \subseteq Deliveries
  BY DEF RequiredOf, Handlers, Of
<1>4. required' \in [Events -> SUBSET Deliveries]
  BY <1>3 DEF Emit, TypeOK
<1> QED
  BY <1>2, <1>4 DEF Emit

LEMMA EmitChanges ==
    ASSUME TypeOK, NEW e \in Events, NEW batch \in SUBSET Of(e), Satisfied(e, batch),
           Emit(e, batch)
    PROVE  /\ \A d \in Deliveries : d \notin batch => status'[d] = status[d]
           /\ \A g \in Events : required'[g] = IF g = e THEN required[e] \cup RequiredOf(e, batch)
                                                        ELSE required[g]
<1>1. \A g \in Events : required'[g] = IF g = e THEN required[e] \cup RequiredOf(e, batch)
                                               ELSE required[g]
  BY DEF Emit, TypeOK
<1> QED
  BY <1>1, EmitEffect

LEMMA TypeStep == TypeOK /\ [Next]_vars => TypeOK'
<1> SUFFICES ASSUME TypeOK, [Next]_vars PROVE TypeOK'
  OBVIOUS
<1>1. ASSUME NEW e \in Events, NEW batch \in SUBSET Of(e), Emit(e, batch) PROVE TypeOK'
  <2>1. CASE Satisfied(e, batch)
    <3>1. woken' \in [Waiters -> BOOLEAN]
      <4>1. woken \in [Waiters -> BOOLEAN] /\ Notify(e, status') \in [Waiters -> BOOLEAN]
        BY NotifyType DEF TypeOK
      <4>2. woken' = IF batch = {} THEN woken ELSE Notify(e, status')
        BY <1>1, <2>1, EmitEffect
      <4> QED
        BY <4>1, <4>2
    <3>2. refused' \subseteq Events
      BY <1>1, <2>1 DEF Emit, TypeOK
    <3> QED
      BY <1>1, <2>1, <3>1, <3>2, EmitEffect DEF TypeOK, Sleeps
  <2>2. CASE ~Satisfied(e, batch)
    BY <1>1, <2>2 DEF Emit, waitVars, TypeOK, Sleeps
  <2> QED
    BY <2>1, <2>2
<1>2. ASSUME NEW d \in Deliveries, NEW now \in Statuses,
             status' = [status EXCEPT ![d] = now],
             woken' = Notify(EventOf[d], status'),
             UNCHANGED <<required, refused, at, waitsFor, selected>>
      PROVE TypeOK'
  <2>1. woken' \in [Waiters -> BOOLEAN]
    BY <1>2, NotifyType
  <2> QED
    BY <1>2, <2>1 DEF TypeOK, Sleeps
<1>3. ASSUME NEW s \in Scopes, Start(s) PROVE TypeOK'
  <2>1. "running" \in Statuses
    BY DEF Statuses, Unfinished
  <2> QED
    BY <1>2, <1>3, <2>1 DEF Start
<1>4. ASSUME NEW d \in Deliveries, Finish(d) \/ Withdraw(d) PROVE TypeOK'
  BY <1>2, <1>4 DEF Finish, Withdraw, Settle, Statuses
<1>5. ASSUME NEW w \in Waiters, LookAgain(w) PROVE TypeOK'
  <2>1. waitsFor[w] \in Events /\ selected[w] \in SUBSET Deliveries
    BY <1>5 DEF LookAgain, TypeOK
  <2> QED
    BY <1>5, <2>1, LookType DEF LookAgain
<1>6. ASSUME NEW w \in Waiters, Expire(w) \/ Cancel(w) PROVE TypeOK'
  BY <1>6, GiveUpType DEF Expire, Cancel
<1>7. ASSUME NEW w \in Waiters, NEW e \in Events, Wait(w, e) PROVE TypeOK'
  <2>1. Selection(e) \in SUBSET Deliveries
    BY DEF Selection, Of, TypeOK
  <2> QED
    BY <1>7, <2>1, LookType DEF Wait
<1>8. CASE UNCHANGED vars
  BY <1>8 DEF vars, eventVars, waitVars, TypeOK, Sleeps
<1> QED
  BY <1>1, <1>3, <1>4, <1>5, <1>6, <1>7, <1>8 DEF Next

-----------------------------------------------------------------------------
(* The contract and the sleepers                                           *)

(* Once a receiver that the contract names has its record, the event       *)
(* requires it; an event requires receivers of its own only.               *)
RequiredInv ==
    \A e \in Events :
        /\ required[e] \subseteq Of(e)
        /\ \A d \in Named[e] \cap Of(e) :
              d \notin Observers /\ status[d] # "none" => d \in required[e]

(* A sleeper waits for deliveries of the event whose signal it sleeps on.  *)
SelectedInv ==
    \A w \in Waiters : Sleeps(w) => selected[w] \subseteq Of(waitsFor[w])

WaitInv == TypeOK /\ RequiredInv /\ SelectedInv /\ NeverSleepsOnSettled

LEMMA WaitInit == Init => WaitInv
BY TypeInit DEF Init, WaitInv, RequiredInv, SelectedInv, NeverSleepsOnSettled, Sleeps

(* A step that changes one delivery, or those of one emit.                 *)
LEMMA RequiredStep == TypeOK /\ RequiredInv /\ [Next]_vars => RequiredInv'
<1> SUFFICES ASSUME TypeOK, RequiredInv, [Next]_vars PROVE RequiredInv'
  OBVIOUS
<1>1. ASSUME NEW e \in Events, NEW batch \in SUBSET Of(e), Emit(e, batch) PROVE RequiredInv'
  <2>1. CASE Satisfied(e, batch)
    <3> SUFFICES ASSUME NEW f \in Events
                 PROVE  /\ required'[f] \subseteq Of(f)
                        /\ \A d \in Named[f] \cap Of(f) :
                              d \notin Observers /\ status'[d] # "none" => d \in required'[f]
      BY DEF RequiredInv
    <3>0. /\ \A d \in Deliveries : d \notin batch => status'[d] = status[d]
          /\ required'[f] = IF f = e THEN required[e] \cup RequiredOf(e, batch) ELSE required[f]
      <4>1. /\ \A d \in Deliveries : d \notin batch => status'[d] = status[d]
            /\ \A g \in Events : required'[g] = IF g = e THEN required[e] \cup RequiredOf(e, batch)
                                                         ELSE required[g]
        BY <1>1, <2>1, EmitChanges
      <4> QED
        BY <4>1
    <3>1. CASE f = e
      <4>1. RequiredOf(e, batch) \subseteq Of(e)
        BY DEF RequiredOf, Handlers
      <4>2. required'[f] \subseteq Of(f)
        BY <3>0, <3>1, <4>1 DEF RequiredInv
      <4>3. ASSUME NEW d \in Named[f] \cap Of(f), d \notin Observers, status'[d] # "none"
            PROVE  d \in required'[f]
        <5>1. CASE d \in batch
          BY <3>0, <3>1, <4>3, <5>1 DEF RequiredOf, Handlers
        <5>2. CASE d \notin batch
          BY <3>0, <3>1, <4>3, <5>2 DEF RequiredInv, Of
        <5> QED
          BY <5>1, <5>2
      <4> QED
        BY <4>2, <4>3
    <3>2. CASE f # e
      <4>1. required'[f] = required[f]
        BY <3>0, <3>2
      <4>2. \A d \in Of(f) : status'[d] = status[d]
        BY <3>0, <3>2 DEF Of
      <4> QED
        BY <4>1, <4>2 DEF RequiredInv
    <3> QED
      BY <3>1, <3>2
  <2>2. CASE ~Satisfied(e, batch)
    BY <1>1, <2>2 DEF Emit, waitVars, RequiredInv
  <2> QED
    BY <2>1, <2>2
<1>2. ASSUME NEW d \in Deliveries, status[d] # "none", NEW now,
             status' = [status EXCEPT ![d] = now], required' = required
      PROVE RequiredInv'
  <2>1. \A c \in Deliveries : status'[c] # "none" => status[c] # "none"
    BY <1>2 DEF TypeOK
  <2> QED
    BY <1>2, <2>1 DEF RequiredInv, Of
<1>3. ASSUME NEW s \in Scopes, Start(s) PROVE RequiredInv'
  BY <1>2, <1>3 DEF Start
<1>4. ASSUME NEW d \in Deliveries, Finish(d) \/ Withdraw(d) PROVE RequiredInv'
  BY <1>2, <1>4 DEF Finish, Withdraw, Settle
<1>5. CASE UNCHANGED <<status, required>>
  BY <1>5 DEF RequiredInv
<1> QED
  BY <1>1, <1>3, <1>4, <1>5
  DEF Next, LookAgain, Expire, Cancel, Wait, Look, GiveUp, eventVars, vars

(* Who sleeps when somebody else's step is over slept before.              *)
LEMMA LookSleeps ==
    ASSUME TypeOK, SelectedInv, NeverSleepsOnSettled, NEW w \in Waiters,
           NEW e \in Events, NEW sel \in SUBSET Of(e), Look(w, e, sel)
    PROVE  SelectedInv' /\ NeverSleepsOnSettled'
<1>1. \A v \in Waiters : v # w =>
         /\ at'[v] = at[v] /\ waitsFor'[v] = waitsFor[v]
         /\ selected'[v] = selected[v] /\ woken'[v] = woken[v]
  BY DEF Look, TypeOK
<1>2. Sleeps(w)' => /\ waitsFor'[w] = e /\ selected'[w] = sel
                    /\ Outstanding(sel) # {}
  BY DEF Look, TypeOK, Sleeps
<1>3. status' = status
  BY DEF Look, eventVars
<1> QED
  BY <1>1, <1>2, <1>3 DEF SelectedInv, NeverSleepsOnSettled, Sleeps, Outstanding

LEMMA GiveUpSleeps ==
    ASSUME TypeOK, SelectedInv, NeverSleepsOnSettled, NEW w \in Waiters, GiveUp(w)
    PROVE  SelectedInv' /\ NeverSleepsOnSettled'
BY DEF GiveUp, eventVars, TypeOK, SelectedInv, NeverSleepsOnSettled, Sleeps, Outstanding

(* A change of an event's deliveries that sets the event's signal.         *)
LEMMA SignalSleeps ==
    ASSUME TypeOK, SelectedInv, NeverSleepsOnSettled, NEW e,
           \A d \in Deliveries : EventOf[d] # e => status'[d] = status[d],
           woken' = Notify(e, status'), UNCHANGED <<at, waitsFor, selected>>
    PROVE  SelectedInv' /\ NeverSleepsOnSettled'
<1>1. SelectedInv'
  BY DEF SelectedInv, Sleeps
<1>2. ASSUME NEW w \in Waiters, Sleeps(w), ~woken'[w]
      PROVE  Outstanding(selected[w])' # {}
  <2>1. waitsFor[w] # e /\ ~woken[w]
    BY <1>2, Zenon DEF Notify, Sleeps
  <2>2. PICK d \in selected[w] : status[d] \in Unfinished
    BY <1>2, <2>1 DEF NeverSleepsOnSettled, Outstanding
  <2>3. d \in Deliveries /\ EventOf[d] # e
    BY <1>2, <2>1, <2>2 DEF SelectedInv, Of
  <2> QED
    BY <2>2, <2>3 DEF Outstanding
<1> QED
  BY <1>1, <1>2 DEF NeverSleepsOnSettled, Sleeps

LEMMA SleepStep == WaitInv /\ [Next]_vars => SelectedInv' /\ NeverSleepsOnSettled'
<1> SUFFICES ASSUME WaitInv, [Next]_vars PROVE SelectedInv' /\ NeverSleepsOnSettled'
  OBVIOUS
<1>0. TypeOK /\ RequiredInv /\ SelectedInv /\ NeverSleepsOnSettled
  BY DEF WaitInv
<1>1. ASSUME UNCHANGED <<status, waitVars>> PROVE SelectedInv' /\ NeverSleepsOnSettled'
  BY <1>0, <1>1 DEF waitVars, SelectedInv, NeverSleepsOnSettled, Sleeps, Outstanding
<1>2. ASSUME NEW e \in Events, NEW batch \in SUBSET Of(e), Emit(e, batch)
      PROVE SelectedInv' /\ NeverSleepsOnSettled'
  <2>1. CASE Satisfied(e, batch) /\ batch # {}
    <3>1. \A d \in Deliveries : EventOf[d] # e => status'[d] = status[d]
      BY <1>0, <1>2, <2>1, EmitEffect DEF Of
    <3>2. woken' = Notify(e, status') /\ UNCHANGED <<at, waitsFor, selected>>
      BY <1>0, <1>2, <2>1, EmitEffect
    <3> QED
      BY <1>0, <3>1, <3>2, SignalSleeps
  <2>2. CASE Satisfied(e, batch) /\ batch = {}
    <3>1. status' \in [Deliveries -> Statuses] /\ \A d \in Deliveries : status'[d] = status[d]
      BY <1>0, <1>2, <2>2, EmitEffect
    <3>2. status' = status
      BY <1>0, <3>1 DEF TypeOK
    <3>3. UNCHANGED waitVars
      BY <1>2, <2>2 DEF Emit, waitVars
    <3> QED
      BY <1>1, <3>2, <3>3
  <2>3. CASE ~Satisfied(e, batch)
    BY <1>1, <1>2, <2>3 DEF Emit
  <2> QED
    BY <2>1, <2>2, <2>3
<1>3. ASSUME NEW d \in Deliveries, NEW now, status' = [status EXCEPT ![d] = now],
             woken' = Notify(EventOf[d], status'), UNCHANGED <<at, waitsFor, selected>>
      PROVE SelectedInv' /\ NeverSleepsOnSettled'
  <2>1. \A c \in Deliveries : EventOf[c] # EventOf[d] => status'[c] = status[c]
    BY <1>0, <1>3 DEF TypeOK
  <2> QED
    BY <1>0, <1>3, <2>1, SignalSleeps
<1>4. ASSUME NEW s \in Scopes, Start(s) PROVE SelectedInv' /\ NeverSleepsOnSettled'
  BY <1>3, <1>4 DEF Start
<1>5. ASSUME NEW d \in Deliveries, Finish(d) \/ Withdraw(d)
      PROVE SelectedInv' /\ NeverSleepsOnSettled'
  BY <1>3, <1>5 DEF Finish, Withdraw, Settle
<1>6. ASSUME NEW w \in Waiters, LookAgain(w) PROVE SelectedInv' /\ NeverSleepsOnSettled'
  <2>1. waitsFor[w] \in Events /\ selected[w] \in SUBSET Of(waitsFor[w])
    BY <1>0, <1>6 DEF LookAgain, TypeOK, SelectedInv
  <2> QED
    BY <1>0, <1>6, <2>1, LookSleeps DEF LookAgain
<1>7. ASSUME NEW w \in Waiters, Expire(w) \/ Cancel(w)
      PROVE SelectedInv' /\ NeverSleepsOnSettled'
  BY <1>0, <1>7, GiveUpSleeps DEF Expire, Cancel
<1>8. ASSUME NEW w \in Waiters, NEW e \in Events, Wait(w, e)
      PROVE SelectedInv' /\ NeverSleepsOnSettled'
  <2>1. Selection(e) \in SUBSET Of(e)
    BY <1>0 DEF Selection, RequiredInv
  <2> QED
    BY <1>0, <1>8, <2>1, LookSleeps DEF Wait
<1> QED
  BY <1>1, <1>2, <1>4, <1>5, <1>6, <1>7, <1>8 DEF Next, vars, eventVars

LEMMA WaitStep == WaitInv /\ [Next]_vars => WaitInv'
BY TypeStep, RequiredStep, SleepStep DEF WaitInv

LEMMA WaitInvariant == Spec => []WaitInv
BY WaitInit, WaitStep, PTL DEF Spec

(* The variables keep their types, and nobody sleeps for no event.         *)
THEOREM TypeCorrect == Spec => []TypeOK
<1>1. WaitInv => TypeOK
  BY DEF WaitInv
<1> QED
  BY <1>1, WaitInvariant, PTL

(* wait_for_results loses no wake-up: between the signal it has taken and  *)
(* the next change of the event, something it waits for is unfinished.     *)
THEOREM NoLostWakeUp == Spec => []NeverSleepsOnSettled
<1>1. WaitInv => NeverSleepsOnSettled
  BY DEF WaitInv
<1> QED
  BY <1>1, WaitInvariant, PTL

-----------------------------------------------------------------------------
(* Success                                                                 *)

(* The checks that one look makes are enough.                              *)
LEMMA SuccessMeans ==
    ASSUME TypeOK, RequiredInv, NEW e \in Events, Success(e),
           NEW d \in required[e] \cup Named[e]
    PROVE  status[d] = "completed"
<1>1. Named[e] \subseteq Records(e) \ Observers /\ AllSucceeded(e)
  BY DEF Success, Satisfied, Handlers
<1>2. d \in Named[e] => d \in Demanded(e)
  BY <1>1 DEF RequiredInv, Records, Demanded
<1>3. d \in required[e] => d \in Demanded(e)
  BY DEF Demanded
<1> QED
  BY <1>1, <1>2, <1>3 DEF AllSucceeded

(* A wait comes back with success only by looking at its event.            *)
LEMMA SuccessStep ==
    ASSUME WaitInv, [Next]_vars, NEW w \in Waiters, at'[w] = "success", at[w] # "success"
    PROVE  waitsFor'[w] \in Events /\ Success(waitsFor'[w]) /\ required' = required
<1>0. TypeOK
  BY DEF WaitInv
<1>1. ASSUME NEW v \in Waiters, NEW e \in Events, NEW sel, Look(v, e, sel)
      PROVE  waitsFor'[w] \in Events /\ Success(waitsFor'[w]) /\ required' = required
  <2>1. v = w
    BY <1>0, <1>1 DEF Look, TypeOK
  <2>2. at'[w] = IF Outstanding(sel) = {} THEN IF Success(e) THEN "success" ELSE "failure"
                 ELSE IF SelfWait(w, sel) THEN "raised"
                 ELSE "asleep"
    BY <1>0, <1>1, <2>1 DEF Look, TypeOK
  <2>3. Success(e)
    BY <2>2
  <2> QED
    BY <1>0, <1>1, <2>1, <2>3 DEF Look, eventVars, TypeOK
<1>2. ASSUME NEW v \in Waiters, GiveUp(v) PROVE FALSE
  BY <1>0, <1>2 DEF GiveUp, TypeOK
<1>3. CASE UNCHANGED at
  BY <1>3
<1>4. ASSUME NEW v \in Waiters, LookAgain(v)
      PROVE  waitsFor'[w] \in Events /\ Success(waitsFor'[w]) /\ required' = required
  BY <1>0, <1>1, <1>4 DEF LookAgain, TypeOK
<1> QED
  BY <1>1, <1>2, <1>3, <1>4
  DEF Next, Emit, Start, Finish, Withdraw, Settle, Expire, Cancel, Wait, waitVars, vars

(* Who is told of success gets it of an event all of whose required and    *)
(* named receivers have completed without an error.                        *)
THEOREM SuccessTold == Spec => SuccessIsComplete
<1>1. WaitInv /\ [Next]_vars =>
         [\A w \in Waiters : (at'[w] = "success" /\ at[w] # "success") =>
             \A d \in required[waitsFor'[w]] \cup Named[waitsFor'[w]] :
                status[d] = "completed"]_vars
  BY SuccessStep, SuccessMeans DEF WaitInv
<1> QED
  BY <1>1, WaitInvariant, PTL DEF Spec, SuccessIsComplete
=============================================================================
