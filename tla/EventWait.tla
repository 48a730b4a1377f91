------------------------------ MODULE EventWait ------------------------------
(***************************************************************************)
(* Waiting for an event (agent_cdp/events/base.py wait_for_results, with   *)
(* contracts.py and aggregation.py).  A wait sleeps on the event's change  *)
(* signal and looks again at every change, until no selected delivery is   *)
(* unfinished, its own budget ends, or it is cancelled.  A handler, or a   *)
(* task it has created, is refused a wait for its own scope, which works   *)
(* through its deliveries one at a time.  What a wait that comes back is   *)
(* told of the event is decided by the receiver contract of the event.     *)
(*                                                                         *)
(* An event may be emitted more than once, each time to other receivers.   *)
(* DIRECT receivers have settled before any waiter runs again, so they are *)
(* among the deliveries that are settled as they are emitted.              *)
(***************************************************************************)
EXTENDS Naturals, FiniteSets

CONSTANTS
    Deliveries,   \* what receivers the events may get
    EventOf,      \* the event of a delivery
    ScopeOf,      \* the scope that executes it
    Observers,    \* deliveries with participation OBSERVER
    Named,        \* the receivers the contract of an event names
    Minimum,      \* min_receivers of that contract
    Uncontracted, \* the events without a request_contract
    ForRequired,  \* the events whose contract says wait_for = 'required'
    Waiters,      \* the tasks that wait
    Host,         \* the delivery whose handler or child task a waiter is
    Children,     \* the waiters that are child tasks of a handler
    Unlimited,    \* the waiters without a budget
    NoHost

Events == {EventOf[d] : d \in Deliveries}
Of(e)  == {d \in Deliveries : EventOf[d] = e}
Scopes == {ScopeOf[d] : d \in Deliveries}

ASSUME WaitAssumption ==
    /\ Host \in [Waiters -> Deliveries \cup {NoHost}] /\ NoHost \notin Deliveries
    /\ Observers \subseteq Deliveries
    /\ Named \in [Events -> SUBSET Deliveries]
    /\ Minimum \in [Events -> Nat]
    /\ Uncontracted \cap ForRequired = {}
    /\ \A e \in Uncontracted : Named[e] = {} /\ Minimum[e] = 0
    /\ \A w \in Children : Host[w] # NoHost

VARIABLES
    status,       \* the status of each delivery
    required,     \* _required_ids
    refused,      \* the events whose _preflight_error is set
    at,           \* what each waiter is doing, or how its wait ended
    waitsFor,     \* the event it waits for
    selected,     \* the deliveries it has selected
    woken         \* the signal it sleeps on has been set

eventVars == <<status, required, refused>>
waitVars  == <<at, waitsFor, selected, woken>>
vars == <<eventVars, waitVars>>

-----------------------------------------------------------------------------
Unfinished == {"queued", "running"}
Statuses   == {"none", "completed", "failed"} \cup Unfinished

(* A wait comes back, and its caller gets the answer or the error of the   *)
(* event, or it raises: SelfWaitError, EventTimeoutError, CancelledError.  *)
Ends == {"success", "failure", "raised"}

Init ==
    /\ status = [d \in Deliveries |-> "none"]
    /\ required = [e \in Events |-> {}]
    /\ refused = {}
    /\ at = [w \in Waiters |-> "idle"]
    /\ waitsFor = [w \in Waiters |-> CHOOSE e \in Events : TRUE]
    /\ selected = [w \in Waiters |-> {}]
    /\ woken = [w \in Waiters |-> FALSE]

(* Every change of a record or of the pending count replaces the signal of *)
(* its event and sets the old one.                                         *)
(* Variant: the end of a delivery is signalled by the pending count alone, *)
(* when it comes to zero.                                                  *)
NotifyAtZero(e, now) ==
    [w \in Waiters |-> woken[w] \/ /\ at[w] = "asleep" /\ waitsFor[w] = e
                                   /\ \A d \in Of(e) : now[d] \notin Unfinished]
Notify(e, now) ==
    [w \in Waiters |-> woken[w] \/ (at[w] = "asleep" /\ waitsFor[w] = e)]

Sleeps(w) == at[w] = "asleep"
Blocked(d) == \E w \in Waiters \ Children : Host[w] = d /\ Sleeps(w)

-----------------------------------------------------------------------------
(* emit: the contract is checked against the receivers before anything     *)
(* else happens; then some of them are queued and the others have settled. *)
Handlers(batch) == batch \ Observers

Satisfied(e, batch) ==
    Named[e] \subseteq Handlers(batch) /\ Minimum[e] <= Cardinality(Handlers(batch))

RequiredOf(e, batch) ==
    {d \in Handlers(batch) : Named[e] # {} => d \in Named[e]}

Emit(e, batch) ==
    /\ \A d \in batch : status[d] = "none"
    /\ IF Satisfied(e, batch)
       THEN /\ refused' = refused \ {e}
            /\ required' = [required EXCEPT ![e] = @ \cup RequiredOf(e, batch)]
            /\ \E first \in [batch -> {"queued", "completed", "failed"}] :
                 status' = [d \in Deliveries |->
                              IF d \in batch THEN first[d] ELSE status[d]]
            /\ woken' = IF batch = {} THEN woken ELSE Notify(e, status')
            /\ UNCHANGED <<at, waitsFor, selected>>
       ELSE /\ refused' = refused \cup {e}
            /\ UNCHANGED <<status, required, waitVars>>

-----------------------------------------------------------------------------
(* A scope executes its deliveries one at a time.  A handler that waits    *)
(* goes on when its wait is over; a queued delivery may be withdrawn.      *)
Start(s) ==
    /\ \A d \in Deliveries : ScopeOf[d] = s => status[d] # "running"
    /\ \E d \in Deliveries :
         /\ ScopeOf[d] = s /\ status[d] = "queued"
         /\ status' = [status EXCEPT ![d] = "running"]
         /\ woken' = Notify(EventOf[d], status')
    /\ UNCHANGED <<required, refused, at, waitsFor, selected>>

Settle(d, outcome) ==
    /\ status' = [status EXCEPT ![d] = outcome]
    /\ woken' = Notify(EventOf[d], status')
    /\ UNCHANGED <<required, refused, at, waitsFor, selected>>

Finish(d) ==
    /\ status[d] = "running" /\ ~Blocked(d)
    /\ \E outcome \in {"completed", "failed"} : Settle(d, outcome)

Withdraw(d) ==
    /\ status[d] = "queued"
    /\ Settle(d, "failed")

-----------------------------------------------------------------------------
(* What a wait looks at.                                                   *)
Selection(e) == IF e \in ForRequired THEN required[e] ELSE Of(e)

Outstanding(sel) == {d \in sel : status[d] \in Unfinished}

(* The test for a wait that cannot end: the waiter acts for a handler that *)
(* is running, and one of the deliveries is left to the same scope.        *)
(* Variant: the handler's own delivery is the only one that counts.        *)
SelfWaitOnlyOwn(w, sel) ==
    /\ Host[w] # NoHost
    /\ status[Host[w]] = "running"
    /\ Host[w] \in Outstanding(sel)
SelfWait(w, sel) ==
    /\ Host[w] # NoHost
    /\ status[Host[w]] = "running"
    /\ \E d \in Outstanding(sel) : ScopeOf[d] = ScopeOf[Host[w]]

(* The answer of check_success and the aggregations, given at once when    *)
(* the wait comes back: no required receiver has failed, none is open.     *)
(* Variant: open ones are not looked for.                                  *)
Records(e) == {d \in Of(e) : status[d] # "none"}
Demanded(e) == IF required[e] = {} THEN Records(e) \ Observers ELSE required[e]

NoneFailed(e) == \A d \in Demanded(e) : status[d] # "failed"
AllSucceeded(e) == \A d \in Demanded(e) : status[d] = "completed"

(* An error of an observer counts too when there is no contract.           *)
Aggregated(e) ==
    IF e \in Uncontracted THEN Records(e)
    ELSE {d \in Records(e) \ Observers : Named[e] # {} => d \in Named[e]}

Success(e) ==
    /\ \A d \in Aggregated(e) : status[d] # "failed"
    /\ e \notin refused
    /\ Satisfied(e, Records(e))
    /\ AllSucceeded(e)

-----------------------------------------------------------------------------
(* One look, at the start of a wait and at every wake-up.                  *)
Look(w, e, sel) ==
    /\ at' = [at EXCEPT ![w] =
           IF Outstanding(sel) = {} THEN IF Success(e) THEN "success" ELSE "failure"
           ELSE IF SelfWait(w, sel) THEN "raised"
           ELSE "asleep"]
    /\ woken' = [woken EXCEPT ![w] = FALSE]
    /\ waitsFor' = [waitsFor EXCEPT ![w] = e]
    /\ selected' = [selected EXCEPT ![w] = IF at'[w] = "asleep" THEN sel ELSE {}]
    /\ UNCHANGED eventVars

(* A handler calls wait while it runs and does not wait already, a task it *)
(* has created also later.                                                 *)
MayWait(w) ==
    /\ at[w] = "idle"
    /\ Host[w] # NoHost =>
         IF w \in Children THEN status[Host[w]] \notin {"none", "queued"}
         ELSE status[Host[w]] = "running" /\ ~Blocked(Host[w])

Wait(w, e) == MayWait(w) /\ Look(w, e, Selection(e))

LookAgain(w) == Sleeps(w) /\ woken[w] /\ Look(w, waitsFor[w], selected[w])

GiveUp(w) ==
    /\ at' = [at EXCEPT ![w] = "raised"]
    /\ woken' = [woken EXCEPT ![w] = FALSE]
    /\ selected' = [selected EXCEPT ![w] = {}]
    /\ UNCHANGED <<eventVars, waitsFor>>

Expire(w) == Sleeps(w) /\ w \notin Unlimited /\ GiveUp(w)

(* The waiter's task is cancelled: by its owner, by cancel_execution, or   *)
(* by the execution budget of the handler it belongs to.                   *)
Cancel(w) == Sleeps(w) /\ GiveUp(w)

-----------------------------------------------------------------------------
Next ==
    \/ \E e \in Events : \E batch \in SUBSET Of(e) : Emit(e, batch)
    \/ \E s \in Scopes : Start(s)
    \/ \E d \in Deliveries : Finish(d) \/ Withdraw(d)
    \/ \E w \in Waiters : LookAgain(w) \/ Expire(w) \/ Cancel(w)
    \/ \E w \in Waiters, e \in Events : Wait(w, e)

Spec == Init /\ [][Next]_vars

(* Scopes go on, handlers that do not wait end (or are ended by their      *)
(* execution budget), a task that is woken runs, and timers fire.          *)
Fairness ==
    /\ \A s \in Scopes : WF_vars(Start(s))
    /\ \A d \in Deliveries : WF_vars(Finish(d))
    /\ \A w \in Waiters : WF_vars(LookAgain(w)) /\ WF_vars(Expire(w))

FairSpec == Spec /\ Fairness

-----------------------------------------------------------------------------
(* Every variable has its type, and what is asleep waits for an event.     *)
TypeOK ==
    /\ status \in [Deliveries -> Statuses]
    /\ required \in [Events -> SUBSET Deliveries]
    /\ refused \subseteq Events
    /\ at \in [Waiters -> {"idle", "asleep"} \cup Ends]
    /\ DOMAIN waitsFor = Waiters
    /\ \A w \in Waiters : Sleeps(w) => waitsFor[w] \in Events
    /\ selected \in [Waiters -> SUBSET Deliveries]
    /\ woken \in [Waiters -> BOOLEAN]

(* No wake-up is lost: a waiter that sleeps on with no signal set has      *)
(* something left to wait for.                                             *)
NeverSleepsOnSettled ==
    \A w \in Waiters :
      (Sleeps(w) /\ ~woken[w]) => Outstanding(selected[w]) # {}

(* An answer of success means that every required receiver has completed   *)
(* and succeeded, those of an emit made during the wait included.          *)
SuccessIsComplete ==
    [][\A w \in Waiters : (at'[w] = "success" /\ at[w] # "success") =>
          \A d \in required[waitsFor'[w]] \cup Named[waitsFor'[w]] :
             status[d] = "completed"]_vars

(* Every wait ends: handlers of two scopes that wait for each other are    *)
(* freed by the budget of one of them, and the others by what it frees.    *)
EveryWaitEnds == \A w \in Waiters : Sleeps(w) ~> ~Sleeps(w)
=============================================================================
