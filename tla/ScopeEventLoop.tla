--------------------------- MODULE ScopeEventLoop ---------------------------
(***************************************************************************)
(* The serial event loop of one scope (agent_cdp/scope/event_loop.py): a   *)
(* bounded queue of deliveries, one consumer task that runs one handler at *)
(* a time, and the callers that admit, cancel, flush, start and stop.      *)
(*                                                                         *)
(* asyncio runs one task at a time and switches only at an await, so an    *)
(* action is what one task does between two awaits.  The consumer does     *)
(* more than one thing between awaits (it settles a delivery and goes on   *)
(* to the next), so it has program counters at which it still holds the    *)
(* thread; Yielded is the guard of everybody else.                         *)
(*                                                                         *)
(* A delivery is one (event, connection) pair: emit refuses to deliver the *)
(* same pair twice, so each is admitted at most once.  Handlers are        *)
(* arbitrary: they return, raise, end cancelled, or ignore an interrupt    *)
(* for as long as they like.                                               *)
(***************************************************************************)
EXTENDS Naturals, FiniteSets, Sequences

CONSTANTS
    Deliveries,    \* the (event, connection) pairs that may be dispatched
    Events,        \* the event instances they belong to
    EventOf,       \* the event of each delivery
    Capacities,    \* the values of queue_maxsize; 0 is unbounded
    Budgeted,      \* deliveries whose event has an execution_timeout
    Flushers,      \* tasks that may call flush
    NoDelivery,    \* _active when no handler runs
    GatherYields   \* asyncio.gather of finished futures suspends (Python 3.11)

ASSUME ConstantsAssumption ==
    /\ IsFiniteSet(Deliveries)
    /\ EventOf \in [Deliveries -> Events]
    /\ Capacities \subseteq Nat
    /\ Budgeted \subseteq Deliveries
    /\ NoDelivery \notin Deliveries
    /\ GatherYields \in BOOLEAN

VARIABLES
    capacity,         \* queue_maxsize of this scope
    queue,            \* _queue: admitted deliveries not yet taken
    pending,          \* keys of _pending: admitted and not settled
    sequence,         \* _sequence
    number,           \* the sequence number of each delivery, 0 before it has one
    active,           \* _active
    running,          \* _running
    stopping,         \* _stopping
    closed,           \* EventScope._closed: emit and start refuse
    wake,             \* _wake
    consumer,         \* where the consumer task _task is
    consumerCancel,   \* the consumer task has been cancelled from outside
    task,             \* the handler task of each delivery
    fact,             \* the status of each delivery's record
    cancelRequested,  \* EventResult.cancel_requested
    cancelSent,       \* _Delivery.cancel_sent
    timedOut,         \* _Delivery.timeout_error is set
    pendingCount,     \* BaseEvent._pending_count
    stats,            \* the cumulative counters
    settled,          \* _settled_since_flush
    flush,            \* the local variables of each flush call
    stopper,          \* where the (serialised) call of stop is
    lastStop,         \* what the last call of stop returned
    invoked,          \* history: handlers whose body has been entered
    interrupts,       \* history: effective task.cancel() calls per handler
    acked             \* history: deliveries some successful flush reported

queueVars    == <<queue, pending, sequence, number>>
lifeVars     == <<running, stopping, closed, capacity>>
consumerVars == <<active, consumer, consumerCancel>>
cancelVars   == <<cancelRequested, cancelSent, interrupts>>
handlerVars  == <<task, timedOut, invoked>>
flushVars    == <<flush, acked>>
stopVars     == <<stopper, lastStop>>
vars == <<queueVars, lifeVars, wake, consumerVars, cancelVars, handlerVars,
          fact, pendingCount, stats, settled, flushVars, stopVars>>

-----------------------------------------------------------------------------
(* The consumer holds the thread at "loop" (choosing what to do next),     *)
(* "collect" (about to read the handler's outcome) and "unwind" (cleaning  *)
(* up after its own cancellation).  It awaits at "idle" (_wake.wait()),    *)
(* "exec" (shield(task)) and "reap" (shield(task) again, after its own     *)
(* cancellation).  "created" is a task before its first step, "absent" is  *)
(* _task = None.                                                           *)
Holding == {"loop", "collect", "unwind"}
Ended   == {"absent", "finished", "cancelled"}
ConsumerStates == Holding \cup Ended \cup {"created", "idle", "exec", "reap"}

Yielded == consumer \notin Holding /\ stopper # "returning"

Live     == {"created", "running"}
Outcomes == {"returned", "raised", "cancelled"}
Settled  == {"completed", "failed", "cancelled", "timeout", "rejected"}

Counters == {"accepted", "completed", "failed", "cancelled", "rejected"}

Waiting(d)   == d \in pending /\ task[d] = "none"
TaskDone     == active # NoDelivery /\ task[active] \in Outcomes
InQueue      == {queue[i] : i \in DOMAIN queue}

NoFlush == [at |-> "idle", prefix |-> {}, upto |-> 0, known |-> {}]

Init ==
    /\ capacity \in Capacities
    /\ queue = <<>> /\ pending = {} /\ sequence = 0
    /\ number = [d \in Deliveries |-> 0]
    /\ active = NoDelivery
    /\ running = FALSE /\ stopping = FALSE /\ closed = FALSE /\ wake = FALSE
    /\ consumer = "absent" /\ consumerCancel = FALSE
    /\ task = [d \in Deliveries |-> "none"]
    /\ fact = [d \in Deliveries |-> "unsent"]
    /\ cancelRequested = [d \in Deliveries |-> FALSE]
    /\ cancelSent = [d \in Deliveries |-> FALSE]
    /\ interrupts = [d \in Deliveries |-> 0]
    /\ timedOut = [d \in Deliveries |-> FALSE]
    /\ invoked = [d \in Deliveries |-> FALSE]
    /\ pendingCount = [e \in Events |-> 0]
    /\ stats = [c \in Counters |-> 0]
    /\ settled = {}
    /\ flush = [f \in Flushers |-> NoFlush]
    /\ stopper = "none" /\ lastStop = "none"
    /\ acked = {}

-----------------------------------------------------------------------------
(* Settling.  _count_result: a result with a business error is COMPLETED   *)
(* but not a success, and counts with the failures; here it is "failed".   *)

CountResult(outcome) ==
    CASE outcome = "completed" -> "completed"
      [] outcome = "cancelled" -> "cancelled"
      [] OTHER                 -> "failed"

(* _decrement_pending, which stops at 0.                                   *)
Less(a, b) == IF a >= b THEN a - b ELSE 0
(* Variant: only a delivery that was started counts down.                  *)
DecrementStarted(S) ==
    pendingCount' = [e \in Events |-> Less(pendingCount[e],
        Cardinality({d \in S : EventOf[d] = e /\ task[d] # "none"}))]
Decrement(S) ==
    pendingCount' = [e \in Events |-> Less(pendingCount[e],
        Cardinality({d \in S : EventOf[d] = e}))]

(* _finish for a set of deliveries that settle in one step with one        *)
(* outcome, and record_result before it.                                   *)
Finish(S, outcome) ==
    /\ fact' = [d \in Deliveries |-> IF d \in S THEN outcome ELSE fact[d]]
    /\ settled' = settled \cup S
    /\ pending' = pending \ S
    /\ stats' = [stats EXCEPT ![CountResult(outcome)] = @ + Cardinality(S)]
    /\ Decrement(S)

(* What _cancel_delivery leaves in the queue: it takes every item out and  *)
(* puts back the ones that are not done, in the order they were in.        *)
InOrder(r, q) ==
    \A i, j \in DOMAIN r : i < j =>
        \E k, l \in DOMAIN q : k < l /\ q[k] = r[i] /\ q[l] = r[j]
(* Variant: what is withdrawn stays in the queue.                          *)
RetainedAll(q, S) == {q}
(* Variant: what is kept goes back last first.                             *)
RetainedReversed(q, S) ==
    LET kept == {q[i] : i \in DOMAIN q} \ S
    IN {r \in UNION {[1..n -> kept] : n \in 0..Len(q)} :
           {r[i] : i \in DOMAIN r} = kept /\ (S = {} => r = q)
           /\ (S # {} => InOrder([i \in DOMAIN r |-> r[Len(r) + 1 - i]], q))}
Retained(q, S) ==
    LET kept == {q[i] : i \in DOMAIN q} \ S
    IN {r \in UNION {[1..n -> kept] : n \in 0..Len(q)} :
           {r[i] : i \in DOMAIN r} = kept /\ InOrder(r, q)}

(* One task.cancel() is sent to a handler whose task is not done yet.      *)
Interrupt(S) ==
    /\ cancelSent' = [d \in Deliveries |-> cancelSent[d] \/ d \in S]
    /\ interrupts' = [d \in Deliveries |->
          IF d \in S /\ task[d] \in Live THEN interrupts[d] + 1
                                         ELSE interrupts[d]]

(* Variant: cancel_sent is not looked at.                                  *)
UnsentAlways(d) == TRUE
Unsent(d) == ~cancelSent[d]

(* _cancel_delivery for every d in S: one that has not started settles and *)
(* leaves the queue, the running one is asked once to stop.                *)
CancelDeliveries(S) ==
    LET withdrawn   == {d \in S : Waiting(d)}
        interrupted == {d \in S \cap pending : ~Waiting(d) /\ Unsent(d)}
    IN /\ queue' \in Retained(queue, withdrawn)
       /\ Finish(withdrawn, "cancelled")
       /\ Interrupt(interrupted)
       /\ cancelRequested' = [d \in Deliveries |->
             cancelRequested[d] \/ d \in withdrawn \cup interrupted]
       /\ UNCHANGED <<sequence, number, handlerVars, flushVars>>

WakeIfWithdrawn(S) == wake' = (wake \/ \E d \in S : Waiting(d))

-----------------------------------------------------------------------------
(* Admission                                                               *)

(* emit refuses a pair that has a delivery already.                        *)
(* Variant: that test is missing.                                          *)
FreshAlways(d) == TRUE
Fresh(d) == number[d] = 0

Full == capacity > 0 /\ Len(queue) >= capacity

NextNumber(d) ==
    /\ sequence' = sequence + 1
    /\ number' = [number EXCEPT ![d] = sequence + 1]

(* Variant: the wake-up is forgotten.                                      *)
WakeUpLost == UNCHANGED wake
WakeUp == wake' = TRUE

(* EventScope.emit of a queued connection: _increment_pending and enqueue. *)
Admit(d) ==
    /\ Yielded /\ ~closed /\ Fresh(d)
    /\ ~Full /\ ~stopping
    /\ NextNumber(d)
    /\ pending' = pending \cup {d}
    /\ queue' = Append(queue, d)
    /\ fact' = [fact EXCEPT ![d] = "queued"]
    /\ pendingCount' = [pendingCount EXCEPT ![EventOf[d]] = @ + 1]
    /\ stats' = [stats EXCEPT !["accepted"] = @ + 1]
    /\ WakeUp
    /\ UNCHANGED <<lifeVars, consumerVars, cancelVars, handlerVars, settled,
                   flushVars, stopVars>>

(* Variant: a rejection counts as accepted, too.                           *)
CountRejectedTwice == stats' = [stats EXCEPT !["rejected"] = @ + 1, !["accepted"] = @ + 1]
CountRejected == stats' = [stats EXCEPT !["rejected"] = @ + 1]

(* enqueue that refuses: the rejection is a settled fact with a number of  *)
(* its own; the event's pending count goes up and down again.              *)
Reject(d) ==
    /\ Yielded /\ ~closed /\ Fresh(d)
    /\ Full \/ stopping
    /\ NextNumber(d)
    /\ fact' = [fact EXCEPT ![d] = "rejected"]
    /\ settled' = settled \cup {d}
    /\ CountRejected
    /\ UNCHANGED <<queue, pending, lifeVars, wake, consumerVars, cancelVars,
                   handlerVars, pendingCount, flushVars, stopVars>>

(* A DIRECT delivery: direct_started, the handler, direct_finished.  What  *)
(* the handler itself emits or cancels meanwhile commutes with the two     *)
(* bookkeeping calls and is left to the other actions.                     *)
Direct(d, outcome) ==
    /\ Yielded /\ ~closed /\ Fresh(d)
    /\ NextNumber(d)
    /\ fact' = [fact EXCEPT ![d] = outcome]
    /\ settled' = settled \cup {d}
    /\ stats' = [stats EXCEPT !["accepted"] = @ + 1,
                              ![CountResult(outcome)] = @ + 1]
    /\ invoked' = [invoked EXCEPT ![d] = TRUE]
    /\ UNCHANGED <<queue, pending, lifeVars, wake, consumerVars, cancelVars,
                   task, timedOut, pendingCount, flushVars, stopVars>>

(* BaseEvent.cancel_execution of event e for the selected deliveries S.    *)
(* include_running=False is the choice of an S without the running one.    *)
CancelExecution(e, S) ==
    /\ Yielded
    /\ S # {} /\ S \subseteq {d \in pending : EventOf[d] = e /\ ~cancelRequested[d]}
    /\ CancelDeliveries(S) /\ WakeIfWithdrawn(S)
    /\ UNCHANGED <<lifeVars, consumerVars, stopVars>>

-----------------------------------------------------------------------------
(* The consumer task: _run and _execute_handler                            *)

ConsumerUnchanged == UNCHANGED <<queueVars, lifeVars, cancelVars, handlerVars,
                       fact, pendingCount, stats, settled, flushVars, stopVars>>

ConsumerEnter ==
    /\ Yielded /\ consumer = "created" /\ ~consumerCancel
    /\ consumer' = "loop"
    /\ UNCHANGED <<wake, active, consumerCancel>> /\ ConsumerUnchanged

(* asyncio throws the CancelledError into a coroutine that has not started *)
(* yet: neither the except nor the finally of _run ever executes.          *)
ConsumerDiesUnentered ==
    /\ Yielded /\ consumer = "created" /\ consumerCancel
    /\ consumer' = "cancelled"
    /\ UNCHANGED <<wake, active, consumerCancel>> /\ ConsumerUnchanged

(* Variant: the stop flag is not looked at before going to sleep.          *)
SleepAlways ==
    /\ consumer = "loop" /\ queue = <<>>
    /\ wake' = FALSE
    /\ consumer' = "idle"
    /\ UNCHANGED <<active, consumerCancel>> /\ ConsumerUnchanged
Sleep ==
    /\ consumer = "loop" /\ queue = <<>> /\ ~stopping
    /\ wake' = FALSE
    /\ consumer' = "idle"
    /\ UNCHANGED <<active, consumerCancel>> /\ ConsumerUnchanged

Awake ==
    /\ Yielded /\ consumer = "idle" /\ wake /\ ~consumerCancel
    /\ consumer' = "loop"
    /\ UNCHANGED <<wake, active, consumerCancel>> /\ ConsumerUnchanged

RunEnds ==
    /\ consumer = "loop" /\ queue = <<>> /\ stopping
    /\ running' = FALSE
    /\ consumer' = "finished"
    /\ UNCHANGED <<queueVars, stopping, closed, capacity, wake, active, consumerCancel,
                   cancelVars, handlerVars, fact, pendingCount, stats, settled,
                   flushVars, stopVars>>

(* Variant: the record of a delivery that begins is left as it was.        *)
MarkNothing(d) == UNCHANGED fact
MarkRunning(d) == fact' = [fact EXCEPT ![d] = "running"]

(* get_nowait, and for an item that is not done: _mark_running and         *)
(* create_task(invoke()).                                                  *)
TakeNext ==
    /\ consumer = "loop" /\ queue # <<>>
    /\ queue' = Tail(queue)
    /\ IF Head(queue) \in pending
       THEN /\ active' = Head(queue)
            /\ MarkRunning(Head(queue))
            /\ task' = [task EXCEPT ![Head(queue)] = "created"]
            /\ consumer' = "exec"
       ELSE UNCHANGED <<active, fact, task, consumer>>
    /\ UNCHANGED <<pending, sequence, number, lifeVars, wake, consumerCancel,
                   cancelVars, timedOut, invoked, pendingCount, stats, settled,
                   flushVars, stopVars>>

(* Where the consumer goes once it has passed its own cancellation on.     *)
(* Variant: it does not wait for the handler.                              *)
AfterInterruptAtOnce == "unwind"
AfterInterrupt == IF TaskDone THEN "collect" ELSE "reap"

(* The consumer's own cancellation reaches it at shield(task).  It asks    *)
(* the handler to stop, at most once, and does not leave before it has.    *)
ExecInterrupted ==
    /\ Yielded /\ consumer = "exec" /\ consumerCancel
    /\ LET S == {d \in {active} : Unsent(d)}
       IN /\ Interrupt(S)
          /\ cancelRequested' = [d \in Deliveries |-> cancelRequested[d] \/ d \in S]
    /\ consumer' = AfterInterrupt
    /\ UNCHANGED <<queueVars, lifeVars, wake, active, consumerCancel,
                   handlerVars, fact, pendingCount, stats, settled, flushVars,
                   stopVars>>

IdleInterrupted ==
    /\ Yielded /\ consumer = "idle" /\ consumerCancel
    /\ consumer' = "unwind"
    /\ UNCHANGED <<wake, active, consumerCancel>> /\ ConsumerUnchanged

(* What record_result makes of the handler's outcome: an expired budget    *)
(* wins over everything; a returned value may fail a result contract, and  *)
(* a contract may raise CancelledError.                                    *)
ResultOf(d) ==
    CASE timedOut[d]             -> {"timeout"}
      [] task[d] = "cancelled"   -> {"cancelled"}
      [] task[d] = "raised"      -> {"failed"}
      [] OTHER                   -> {"completed", "failed", "cancelled"}

Collect ==
    /\ \/ consumer = "collect"
       \/ Yielded /\ consumer = "reap"
       \/ Yielded /\ consumer = "exec" /\ ~consumerCancel
    /\ TaskDone
    /\ \E outcome \in ResultOf(active) : Finish({active}, outcome)
    /\ task' = [task EXCEPT ![active] = "none"]
    /\ active' = NoDelivery
    /\ consumer' = IF consumerCancel THEN "unwind" ELSE "loop"
    /\ UNCHANGED <<queue, sequence, number, lifeVars, wake, consumerCancel,
                   cancelVars, timedOut, invoked, flushVars, stopVars>>

Unwind ==
    /\ consumer = "unwind"
    /\ running' = FALSE /\ stopping' = TRUE
    /\ CancelDeliveries(pending) /\ WakeIfWithdrawn(pending)
    /\ consumer' = "cancelled"
    /\ UNCHANGED <<closed, capacity, active, consumerCancel, stopVars>>

(* Somebody outside the loop cancels the consumer task, as asyncio.run     *)
(* does to every task when the program ends.                               *)
CancelConsumer ==
    /\ Yielded /\ consumer \in {"created", "idle", "exec"} /\ ~consumerCancel
    /\ consumerCancel' = TRUE
    /\ UNCHANGED <<wake, active, consumer>> /\ ConsumerUnchanged

-----------------------------------------------------------------------------
(* Handler tasks and their timers                                          *)

HandlerUnchanged == UNCHANGED <<queueVars, lifeVars, wake, consumerVars, fact,
                       pendingCount, stats, settled, flushVars, stopVars>>

(* The first step of the task: a cancel() that came earlier ends it before *)
(* the handler is called.                                                  *)
HandlerEnter(d) ==
    /\ Yielded /\ task[d] = "created"
    /\ task' = [task EXCEPT ![d] = IF interrupts[d] > 0 THEN "cancelled" ELSE "running"]
    /\ invoked' = [invoked EXCEPT ![d] = @ \/ interrupts[d] = 0]
    /\ UNCHANGED <<timedOut, cancelVars>> /\ HandlerUnchanged

HandlerExit(d) ==
    /\ Yielded /\ task[d] = "running"
    /\ \E outcome \in Outcomes : task' = [task EXCEPT ![d] = outcome]
    /\ UNCHANGED <<timedOut, invoked, cancelVars>> /\ HandlerUnchanged

(* expire: the execution budget of a handler that has not ended.           *)
Expire(d) ==
    /\ Yielded /\ d \in Budgeted /\ task[d] = "running" /\ ~timedOut[d]
    /\ timedOut' = [timedOut EXCEPT ![d] = TRUE]
    /\ cancelRequested' = [cancelRequested EXCEPT ![d] = TRUE]
    /\ Interrupt({x \in {d} : Unsent(x)})
    /\ UNCHANGED <<task, invoked>> /\ HandlerUnchanged

-----------------------------------------------------------------------------
(* start, stop and the close that calls it                                 *)

(* start() creates the consumer; it refuses while an earlier one is alive  *)
(* and does nothing while the loop says it is running.                     *)
Start ==
    /\ Yielded /\ ~closed
    /\ ~running /\ consumer \in Ended
    /\ stopping' = FALSE /\ running' = TRUE
    /\ consumer' = "created" /\ consumerCancel' = FALSE
    /\ UNCHANGED <<queueVars, closed, capacity, wake, active, cancelVars, handlerVars,
                   fact, pendingCount, stats, settled, flushVars, stopVars>>

Close ==
    /\ Yielded /\ ~closed
    /\ closed' = TRUE
    /\ UNCHANGED <<queueVars, running, stopping, capacity, wake, consumerVars, cancelVars,
                   handlerVars, fact, pendingCount, stats, settled, flushVars,
                   stopVars>>

(* stop(drain) up to its await.  A scope that was never started starts a   *)
(* consumer to drain what it has accepted.                                 *)
LateStart(drain) == drain /\ pending # {} /\ consumer = "absent"

Stop(drain) ==
    /\ Yielded /\ closed /\ stopper = "none"
    /\ stopping' = TRUE /\ running' = FALSE /\ WakeUp
    /\ IF LateStart(drain)
       THEN consumer' = "created" /\ consumerCancel' = FALSE
       ELSE UNCHANGED <<consumer, consumerCancel>>
    /\ CancelDeliveries(IF drain THEN {} ELSE pending)
    /\ stopper' = IF consumer' \in Ended THEN "returning" ELSE "waiting"
    /\ UNCHANGED <<closed, capacity, active, lastStop>>

(* The consumer has ended: what is still pending is withdrawn, and _task   *)
(* becomes None.                                                           *)
StopReturn ==
    /\ \/ stopper = "returning"
       \/ Yielded /\ stopper = "waiting" /\ consumer \in Ended
    /\ CancelDeliveries(pending) /\ WakeIfWithdrawn(pending)
    /\ consumer' = "absent"
    /\ lastStop' = IF pending' = {} THEN "complete" ELSE "incomplete"
    /\ stopper' = "none"
    /\ UNCHANGED <<lifeVars, active, consumerCancel>>

(* Variant: completion is judged by the pending deliveries alone.          *)
ReportTimeoutByPending ==
    lastStop' = IF pending' = {} THEN "complete" ELSE "incomplete"
ReportTimeout == lastStop' = "incomplete"

(* The budget of the close is over before the consumer has ended.          *)
StopTimeout ==
    /\ Yielded /\ stopper = "waiting" /\ consumer \notin Ended
    /\ CancelDeliveries(pending) /\ WakeIfWithdrawn(pending)
    /\ ReportTimeout
    /\ stopper' = "none"
    /\ UNCHANGED <<lifeVars, consumerVars>>

(* The caller of close is itself cancelled while it waits.                 *)
StopAbandoned ==
    /\ Yielded /\ stopper = "waiting"
    /\ stopper' = "none"
    /\ UNCHANGED <<queueVars, lifeVars, wake, consumerVars, cancelVars,
                   handlerVars, fact, pendingCount, stats, settled, flushVars,
                   lastStop>>

-----------------------------------------------------------------------------
(* flush: a barrier behind what is outstanding now, and a checkpoint of    *)
(* the facts settled since the last one                                    *)

FlushUnchanged == UNCHANGED <<queueVars, lifeVars, wake, consumerVars,
                     cancelVars, handlerVars, fact, pendingCount, stats, stopVars>>

FlushNothing(f) ==
    /\ Yielded /\ flush[f].at = "idle" /\ pending = {}
    /\ settled' = {}
    /\ acked' = acked \cup settled
    /\ UNCHANGED flush /\ FlushUnchanged

FlushBegin(f) ==
    /\ Yielded /\ flush[f].at = "idle" /\ pending # {}
    /\ flush' = [flush EXCEPT ![f] = [at |-> "waiting", prefix |-> pending,
                                      upto |-> sequence, known |-> settled]]
    /\ UNCHANGED <<settled, acked>> /\ FlushUnchanged

(* What a flush leaves for the next one.                                   *)
(* Variant: nothing, whatever settled while it waited.                     *)
UnreportedNone(f) == {}
Unreported(f) == {d \in settled : number[d] > flush[f].upto}
FlushReport(f) == flush[f].known \cup flush[f].prefix

(* The barrier waits for every delivery that was outstanding at the call.  *)
(* Variant: it is over with the first of them.                             *)
BarrierAtFirst(f) == ~(flush[f].prefix \subseteq pending)
(* Variant: it is over when the loop has nothing left.                     *)
BarrierMoves(f) == pending = {}
BarrierDone(f) == flush[f].prefix \cap pending = {}

(* The prefix is done: its facts leave _settled_since_flush.  On an        *)
(* interpreter whose gather yields, the caller is suspended once more      *)
(* before it has the report in hand.                                       *)
FlushSettle(f) ==
    /\ Yielded /\ flush[f].at = "waiting" /\ BarrierDone(f)
    /\ settled' = Unreported(f)
    /\ flush' = [flush EXCEPT ![f] =
          IF GatherYields THEN [@ EXCEPT !.at = "returning"] ELSE NoFlush]
    /\ acked' = IF GatherYields THEN acked ELSE acked \cup FlushReport(f)
    /\ FlushUnchanged

FlushReturn(f) ==
    /\ Yielded /\ flush[f].at = "returning"
    /\ flush' = [flush EXCEPT ![f] = NoFlush]
    /\ acked' = acked \cup FlushReport(f)
    /\ UNCHANGED settled /\ FlushUnchanged

(* EventTimeoutError, or the caller of flush is cancelled: the call has no *)
(* result and, while it waits, no effect.                                  *)
FlushAbandoned(f) ==
    /\ Yielded /\ flush[f].at # "idle"
    /\ flush' = [flush EXCEPT ![f] = NoFlush]
    /\ UNCHANGED <<settled, acked>> /\ FlushUnchanged

-----------------------------------------------------------------------------
ConsumerStep ==
    \/ ConsumerEnter \/ ConsumerDiesUnentered
    \/ Sleep \/ Awake \/ RunEnds \/ TakeNext
    \/ IdleInterrupted \/ ExecInterrupted
    \/ Collect \/ Unwind

StopStep == StopReturn \/ StopTimeout \/ StopAbandoned

FlushStep(f) ==
    \/ FlushNothing(f) \/ FlushBegin(f) \/ FlushSettle(f)
    \/ FlushReturn(f) \/ FlushAbandoned(f)

Next ==
    \/ \E d \in Deliveries : Admit(d) \/ Reject(d)
    \/ \E d \in Deliveries, o \in Settled \ {"rejected"} : Direct(d, o)
    \/ \E e \in Events : \E S \in SUBSET pending : CancelExecution(e, S)
    \/ ConsumerStep
    \/ CancelConsumer
    \/ \E d \in Deliveries : HandlerEnter(d) \/ HandlerExit(d) \/ Expire(d)
    \/ Start \/ Close
    \/ \E drain \in BOOLEAN : Stop(drain)
    \/ StopStep
    \/ \E f \in Flushers : FlushStep(f)

Spec == Init /\ [][Next]_vars

(* asyncio runs every ready task and fires every due timer.  That a        *)
(* handler ends once it has been interrupted is the handler's cooperation, *)
(* which the library's contract asks for; nothing is assumed of a handler  *)
(* nobody interrupts.  A flush is ready as soon as its barrier is done and *)
(* stays so while other tasks hold the thread in between; the loop's ready *)
(* queue is first in, first out, hence its strong fairness.                *)
Fairness ==
    /\ WF_vars(ConsumerStep) /\ WF_vars(StopReturn)
    /\ \A d \in Deliveries :
          /\ WF_vars(HandlerEnter(d))
          /\ WF_vars(Expire(d))
          /\ WF_vars(interrupts[d] > 0 /\ HandlerExit(d))
    /\ \A f \in Flushers : SF_vars(FlushSettle(f)) /\ SF_vars(FlushReturn(f))

FairSpec == Spec /\ Fairness

-----------------------------------------------------------------------------
(* Properties                                                              *)

(* Every variable has its type.                                            *)
TypeOK ==
    /\ capacity \in Capacities
    /\ queue \in Seq(Deliveries)
    /\ pending \subseteq Deliveries
    /\ sequence \in Nat
    /\ number \in [Deliveries -> Nat]
    /\ active \in Deliveries \cup {NoDelivery}
    /\ running \in BOOLEAN /\ stopping \in BOOLEAN
    /\ closed \in BOOLEAN /\ wake \in BOOLEAN
    /\ consumer \in ConsumerStates /\ consumerCancel \in BOOLEAN
    /\ task \in [Deliveries -> Live \cup Outcomes \cup {"none"}]
    /\ fact \in [Deliveries -> Settled \cup {"unsent", "queued", "running"}]
    /\ cancelRequested \in [Deliveries -> BOOLEAN]
    /\ cancelSent \in [Deliveries -> BOOLEAN]
    /\ interrupts \in [Deliveries -> Nat]
    /\ timedOut \in [Deliveries -> BOOLEAN]
    /\ invoked \in [Deliveries -> BOOLEAN]
    /\ pendingCount \in [Events -> Nat]
    /\ stats \in [Counters -> Nat]
    /\ settled \subseteq Deliveries
    /\ flush \in [Flushers -> [at : {"idle", "waiting", "returning"},
                               prefix : SUBSET Deliveries, upto : Nat,
                               known : SUBSET Deliveries]]
    /\ stopper \in {"none", "waiting", "returning"}
    /\ lastStop \in {"none", "complete", "incomplete"}
    /\ acked \subseteq Deliveries

(* The queue holds exactly the deliveries that are accepted and not begun, *)
(* each once: a withdrawn delivery leaves its slot at once, wherever the   *)
(* withdrawal came from, and nothing else does (_cancel_delivery).         *)
QueueIsWaiting ==
    /\ InQueue = {d \in Deliveries : Waiting(d)}
    /\ \A i, j \in DOMAIN queue : queue[i] = queue[j] => i = j

(* Deliveries begin in the order in which they were admitted: the queue is *)
(* in admission order and nothing waiting is older than what runs, after   *)
(* any sequence of withdrawals, restarts and late starts.                  *)
SerialOrder ==
    /\ \A i, j \in DOMAIN queue : i < j => number[queue[i]] < number[queue[j]]
    /\ active # NoDelivery => \A d \in InQueue : number[active] < number[d]

(* "One consumer; an interrupted handler must actually exit before the     *)
(* next runs" (event_loop.py:134): a handler task that has not been        *)
(* collected is the active one, and a consumer that is not supervising it  *)
(* has none: no cancellation, close or restart ever orphans a child.       *)
OneHandler ==
    /\ \A d \in Deliveries : task[d] # "none" => d = active /\ d \in pending
    /\ (active # NoDelivery) <=> consumer \in {"exec", "reap", "collect"}

(* The record of a delivery, which waiters, diagnostics and                *)
(* cancel_execution read, agrees with where the loop has it: QUEUED in the *)
(* queue, RUNNING while it is the active one, final once it is no longer   *)
(* outstanding.                                                            *)
RecordsAgree ==
    /\ \A d \in Deliveries :
          /\ fact[d] = "queued"  <=> Waiting(d)
          /\ fact[d] = "running" <=> d = active
          /\ fact[d] = "unsent"  <=> number[d] = 0
    /\ pending = {d \in Deliveries : fact[d] \in {"queued", "running"}}

(* However many of expire, cancel_execution, close and a cancelled         *)
(* consumer want to stop one handler, it gets one task.cancel(); and a     *)
(* handler whose record says cancel_requested really got it.               *)
InterruptedOnce ==
    \A d \in Deliveries :
        /\ interrupts[d] <= 1
        /\ (task[d] \in Live /\ cancelRequested[d]) => interrupts[d] = 1

(* What ScopeStats reports adds up, counting each delivery once: accepted  *)
(* is what has settled plus what is outstanding.                           *)
StatsConserve ==
    /\ stats["accepted"] = stats["completed"] + stats["failed"]
                           + stats["cancelled"] + Cardinality(pending)
    /\ stats["rejected"] = Cardinality({d \in Deliveries : fact[d] = "rejected"})

(* An event is released (its waiters wake, pending count 0) exactly when   *)
(* none of its deliveries is outstanding.                                  *)
PendingCountMatches ==
    \A e \in Events :
        pendingCount[e] = Cardinality({d \in pending : EventOf[d] = e})

(* stop reports completion only when nothing is left, neither an accepted  *)
(* delivery nor a handler nor a consumer, and that stays so.               *)
CompleteIsFinal ==
    lastStop = "complete" =>
        /\ pending = {} /\ active = NoDelivery /\ consumer = "absent"
        /\ \A d \in Deliveries : task[d] = "none"

(* The deliveries that a flush has reported, is about to report, or still  *)
(* has to report.                                                          *)
Returning   == {f \in Flushers : flush[f].at = "returning"}
Reported    == acked \cup UNION {FlushReport(f) : f \in Returning}
Accountable == settled \cup Reported

(* "Retained until a successful flush" (event_loop.py:56): a settled fact  *)
(* is either still waiting for a flush to report it, or in the report of a *)
(* flush that succeeded or is about to.                                    *)
FlushLosesNothing == {d \in Deliveries : fact[d] \in Settled} \subseteq Accountable

(* The one way in which a settled fact escapes every report is a flush cut *)
(* off in its gather, with the report in hand.  Overlapping barriers, ones *)
(* abandoned while they wait, later admissions, withdrawals, rejections    *)
(* and direct deliveries lose none, on any interpreter (flush).            *)
OnlyCutFlushLoses ==
    [][\A d \in Deliveries : (fact'[d] \in Settled /\ d \notin Accountable') =>
          \/ fact[d] \in Settled /\ d \notin Accountable
          \/ \E f \in Returning : d \in FlushReport(f) /\ flush'[f].at = "idle"]_vars

(* What a flush reports is final: nothing that was outstanding when it was *)
(* called is still queued or running when it returns, whatever is admitted *)
(* or withdrawn meanwhile.                                                 *)
ReportsAreFinal ==
    \A d \in Reported : fact[d] \in Settled

(* A settled fact never changes, and the handler of a settled delivery is  *)
(* never entered afterwards: "Queued deliveries settle immediately and     *)
(* will never run" (base.py:290).                                          *)
SettledIsFinal ==
    [][\A d \in Deliveries : fact[d] \in Settled =>
          fact'[d] = fact[d] /\ (invoked'[d] => invoked[d])]_vars

(* Whatever is accepted while the consumer is in its loop, or before it    *)
(* enters it, settles: no wake-up is lost between the consumer's test of   *)
(* the queue and its sleep, and cancelling the consumer settles the rest.  *)
EveryAdmissionSettles ==
    \A d \in Deliveries :
        (d \in pending /\ consumer \notin Ended \cup {"created"}) ~> d \notin pending

(* A flush called while the consumer lives ends: later admissions do not   *)
(* move its barrier, and a withdrawn delivery does not leave it waiting.   *)
FlushEnds ==
    \A f \in Flushers :
        (flush[f].at = "waiting" /\ consumer \notin Ended \cup {"created"})
            ~> flush[f].at = "idle"

(* A stopped loop ends: the stop reaches a consumer that sleeps as well as *)
(* one that runs a handler.                                                *)
StopEndsConsumer == (stopping /\ consumer # "created") ~> (consumer \in Ended)

(* The loop implements the abstract line of deliveries.                    *)
Abstract == INSTANCE SerialDelivery
    WITH line <- queue, current <- active
ImplementsSerialDelivery == Abstract!Spec
=============================================================================
