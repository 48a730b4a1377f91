# A verification of agent-cdp's runtime

agent-cdp is an asyncio event system for browser automation. A *scope* receives
events and delivers them to connected handlers, at once (DIRECT) or through the
scope's serial queue (QUEUED). Its contract (`docs/event-lifecycle-spec.md`,
`docs/migration-0.5.md`) is about order, finality, cancellation, budgets and
cleanup: what is hard to test, because it depends on which task runs between two
awaits. This directory holds TLA+ models of that runtime, the TLC runs that check
them and the TLAPS proofs about them. Sources below are relative to
`src/src/agent_cdp/`.

`EL` is `scope/event_loop.py`, `SC` is `scope/scope.py`, `BA` is `events/base.py`.

## 1. Inventory

| component | state it keeps | operations | what is hard |
|---|---|---|---|
| **Scope event loop** (`EL`) | queue, `_pending`, `_active`, `_running`/`_stopping`, `_wake`, consumer task, counters, `_settled_since_flush` | `enqueue`, `direct_started/finished`, `_run`, `_execute_handler`, `_cancel_delivery`, `start`, `stop`, `flush` | one consumer against many callers; cancellation from five sides; budgets; barrier and checkpoint |
| **Event records** (`BA`, `events/result.py`) | one record per receiver, `_pending_count`, `_changed`, cancel callbacks | `record_result`, `_mark_running`, `cancel_execution`, `wait` | the first final fact wins; waiters miss no change; validators that call back |
| **Dispatch** (`SC`: `emit`, `_dispatch_direct`) | none of its own; context variables for the current event and depth | `emit`, `emit_and_wait` | user code runs inside the loop over receivers; consume, FAIL_FAST and rejection stop it half way |
| **Connection storage** (`SC`, `connection/connection.py`) | connections by type, catch-all list, match cache and negative cache with a version | `connect`, `disconnect`, `connect_all` | stale cache entries; disconnection during dispatch |
| **Scope close** (`SC`: `close`) | `_closed`, `_is_closed`, `_close_lock`, `_close_callbacks`, `_cleanup_tasks` | `close`, `add/remove_close_callback` | overlapping calls with different budgets; cleanup tasks that outlive the call; retries after partial failure |
| **Scope group** (`scope/group.py`) | `_scopes` by id | `create_scope`, `close_scope`, `close_all`, `broadcast`, `connect_all_scopes` | a table updated after an await; one failing member |
| **Paused target** (`bridge.py`) | `_resumed`, `_attempt` | `resume`, context exit | callers share one attempt; late acknowledgement; cancelled callers |
| **CDP bridge** (`bridge.py`) | registrations, hit counts, `_closed` | `bridge`, callback, `close` | partial unregister; callbacks after close |
| **Event waiter** (`advanced/expect.py`) | future, connection, timer | `receive`, `expire`, `close`, `await` | four parties settle one future |
| **Watchdog bindings** (`_watchdog_registry.py`) | connections, cleanup callbacks, `closed` | `track_binding`, `detach`, `close` | partial failure and retry |
| **Contracts and aggregation** (`events/contracts.py`, `aggregation.py`) | none | validation and folds over records | pure functions |
| **CDP client** (`../../demo/cdp_client.py`) | `_msg_id`, `_pending` futures, callbacks by method, the receiving task, `_connected` | `connect`, `send`, `_recv_loop`, `on_event`/`off_event`, `close` | calls that end by answer, timeout, error or cancellation share one table; callbacks that change the list they are called from |
| **Demo programs** (`../../demo/*.py`) | what `main` holds: Chrome, client, Playwright, scopes | one long coroutine each, with except and finally clauses | every error and Ctrl-C must lead to the release of what is held |
| **Demo watchdogs** (`../../demo/watchdogs.py`) | connections, a bridge | handlers that send commands | a handler that must answer while another waits |
| slow-handler monitor, event log, timeout helper, registries, demo output and timing | – | logging, files, import-time tables | nothing another part reads |

How they interact. `emit` selects connections, writes a record for each on the
event, runs DIRECT handlers inline and hands QUEUED ones to the target scope's
`enqueue`. The loop runs them one by one, writes their outcome on the event, and
lowers the event's pending count, on which `wait` sleeps. `cancel_execution` on
the event calls back into the loop. `close` ends the input, calls what bridges,
waiters and bindings registered with `add_close_callback`, then calls the loop's
`stop`. The group calls `close` of many scopes at once. A CDP message comes in
through the client, whose receiving task calls the callbacks of bridges; each emits
an event on its scope. The other way, queued handlers send commands through the same
client while the main task of a program sends its own.

What makes each component correct:

* loop: one handler at a time, in admission order; an interrupted handler ends
  before the next begins and is interrupted once; a settled fact is final; every
  accepted delivery settles; the counters add up; a flush is a fixed barrier and
  reports each fact; `stop` tells the truth about what is left.
* records: status, pending count and the loop's tables agree; waiters wake exactly
  when nothing is outstanding.
* dispatch: each selected receiver gets exactly one final fact however the loop
  over receivers ends; the set of receivers is the one the connections justify.
* close: every resource is released once or kept for a retry; completion means
  that nothing is left; every call keeps its budget.
* group: no scope is lost before it is finished, none kept after.
* paused target: one attempt at a time, callers agree on it, the budget holds.
* connections: each look-up finds what the tables say at that moment; a finished
  scope is linked to nothing.
* waits: no change is missed, success is complete, and a circle of handlers ends.
* bridges, waiters, bindings: nothing leaves its scope before it is released, however
  often a release fails; a place has one watchdog; a waiter that can be answered is armed.
* client and programs: the table of calls is exact; a finally clause that runs to its
  end leaves nothing behind; every run ends.

The places where each of these could go wrong, by source line and with the
property that would show it, are the `hazards` of `PROJECT.json`.

## 2. Modules

| module | models | role |
|---|---|---|
| `ScopeEventLoop` | the loop, its consumer and handler tasks, timers, callers, `start`/`stop`, `flush` | detailed specification |
| `SerialDelivery` | what the loop promises: one line of deliveries | abstract specification, implemented by `ScopeEventLoop` |
| `ScopeClose` | `EventScope.close` with its lock, cleanup tasks and budgets | detailed specification |
| `ScopeLifetime` | what `close` promises its callers | abstract specification, implemented by `ScopeClose`, relied on by `ScopeGroup` |
| `ScopeGroup` | the table of scopes and the tasks that create and close them | composition over `ScopeLifetime` |
| `PausedTarget` | `PausedTarget.resume` and its shared attempt | detailed specification |
| `MatchCache` | connection tables of scopes, match cache, negative cache | used by `EmitDispatch` |
| `EmitDispatch` | `emit` and everything its receivers may do in the middle of it | detailed specification, extends `MatchCache` |
| `EventWait` | `wait_for_results`, the receiver contract, the self-wait test | detailed specification |
| `OwnedResources` | bridges, expect waiters, watchdog bindings, the client's callbacks, over closing scopes | composition of five components |
| `CDPClient` | numbered calls over one socket, the receiving task | used by `DemoSession` |
| `DemoPrograms` | the programs of `demo/` as sequences of steps | data of `DemoSession` |
| `DemoSession` | one run of any of these programs, its handlers and tasks, Chrome, Ctrl-C | composition over `CDPClient` |
| `MC*` | small instances for TLC | constants and symmetry only |
| `ScopeEventLoopProofs`, `ScopeCloseProofs`, `ScopeGroupProofs`, `PausedTargetProofs`, `EmitDispatchProofs`, `EventWaitProofs`, `OwnedResourcesProofs`, `DemoSessionProofs` | | theorems, one module for each specification |

In every module an action is what one asyncio task does between two awaits: the
event loop is single threaded and switches nowhere else. Where a task does several
things without awaiting, the model either makes one action of it or gives the task
a program counter at which everybody else is disabled (`Yielded` in
`ScopeEventLoop`). Definitions introduced by a comment "Variant" are never part of
a specification: they are plausible mistakes in the definition that follows them,
used to show that the properties can fail.

### ScopeEventLoop and the code

A *delivery* is one (event, connection) pair. `emit` refuses a pair that already
has a record (`SC` 235-241), so a delivery is admitted once, and its identity can
stand for `_Delivery`. Variables carry the names of the code: `queue`, `pending`,
`sequence`, `active`, `running`, `stopping`, `wake`, `settled` are `_queue`,
`_pending`, `_sequence`, ...; `fact` is the status on the event's record,
`capacity` is `queue_maxsize`, chosen once from `Capacities`, `cancelSent` and `timedOut` are `_Delivery` fields, `pendingCount` is
`BaseEvent._pending_count`. `task[d]` is the asyncio task of a handler; `consumer`
is the program counter of `_run`/`_execute_handler`; `flush[f]` and `stopper` are
the locals of suspended calls.

| action | code |
|---|---|
| `Admit`, `Reject` | `emit` of a queued receiver and `enqueue`, with room or without |
| `Direct` | `_dispatch_direct` with `direct_started`/`direct_finished` |
| `CancelExecution` | `BaseEvent.cancel_execution` and the callback into `_cancel_delivery` |
| `ConsumerEnter`, `ConsumerDiesUnentered`, `Sleep`, `Awake`, `RunEnds`, `TakeNext` | `_run` |
| `IdleInterrupted`, `ExecInterrupted`, `Unwind`, `CancelConsumer` | the consumer task is cancelled, asleep or supervising; its clean-up |
| `Collect` | the end of `_execute_handler`: outcome, record, `_finish` |
| `HandlerEnter`, `HandlerExit`, `Expire` | `invoke` and the execution budget's timer |
| `Start`, `Close`, `Stop`, `StopReturn`, `StopTimeout`, `StopAbandoned` | `start`, the closed flag, `stop(drain, timeout)` and its three ends |
| `FlushNothing`, `FlushBegin`, `FlushSettle`, `FlushReturn`, `FlushAbandoned` | `flush` |

Handlers are arbitrary: they return, raise, end cancelled, or run for ever, and
may ignore an interrupt. `ResultOf` gives the statuses `record_result` can make of
an outcome (a returned value may still fail its contract). `Retained` states what
the drain-and-refill of `_cancel_delivery` leaves in the queue, without the loop
that computes it. The history variables `invoked`, `interrupts` and `acked` are
read by properties only, with one exception: `HandlerEnter` and the fairness read
`interrupts` as asyncio's "a cancellation is pending on this task".

### ScopeClose, ScopeLifetime and ScopeGroup

`ScopeClose` has one program counter per closer: waiting in line for
`_close_lock` with or without a budget, waiting for the cleanup tasks, waiting in
the loop's `stop`. `locked` and `line` are asyncio.Lock: `release` clears the flag
and wakes the first in line, which takes the lock when it runs; a newcomer in
between queues behind it. `Pass` is the loop over the callbacks (no await inside):
each succeeds, raises, or returns an awaitable and gets a task. `Collect` is what
follows `asyncio.wait`, `Conclude` what follows `stop`. `Unregister` is the owner
that closes its bridge, waiter or binding itself. A call that gives up waiting for the lock
leaves the line from wherever it stands (`Without`). The event loop is seen from
outside (`loop`: open, stopping, ended); that it may be, is what `CompleteIsFinal`
and `StopEndsConsumer` say of `ScopeEventLoop`.

`ScopeGroup` keeps for each scope only the phase of `ScopeLifetime` and lets a call
of close end as that specification allows, so its result holds for every scope
that implements it; `ScopeClose` does (`ImplementsLifetime`).

### PausedTarget

`attempt` numbers the `_ResumeAttempt`s; a caller of `resume` begins one, joins the
current one, is told its failure, or returns at once. The CDP command is external:
it returns, raises, is cancelled, or ignores its cancellation. When a caller that
waited runs again, one step decides between answer and timeout, because
`asyncio.wait` looks at the task at that moment and not when its timer fired.

### MatchCache, EmitDispatch and the code

`listed` and `incoming` are the scope's connection tables, `remembered` is
`_match_cache` with the version each entry was made at, `negative` and `negVersion`
are the negative cache. `LookUp` is what a look-up answers, from a cache or from the
tables; `Matching` is what the tables alone say. Tables and answers are sets; their
order is worked out where `emit` goes through an answer: `Arranged` is the order of the
code's stable `sorted` (priority, then the place of the type in the MRO), except that
connections of one list with one priority go in any order, where the code keeps that of
their creation. The model so has more behaviours than the code, and what holds of it does not
depend on the tie.

`emit` has no await, but a DIRECT receiver is user code, so one emit is many steps:
`stack` holds the emits under way, the innermost last, each with the receivers it has
selected and how far it has come. While the top of the stack is inside a receiver
(`UserRuns`), that receiver may connect, disconnect, consume, cancel or emit, the event
being dispatched included. Tasks (`LoopStarts`, `LoopSettles`, `BeginClose`,
`FinishClose`) run only when the stack is empty.

| action | code |
|---|---|
| `Connect`, `Disconnect` | `connect`, `connect_all`, `disconnect`, with both scopes' tables (`AddConnection`, `RemoveConnections`) |
| `Emit` | `emit` up to its loop: look-up and both caches, filters, the ValueError of a repeated receiver, the records |
| `CallDirect`, `DirectReturns`, `Enqueue`, `Onward` | the loop over the receivers: DIRECT, queued or refused, consume, FAIL_FAST |
| `Leave`, `Back` | the finally clause, the error of a non-droppable event, the return |
| `CancelExecution`, `Consume` | the same methods of the event |
| `LoopStarts`, `LoopSettles` | the target's event loop, seen from outside (inside: `ScopeEventLoop`) |
| `BeginClose`, `FinishClose` | `_closed` set; the disconnections and `_is_closed` at completion (`SC` 560-570) |

### EventWait and the code

`status` is the record of each delivery, `required` is `_required_ids`, `refused` is
`_preflight_error`. `Emit` is what dispatch does to them: the contract's preflight
first, then some receivers queued and the others settled at once. `Wait` and
`LookAgain` are one turn of the loop of `wait_for_results` (`Look`); between two turns
a waiter sleeps on `_changed`, and `woken` is that signal as this waiter holds it, so
that a change after the look and before the sleep is kept. `Notify` stands at every
place where the code notifies. `SelfWait` is the test before SelfWaitError (`BA` 475-487), `Success` what
`check_success` and the aggregations accept. `Host` ties a waiter to a handler:
while it sleeps the handler cannot end and its scope takes nothing else.

### OwnedResources and the code

`owned` is `_close_callbacks` of each scope, `handlers` the client's list of callbacks,
which a message goes through by position (`cursor`), `inside` the bridge whose
callback is running, `asking` the waiter whose predicate is. All user operations may come in the middle of a message, from a
receiver of the event a bridge emits.

| action | code |
|---|---|
| `OpenBridge`, `CloseBridge`, `CallBack`, `CallBackReturns` | `bridge`, its `close`, its callback and what it emits |
| `Expect`, `Ends` (inside `EmitOn`), `Expire`, `CloseWaiter`, `CancelAwait` | `expect`, `receive`, `expire`, `close`, cancellation of `await` |
| `Attach`, `Detach` | `track_binding`, `detach` and the attach that detaches first |
| `AskPredicate`, `PredicateAccepts`, `PredicateWithoutMatch` | `include` and `exclude` as user code inside `receive`, which may end the waiter before `set_result` |
| `Receive`, `MessageDone` | the client's dispatch of one message |
| `BeginClose`, `FinishClose` | `close` of the scope: callbacks called, those that fail kept, until none is left |

`Release` is the common close: `ok` says for which bridges the client takes the
callback off its table and for which it raises; what is left of the client's list keeps
its order (`TakenOff`). A bridge that is refused stays with
its scope (`Stuck`), an attachment around it stays open (`Half`), and either may be closed again.

### CDPClient, DemoPrograms, DemoSession and the code

`CDPClient` is `demo/cdp_client.py` without its callbacks: a call takes the next
number and enters the table (`Send`), is written or not, is answered, times out, or is
cancelled, and leaves the table in every case (`End`, `Abandon`). `DemoPrograms` is a
table: for each program its body and its finally clause, as steps with the tabs they concern
and the errors the surrounding except clause takes. `DemoSession` runs them: one action per kind of step,
`Throw` for an error that is caught or leaves the part, `HandlerSends`/`HandlerDone` for
handlers and tasks, `Interrupt` for a KeyboardInterrupt turned into the
cancellation of `main`, `Shutdown` for what `asyncio.run` does after it.
`disturbed` is a history variable read by one property only.

`DemoPrograms` also states what can be told from the text of a program (`ProgramsAssumption`):
`Tidy` that the finally clause only closes and releases, that it releases what the body may
start, and that what the body creates is closed further on; `Orderly` that no step needs a scope or a
connection that the text before it has closed or not made. These are finite facts about a
finite table. TLC evaluates them before each run; the proofs start from them.

## 3. Runs

`tlc -workers 2 -config X.cfg M` in this directory.

| run | cfg | bounds | shows |
|---|---|---|---|
| `loop_safety` | EventLoopSafety | 3 deliveries, 2 events, a queue without a limit and one of length 1, a budget on one | the safety of the loop, and that it implements `SerialDelivery` |
| `loop_flush` | EventLoopFlush | 2 deliveries, 2 flushing tasks, Python 3.11's gather | *violation*: finding 3 |
| `loop_progress` | EventLoopProgress | 2 deliveries with budgets, 1 flushing task, a queue of length 1, Python 3.11's gather | a flush ends, reports final facts, and loses none unless it is cut off while it returns; no wake-up is lost, a stop arrives |
| `paused_target` | PausedTargetSafety | 3 callers, 2 attempts | the shared attempt, and that every call returns |
| `scope_close` | ScopeCloseSafety | 2 closers, 3 calls, 2 resources | the close protocol, with budgets kept, implements `ScopeLifetime` |
| `close_budget` | ScopeCloseBudget | 3 closers, 3 calls, 1 resource, one closer whose budget ends | *violation*: finding 1 |
| `scope_group` | ScopeGroupSafety | 3 tasks, 2 names, 3 scopes, names used once | the table neither loses nor keeps a scope |
| `group_reuse` | ScopeGroupReuse | the same, names used again | *violation*: finding 2 |
| `emit_dispatch` | EmitDispatch | 2 events of a type and its subtype, 3 receivers (DIRECT, queued to another scope, filtered catch-all), 2 scopes, emits nested 2 deep | the caches are current, every receiver is accounted for (2.0 million states) |
| `event_wait` | EventWait | 2 events with a receiver on each of 2 scopes, waiters in a handler of either and in a child task, one with a budget | no lost wake-up, success is complete, every wait ends |
| `owned_resources` | OwnedResources | 2 scopes, 2 bridges (one of them an attachment's), 2 waiters, 3 attachments, 2 messages | nothing escapes its scope, one watchdog per place, a pending waiter is armed |
| `demo_session` | DemoSession | 11 programs, up to 3 tabs and 2 tasks, one Ctrl-C | what a program started is released, and every run ends |

Every property of a passing run is also run against a variant of one definition
(`mutants` in `PROJECT.json`), which TLC must find to break it.

**Why the bounds are enough.** Three deliveries are needed for one to run while
another is withdrawn in front of a third; a fourth would only repeat those roles.
Two of the three belong to one event, which is what pending counts and
`cancel_execution` tell apart. `Capacities` are the lengths the queue may have:
`loop_safety` takes it unbounded, so that three deliveries fit, and of length one, where
the second admission finds it full and a withdrawal makes room again; the proofs hold
for every capacity. Two flushing tasks are the least that could take facts from each
other: `loop_flush` has them up to its violation, `CheckpointCorrect` and
`ReportsCorrect` are proved for any number, and `loop_progress` has one, with which
liveness stays small enough. The runs with liveness use two deliveries: a
lost wake-up needs one delivery that puts the consumer to sleep and one that
should wake it. Two closers with three calls include a holder, a waiter and a
newcomer in the gap between release and wake-up; two resources allow one to
succeed while the other fails or hangs. Of the callers of `resume`, one begins,
one joins and one is cancelled. `MaxCalls` and `MaxAttempts` cap calls of close
and attempts; nothing else is unbounded, since a delivery is admitted once.

In `emit_dispatch` the DIRECT receiver is the only one that can act in the middle of an
emit, the queued one can be refused or outlive it, the catch-all one is chosen by its
filter; the subtype has two types to look under, and the second level of nesting is
where the event above is emitted again or disconnected from. Its second
scope is a target and closes at its own time. Each event is emitted on the one scope
that has connections (`EmittedOn`). In `event_wait` two scopes and a waiter in
each are the smallest circle of waits; the child task is the waiter that outlives its
handler. In `owned_resources` one place gets a watchdog twice, with and without a
bridge, and another scope has a third; two messages let one be dispatched
over a table the other has changed. `DemoPrograms` cuts repetition only: three tabs to two or three,
as many tasks, one or two rounds of each operation. A program is one
long sequence, so a further round would reach the same states of client and scopes.
Message numbers start again when no call is in flight, since they are only compared.

Deadlock is not checked where everything may have ended for good (a closed scope,
a resumed target, a settled event, a program that is over).

**Fairness.** asyncio keeps a first-in first-out queue of ready callbacks, and
runs every due timer; so a task that stays able to run, runs: weak fairness of the
consumer, of `StopReturn`, of entering a handler, of timers, of closers and of
callers of `resume`. A flush whose barrier is done is on the ready queue although
other tasks hold the thread in between: strong fairness of its own two steps.
That a handler ends *after it has been interrupted* is assumed, as cooperative
cancellation is the library's contract for handlers; nothing is assumed of one that
nobody interrupts, of CDP commands, of cleanups, nor, in `ScopeClose`, of the loop.
In `EventWait` a scope goes on with its queue, a handler that does not itself wait
ends, a woken waiter runs and a budget's timer fires; the circle of waits is broken by nothing
else. In `DemoSession` the main task, handlers and calls run, and the timer of a
call fires after its 30 s; the browser answers nothing that it does not want to.
A write that blocks ends, because the websockets library closes a connection that does not
answer its keepalive pings.
`Hasty` names the closers whose budget is known to end.

## 4. Properties

*Loop.* `QueueIsWaiting`: a withdrawn delivery leaves its slot at once, and
nothing else does. `OneHandler`: no cancellation, close or restart orphans
a handler. `RecordsAgree`: what the event shows is where the loop has it.
`InterruptedOnce`: budget, caller, close and cancelled consumer interrupt one
handler once, and `cancel_requested` is not an empty claim. `SettledIsFinal`: facts
never change and a settled delivery never runs. `StatsConserve`,
`PendingCountMatches`: the counters account for each delivery once.
`CompleteIsFinal`: a stop that says complete left nothing. `ReportsAreFinal`,
`FlushEnds`: the flush contract. `FlushLosesNothing` is the rest of it as the code
states it, which finding 3 breaks; `OnlyCutFlushLoses` says that this is the one way
to lose a fact: timeouts, a cancellation while the flush waits, overlapping flushes and
withdrawals lose none. `EveryAdmissionSettles`,
`StopEndsConsumer`: progress. `ImplementsSerialDelivery`: refinement, which carries
admission order.

*Close.* `CompleteMeansClean`, `CleanedUpOnce`, `NothingForgotten`: a complete close
has left nothing, no cleanup is called twice, and one that failed is kept.
`BudgetKept`, `ImplementsLifetime`.
*Group.* `UnfinishedReachable`, `FinishedLeaves`.
*Paused target.* `OneAttempt`, `VerdictsAgree`, `OriginalError`, `EveryCallReturns`.

*Dispatch.* `CacheCurrent`: whatever came before, a look-up answers what the tables say.
`ReceiversAccounted`: a delivery without a final status is held by exactly one emit or
one event loop, although receivers raise, consume, disconnect one another and emit the
same event again. `NoSilentDrop`: an emit of a non-droppable event that
returns was refused nowhere. `FinishedUnlinked`: a finished scope is in no table.

*Waiting.* `NeverSleepsOnSettled`: no wake-up is lost. `SuccessIsComplete`: an answer of
success covers the receivers of an emit made during the wait, too.
`EveryWaitEnds`: handlers that wait for each other's scope are freed by one budget.

*Owned resources.* `RetainedUntilReleased`: what is still in the client's table, connected or
timed is still registered with its scope. `FinishedHoldsNothing`: a finished scope has
none of it, and no waiter that waits for ever. `OneListener`: attach after a failed
detach does not double a watchdog. `ArmedWhilePending`: a waiter
whose future is pending has its connection, its close callback and its timer, so something
can still end it, and one that is answered has left none of them behind, although its
predicate may have ended it in the middle of a match.

*Client and programs.* `PendingIsInFlight`: the table holds the calls that have no answer
yet, and no other. `Released`: a finally clause that is not cut short releases all
that `main` knew of. `UndisturbedSucceeds`: no step uses what an earlier one closed or has
not made. `EveryRunEnds`.

`EveryAdmissionSettles`, `FlushEnds` and `StopEndsConsumer` start from a consumer
that has entered its loop: one that is cancelled before its first step never runs
the clean-up of `_run` (`ConsumerDiesUnentered`), leaves `_running` set, and
admissions wait until the scope is closed. The code promises nothing about that.

## 5. Findings

1. **close can overrun its budget** (`SC` 512-518, `close_budget`). `locked()` is
   False while the lock is on its way to a woken waiter, so a third call takes the
   branch without a timeout and queues behind it.
2. **a group can lose an open scope** (`scope/group.py` 62, `group_reuse`). Two
   calls close one scope; a new one takes the name when the first returns; the
   second call pops the name, and with it the new scope.
3. **a cancelled flush can lose the facts it took** (`EL` 335-347, `loop_flush`). `flush`
   pops the settled facts, then awaits a gather in its finally clause. On Python 3.11, which
   `pyproject.toml` supports, a gather of finished tasks suspends once more (`GatherYields`; from
   3.12 on it does not): a caller cancelled there gets no report, and no later flush has those
   facts, which line 56 calls "retained until a successful flush". The run needs six states:
   an admission, a flush, a withdrawal, the barrier, the cancellation. Behaviours of later
   versions are those in which `FlushReturn` follows `FlushSettle` at once; the proofs have both.

Findings 1 and 3 were also seen by running the methods with small asyncio programs, 3 on
Python 3.11.6.

**Observations.** Met while modelling, at their lines, where the repository says nothing
a run could contradict; those that are modelled are part of the models' behaviour.

*Event loop and events.*
* A budget of `flush` that ends just as the last delivery settles reports a timeout with
  nothing pending.
* `record_result` reads the existing record before it runs validators, and writes after
  them (`BA` 321); a validator that calls back into the event is overwritten.
* `cancel_execution` from an earlier DIRECT receiver does not reach later queued receivers
  of the same emit, which are not yet with a loop (`BA` 290).
* A BaseException in a DIRECT receiver leaves its record running.
* A consumer cancelled before its first step leaves the loop marked as running.

*Dispatch and scopes.*
* `consumed` stays set: the event emitted again, or on another scope, stops after its
  first receiver.
* The depth counter is a context variable, which tasks made in a DIRECT receiver inherit.
* A task made in a DIRECT receiver of a queued handler escapes the self-wait test.
* Handlers of two scopes that wait for each other are freed by budgets only.
* A target whose last reference disappears during dispatch turns AUTO into DIRECT.
* `broadcast` raises at a scope that is closing, and the later ones get nothing
  (`scope/group.py` 104), although the repository's README says of a closed tab that the
  remaining scopes go on (README.md 553). `close_all`
  raises KeyError when a scope has gone meanwhile.
* A predicate of `expect` that itself triggers a match settles the future twice
  (`advanced/expect.py` 50, InvalidStateError; `PredicateWithoutMatch`).
* A caller of `resume` cancelled after another one has seen the acknowledgement puts its
  CancelledError on the attempt (`bridge.py` 184): `resumed` is True, `resume_error` set.

*Client.*
* `is_connected` stays True when the receiving loop ends, normally or by an undecodable
  frame (`demo/cdp_client.py` 31); calls in flight then end by their timeout, not at once.
* `close` swallows a cancellation that arrives while it awaits the receiving task, and
  raises that task's decode error before it closes the socket.
* `off_event` during the dispatch of a message skips the next callback (157).

*Programs.*
* `except (TimeoutError, RuntimeError)` does not take the socket's ConnectionClosed
  (`multi_tab.py` 355, `bench.py` 296, `bench_optimizations.py` 155 and 292).
* An error in a finally clause skips the rest of it, `kill_chrome` included (`cut`).
* `real_xhs.py` has no finally clause; `main`, `verify_diagnostics`, `bench` and
  `bench_optimizations` do not close their group after a failure.
* Chrome or Playwright being started when Ctrl-C comes is left running (`orphaned`).
* `CrashWatchdog`'s bridge and the `on_load` of two benchmarks have no session filter.

## 6. Proofs

For every value of the constants: any sets of deliveries, events, scopes, connections,
closers, waiters and resources, every capacity, any number of tasks, calls and attempts.
`tlapm M.tla` checks a module. The assumptions are the named `ASSUME`s of the
specifications, which TLC evaluates on every run: finitely many deliveries, each of one
event; finitely many connections, each with a source and a type; the
kinds of resources are disjoint; the programs of the demos have the text described in section
2; the values for "nothing" are none of the rest. One theorem has a hypothesis besides:
`UnfinishedStay`, that no name of a group is used twice (`ReuseIds = FALSE`); `group_reuse`
shows that it cannot go.

Every specification also has a `TypeCorrect`. The strengthened invariants were checked by TLC on the instances of the runs
before they were proved.

**Event loop** (`ScopeEventLoopProofs`).

* `TypeCorrect` is inductive by itself. Its content is that counters that go down
  (`Less`) stay natural and that the filtered queue is a sequence again
  (`RetainedFacts`).
* `SerialInv` carries the loop's safety: `QueueIsWaiting`, `SerialOrder` and
  `RecordsAgree`, with `TasksOfActive` (a handler task belongs to the active
  delivery, and the active one is outstanding), `NumbersBounded` (no number
  exceeds the sequence, which keeps an append in order), `Supervised`
  (there is an active delivery exactly at the consumer's supervising points) and
  `StopperReturning`. The queue properties are not inductive alone: that the
  consumer finds the head of its queue outstanding needs the records, and that an
  admission keeps the order needs the numbers. From it follow `QueueCorrect`,
  `OrderCorrect`, `SerialCorrect`, `RecordsCorrect`.
* `InterruptInv` adds that `cancelSent` and `interrupts` move together, and gives
  `InterruptCorrect`.
* `FinalityCorrect`: each action that writes a fact looks for the opposite of what
  `SerialInv` says of a settled delivery.
* `CompletionCorrect` from `CloseInv`: only a closed scope is stopped, so nothing
  is admitted or started after a stop has reported completion.
* `StatsCorrect`, `PendingCountCorrect` from `CountInv`: cardinalities under
  adding one delivery and taking a set out, for the four ways a delivery leaves.
* `ReportsCorrect`, `CheckpointCorrect`: all other actions are `Ordinary` (numbers
  only get larger, settled facts only more, an outstanding delivery becomes
  settled or stays), which preserves `ReportInv` and `CheckpointInv`; the five
  flush actions are then the only cases. The strengthening: what a waiting flush will drop
  by number when its barrier is done, it noted when it was called, as settled or as
  outstanding, so it is in its report. Each flush is described by itself, so nothing an
  overlapping one takes off or loses disturbs it. Neither theorem depends on `GatherYields`.
* `LoopImplementsLine`: every step of the loop is one of `SerialDelivery` or leaves
  queue, active delivery and facts alone; withdrawals of several deliveries at once
  are one abstract `Withdraw`.

**Close** (`ScopeCloseProofs`). `CloseInv` has three parts besides the types.

* `LockInv`: the line of the lock has each waiting call once and nobody else, and the lock is
  held exactly when one call works under it, never two. This is `LockHeldByOne`; it
  has to speak of the line, because `release` clears the flag and hands over in two steps,
  and a call whose budget ends in between must be gone from the line.
* `WorkInv`: what is registered, and what has a cleanup task, has not been cleaned up, and
  nothing is lost. From it `NoSecondCleanup` and `ResourcesKept`. Neither is inductive alone:
  a resource that is cleaned up while its cleanup task still runs would be cleaned up twice, and
  it takes the lock to know that only one call makes such tasks.
* `ReportInv`: nobody works on a finished scope, and a call that is under way has ended the
  input. From it `CompletionTrue`.

`ClosesAsPromised` is the refinement of `ScopeLifetime`: a call that ends is a `Leave` with the
same answer (`ReturnLeaves`), one that begins an `Enter` or a `Join` (`CallEnters`), and what happens under the lock
a stutter until `Conclude`, the only step that may finish the scope.

**Group** (`ScopeGroupProofs`). `GroupInv`: a scope is in the table under one id, and one that
a task is closing is there under the id the task has asked for or not at all. With it
`FinishedScopeLeaves` holds however names are used: the call that finished a scope, or one
that found it finished, removes it. `ReachInv` adds `OwnName`: under the id of a task that
closes, the table has the scope of that task or nothing. This is where names used once matter:
`UnfinishedStay` follows, since a call removes only what it has itself closed.

**Paused target** (`PausedTargetProofs`). From `AttemptInv` (earlier attempts have ended and
failed; an interrupt leaves an error behind; who was told of success was told of the latest
attempt) follow `OneAttemptCorrect`, `AttemptInterruptCorrect`, `VerdictsCorrect`,
`OriginalErrorCorrect`.

**Dispatch** (`EmitDispatchProofs`), for any scopes, connections, priorities, type hierarchy and
nesting.

* `CacheCorrect`: `CacheInv` says of each scope and type that a cached version is never ahead of the
  scope's, and that an entry of the current version equals what the tables say.
  `CacheCurrent` alone is not inductive: an entry that is old now could become current. All
  actions either leave the tables, or change them and raise the version of each scope they touch
  (`CacheConnect`, `CacheRemove`, `CacheLookUp`).
* `FinishedScopeUnlinked` from `LinkInv`: the lists of a scope and its incoming connections are
  exactly the active connections that start and end there. A scope finds what to disconnect when it
  closes in its own lists only, so they must be complete.
* `ReceiversHeldOnce` and `NothingDropped` from `DispatchInv`, over the stack of emits under way.
  `FrameInv`: an emit names each receiver once, and all emits but the innermost are inside a
  DIRECT receiver. `RecordInv`: what an emit has selected has a record, and two emits of the same
  event share no receiver; without it a nested emit of the event above could settle a receiver the
  outer one still holds. `HeldInv`: what an emit has not yet come to is open, and if it is not DIRECT,
  nobody has begun it. `OpenInv`: what is open is held by an emit or by an event loop. A
  receiver that cancels, consumes or emits again may change the records of any emit below it, so the
  invariant is about all of them at once; `TopStep` is the lemma that moves one position of the
  innermost emit and leaves the others.

**Waiting** (`EventWaitProofs`). `NoLostWakeUp` and `SuccessTold` from `WaitInv`: `RequiredInv` (a
receiver the contract names is required as soon as it has a record, and an event requires
receivers of its own only) and `SelectedInv` (a sleeper waits for deliveries of the event on whose
signal it sleeps; otherwise a change could settle it without waking it).

**Owned resources** (`OwnedResourcesProofs`), for any number of resources and messages, and
whatever the client refuses. `OneListenerCorrect` needs little more than the
shape of the tables. `RetainedCorrect` and `FinishedCorrect` come from `OwnedInv`: also a waiter
whose future is open is registered with its scope, and a finished scope has nothing registered and
no active connection. `ReleaseKeeps` is the common step: what a release takes off a scope's table is
what it has released. `ArmedCorrect`: a release disarms the waiters it names, an end those that
end (`ReleaseArms`, `EndsArms`), and neither touches the others; that a finished scope
disconnects no armed waiter needs `OwnedInv`.

**Demos** (`DemoSessionProofs`). `PendingCorrect`, for any callers and any program: `TableInv` adds
that the numbers of calls in flight differ and do not exceed the counter, and that a call
that is over has no answer left; without them one call's end could remove another's entry.

`ReleasedCorrect` and `UndisturbedCorrect` separate the text of a program from its runs: what the
text must have is `ProgramsAssumption`, what errors, Ctrl-C, handlers and the receiving task make of
it is proved, for any programs with such a text. `Moves` lists the ways main can go on (wait, pass
a step, fail, leave early, end a part). `ReleaseInv`: what main holds is released at or after the
step it is at, in the finally clause if there is one, and an open scope is closed there; a step
that releases tolerates no error, so it is never passed with its thing still held.
`CalmInv`, for as long as nothing outside has gone wrong: the socket is as the text says, no call
has failed, nothing is raised, and the scopes the text says are open are open, except those that
main is just closing. `UndisturbedSucceeds` is far from inductive: that no call fails needs that
nobody writes to a closed socket, which needs the position of main; a handler may
still do so after `disconnect`, and then its error must meet no step that would look at it.
`TypeCorrect` needs `BusyInv`: a caller with a call under way has an event, so that counting one down
when it ends stays in Nat.

`OrderCorrect` and `AttemptInterruptCorrect` state admission order and single interruption of
an attempt, which no run checks by itself.

Only model-checked: liveness (`FlushEnds`, `EveryAdmissionSettles`,
`StopEndsConsumer`, `EveryCallReturns`, `BudgetKept`, `EveryWaitEnds`, `EveryRunEnds`),
which is out of the prover's reach. Every invariant and action property of the passing runs
is a theorem. No module uses a RECURSIVE operator.

## 7. Not modelled

* Timings and their statistics, queue peak, the reasons and types of rejections, the
  slow-handler monitor, logging, the event log, the timeout helper, registries and
  exports: no other part reads them.
* The waiter tasks inside `flush` (a timeout that finds nothing pending), the
  inheritance of the depth counter, validators that call back.
* What the aggregations make of values (flat lists, dictionaries, conflicts):
  functions of one list of records without state. `EventWait` has which records they raise for.
* `PausedTarget`'s context manager: how it joins a resume error to the error of its body, and
  its re-entrance test. In `DemoSession` an error inside the context skips the resume command.
* `broadcast` and `connect_all_scopes`, which only call `emit` and `connect`, one scope after another.
* Of the demos: page scripts, measurements, reports, the LLM loop, the contents of
  events. The page load a benchmark waits for is a pause. The extra target
  `init_browser_session` creates when Chrome has no page is left out. Assertions that only the
  program itself could break (`main.py` 236-246, `verify_diagnostics.py` 219-221) pass; the one
  about a page that may be late (171-172) is a step. In a failing `close_all` the errors of
  the cleanup are one error, whatever they are.

## 8. Plan

Done: the loop with its abstract specification, the paused target, close,
lifetime and group, dispatch with the caches, waits, owned resources, client and programs;
the proofs of all safety properties.

Left, in this order:

1. Re-entrant validators in `record_result`, as a step of `EmitDispatch`.
2. The values of aggregations as operators against a reference definition.
