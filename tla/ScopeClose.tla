----------------------------- MODULE ScopeClose -----------------------------
(***************************************************************************)
(* EventScope.close (agent_cdp/scope/scope.py): concurrent callers close   *)
(* one scope under a lock.  The holder releases the resources bound to the *)
(* scope (bridges, waiters, watchdog bindings, the user's own), some of    *)
(* them in tasks that may outlive the call, then stops the event loop; all *)
(* of it within the budget of the call.  Any call may be cancelled.        *)
(*                                                                         *)
(* The loop is seen from outside: it is told to stop and some time later,  *)
(* or never, has ended (module ScopeEventLoop has its inside).             *)
(***************************************************************************)
EXTENDS Naturals, SequencesExt

CONSTANTS
    Closers,      \* tasks that call close
    Resources,    \* callbacks registered by add_close_callback
    Hasty,        \* closers whose budget is known to end
    MaxCalls      \* bound on the calls of close in one behaviour

ASSUME CloseAssumption ==
    /\ Hasty \subseteq Closers
    /\ MaxCalls \in Nat

VARIABLES
    closed,       \* _closed
    finished,     \* _is_closed
    locked,       \* _close_lock is held
    line,         \* the tasks that wait for _close_lock
    at,           \* where each closer is
    overdue,      \* the closer's budget is over
    failed,       \* the closer has collected a cleanup error
    result,       \* what the closer's last call came to
    registered,   \* _close_callbacks
    cleanup,      \* the task of each resource in _cleanup_tasks
    cancelling,   \* task.cancelling() of that task
    loop,         \* the event loop seen from outside
    calls,        \* history: number of calls of close
    succeeded,    \* history: resources whose cleanup succeeded
    withdrawn,    \* history: resources their owner has unregistered
    repeated      \* history: resources cleaned up a second time

lockVars  == <<locked, line>>
callVars  == <<at, overdue, failed, result>>
taskVars  == <<cleanup, cancelling>>
resVars   == <<registered, taskVars, succeeded, withdrawn, repeated>>
vars == <<closed, finished, lockVars, callVars, resVars, loop, calls>>

-----------------------------------------------------------------------------
(* A closer waits for the lock within its budget ("bounded") or without    *)
(* ("unbounded"), or it holds the lock and waits for the cleanup tasks     *)
(* ("cleaning") or in the loop's stop ("stopping").                        *)
Queued  == {"bounded", "unbounded"}
Holding == {"cleaning", "stopping"}
Results == {"none", "complete", "incomplete", "error", "cancelled"}

TaskEnds == {"returned", "failed", "cancelled"}

Busy      == {r \in Resources : cleanup[r] # "none"}
Ended(r)  == cleanup[r] \in TaskEnds
InLine(c) == \E i \in DOMAIN line : line[i] = c
Without(c) == RemoveAt(line, CHOOSE i \in DOMAIN line : line[i] = c)

Init ==
    /\ closed = FALSE /\ finished = FALSE
    /\ locked = FALSE /\ line = <<>>
    /\ at = [c \in Closers |-> "idle"]
    /\ overdue = [c \in Closers |-> FALSE]
    /\ failed = [c \in Closers |-> FALSE]
    /\ result = [c \in Closers |-> "none"]
    /\ registered = Resources
    /\ cleanup = [r \in Resources |-> "none"]
    /\ cancelling = [r \in Resources |-> FALSE]
    /\ succeeded = {} /\ withdrawn = {} /\ repeated = {}
    /\ loop = "open"
    /\ calls = 0

-----------------------------------------------------------------------------
(* The end of a call, with the lock in the caller's hands.                 *)
Return(c, outcome) ==
    /\ result' = [result EXCEPT ![c] = outcome]
    /\ at' = [at EXCEPT ![c] = "idle"]
    /\ overdue' = [overdue EXCEPT ![c] = FALSE]
    /\ failed' = [failed EXCEPT ![c] = FALSE]
    /\ locked' = FALSE

(* The callbacks one pass calls: registered, and without a task of their   *)
(* own from an earlier pass.                                               *)
(* Variant: that test is missing.                                          *)
CalledAll == registered
Called == registered \ Busy

(* The pass over the callbacks.  One succeeds at once and is removed, one  *)
(* raises and stays, one returns an awaitable and gets a task.             *)
Pass(c, how) ==
    LET sync  == {r \in Called : how[r] = "succeeds"}
        async == {r \in Called : how[r] = "awaits"}
    IN /\ registered' = registered \ sync
       /\ succeeded' = succeeded \cup sync
       /\ repeated' = repeated \cup (Called \cap (Busy \cup succeeded))
       /\ cleanup' = [r \in Resources |-> IF r \in async THEN "running" ELSE cleanup[r]]
       /\ cancelling' = [r \in Resources |-> cancelling[r] /\ r \notin async]
       /\ failed' = [failed EXCEPT ![c] = \E r \in Called : how[r] = "raises"]
       /\ UNCHANGED withdrawn

StopLoop == loop' = IF loop = "open" THEN "stopping" ELSE loop

(* What a closer does once it has the lock, up to its next await.          *)
Proceed(c) ==
    \/ /\ finished
       /\ Return(c, "complete")
       /\ UNCHANGED <<resVars, loop>>
    \/ /\ ~finished
       /\ \E how \in [Called -> {"succeeds", "raises", "awaits"}] : Pass(c, how)
       /\ locked' = TRUE
       /\ IF \E r \in Resources : cleanup'[r] # "none"
          THEN at' = [at EXCEPT ![c] = "cleaning"] /\ UNCHANGED loop
          ELSE at' = [at EXCEPT ![c] = "stopping"] /\ StopLoop
       /\ UNCHANGED <<overdue, result>>

-----------------------------------------------------------------------------
(* A call of close, up to its first await.  The bound on calls is MaxCalls.*)

Call(c) ==
    /\ at[c] = "idle" /\ calls < MaxCalls
    /\ calls' = calls + 1
    /\ closed' = TRUE

CallFree(c) ==
    /\ Call(c)
    /\ ~locked /\ line = <<>>
    /\ Proceed(c)
    /\ UNCHANGED <<finished, line>>

(* The lock is free but promised to a task that has not run yet: locked()  *)
(* says no, and acquire() waits without a budget.                          *)
WaitsAs == IF locked THEN "bounded" ELSE "unbounded"

CallBusy(c) ==
    /\ Call(c)
    /\ locked \/ line # <<>>
    /\ line' = Append(line, c)
    /\ at' = [at EXCEPT ![c] = WaitsAs]
    /\ UNCHANGED <<finished, locked, overdue, failed, result, resVars, loop>>

(* The first in line takes the lock.                                       *)
Acquire(c) ==
    /\ at[c] \in Queued /\ ~locked /\ Head(line) = c
    /\ line' = Tail(line)
    /\ Proceed(c)
    /\ UNCHANGED <<closed, finished, calls>>

GiveUp(c) ==
    /\ at[c] = "bounded" /\ overdue[c]
    /\ line' = Without(c)
    /\ result' = [result EXCEPT ![c] = "incomplete"]
    /\ at' = [at EXCEPT ![c] = "idle"]
    /\ overdue' = [overdue EXCEPT ![c] = FALSE]
    /\ UNCHANGED <<closed, finished, locked, failed, resVars, loop, calls>>

-----------------------------------------------------------------------------
(* Still with the lock: the cleanup tasks have ended or the time is over   *)

(* What is done leaves _cleanup_tasks; a failure is registered again, a    *)
(* success is not.                                                         *)
(* Variant: a cancelled cleanup counts as done.                            *)
RetriedFailures == {r \in Resources : cleanup[r] = "failed"}
Retried == {r \in Resources : cleanup[r] \in {"failed", "cancelled"}}

(* A cleanup task is cancelled once, whatever it makes of that.            *)
Lingering == {r \in Resources : cleanup[r] = "running" /\ ~cancelling[r]}

(* Variant: the wait has no budget.                                        *)
AllEnded(c) == \A r \in Busy : Ended(r)
CleanupOver(c) == overdue[c] \/ \A r \in Busy : Ended(r)

Collect(c) ==
    /\ at[c] = "cleaning" /\ CleanupOver(c)
    /\ LET done == {r \in Busy : Ended(r)}
       IN /\ registered' = (registered \ done) \cup Retried
          /\ withdrawn' = withdrawn \ Retried
          /\ succeeded' = succeeded \cup {r \in done : cleanup[r] = "returned"}
          /\ cleanup' = [r \in Resources |-> IF r \in done THEN "none" ELSE cleanup[r]]
    /\ cancelling' = [r \in Resources |-> cancelling[r] \/ r \in Lingering]
    /\ failed' = [failed EXCEPT ![c] = @ \/ \E r \in Resources : cleanup[r] = "failed"]
    /\ at' = [at EXCEPT ![c] = "stopping"]
    /\ StopLoop
    /\ UNCHANGED <<closed, finished, lockVars, overdue, result, repeated, calls>>

(* Variant: a stopped loop is enough.                                      *)
CleanWhenStopped == loop = "ended"
Clean == loop = "ended" /\ Busy = {} /\ registered = {}

(* Variant: a stopped loop is reported as completion.                      *)
AnswerWhenStopped(c) == IF failed[c] THEN "error" ELSE IF loop = "ended" THEN "complete" ELSE "incomplete"
Answer(c) == IF failed[c] THEN "error" ELSE IF Clean THEN "complete" ELSE "incomplete"

(* event_loop.stop comes back with the loop ended or the time over.        *)
Conclude(c) ==
    /\ at[c] = "stopping"
    /\ overdue[c] \/ loop = "ended"
    /\ finished' = Clean
    /\ Return(c, Answer(c))
    /\ UNCHANGED <<closed, line, resVars, loop, calls>>

(* The caller is cancelled, in line or with the lock in its hands.         *)
Cancel(c) ==
    /\ at[c] # "idle"
    /\ IF at[c] \in Queued
       THEN /\ line' = Without(c)
            /\ result' = [result EXCEPT ![c] = "cancelled"]
            /\ at' = [at EXCEPT ![c] = "idle"]
            /\ overdue' = [overdue EXCEPT ![c] = FALSE]
            /\ UNCHANGED <<locked, failed>>
       ELSE Return(c, "cancelled") /\ UNCHANGED line
    /\ UNCHANGED <<closed, finished, resVars, loop, calls>>

-----------------------------------------------------------------------------
(* Around the calls                                                        *)

Expire(c) ==
    /\ at[c] # "idle" /\ ~overdue[c]
    /\ overdue' = [overdue EXCEPT ![c] = TRUE]
    /\ UNCHANGED <<closed, finished, lockVars, at, failed, result, resVars, loop, calls>>

CleanupEnds(r) ==
    /\ cleanup[r] = "running"
    /\ \E outcome \in TaskEnds : cleanup' = [cleanup EXCEPT ![r] = outcome]
    /\ UNCHANGED <<closed, finished, lockVars, callVars, registered, cancelling,
                   succeeded, withdrawn, repeated, loop, calls>>

(* The owner closes its resource itself and unregisters it: a waiter that  *)
(* has its event, a bridge or a binding that is closed explicitly.         *)
Unregister(r) ==
    /\ r \in registered
    /\ registered' = registered \ {r}
    /\ withdrawn' = withdrawn \cup {r}
    /\ UNCHANGED <<closed, finished, lockVars, callVars, taskVars, succeeded,
                   repeated, loop, calls>>

LoopEnds ==
    /\ loop = "stopping"
    /\ loop' = "ended"
    /\ UNCHANGED <<closed, finished, lockVars, callVars, resVars, calls>>

-----------------------------------------------------------------------------
Progress(c) == Acquire(c) \/ GiveUp(c) \/ Collect(c) \/ Conclude(c)

Next ==
    \/ \E c \in Closers :
          CallFree(c) \/ CallBusy(c) \/ Progress(c) \/ Cancel(c) \/ Expire(c)
    \/ \E r \in Resources : CleanupEnds(r) \/ Unregister(r)
    \/ LoopEnds

Spec == Init /\ [][Next]_vars

(* A closer that can run, runs, and a budget that is known to end, ends.   *)
(* Nothing is assumed of the resources nor of the loop.                    *)
FairSpec ==
    /\ Spec
    /\ \A c \in Closers : WF_vars(Progress(c))
    /\ \A c \in Hasty : WF_vars(Expire(c))

-----------------------------------------------------------------------------
(* Properties                                                              *)

(* Every variable has its type.                                            *)
TypeOK ==
    /\ closed \in BOOLEAN /\ finished \in BOOLEAN /\ locked \in BOOLEAN
    /\ line \in Seq(Closers)
    /\ at \in [Closers -> {"idle"} \cup Queued \cup Holding]
    /\ overdue \in [Closers -> BOOLEAN]
    /\ failed \in [Closers -> BOOLEAN]
    /\ result \in [Closers -> Results]
    /\ registered \subseteq Resources
    /\ cleanup \in [Resources -> TaskEnds \cup {"none", "running"}]
    /\ cancelling \in [Resources -> BOOLEAN]
    /\ succeeded \subseteq Resources
    /\ withdrawn \subseteq Resources
    /\ repeated \subseteq Resources
    /\ loop \in {"open", "stopping", "ended"}
    /\ calls \in 0..MaxCalls

(* "Whether all supervised handlers and resource cleanup have finished"    *)
(* (scope.py:475): a scope that calls itself closed, and every call that   *)
(* reports completion, has no handler, no cleanup task and no registered   *)
(* resource left, whichever of several calls did the work.                 *)
CompleteMeansClean ==
    /\ finished => loop = "ended" /\ Busy = {} /\ registered = {}
    /\ \A c \in Closers : result[c] = "complete" => finished

(* However calls overlap, are cancelled or run out of time, no resource is *)
(* cleaned up while an earlier cleanup of it is under way, or after one    *)
(* has succeeded.                                                          *)
CleanedUpOnce == repeated = {}

(* A resource is forgotten only when its cleanup has succeeded or its      *)
(* owner has taken it back: one that failed, or was cancelled for lack of  *)
(* time, stays for the next call.                                          *)
NothingForgotten == Resources = registered \cup succeeded \cup withdrawn

(* "within a budget" (scope.py:503): a call whose budget ends comes back,  *)
(* even if resources, handlers and the other callers take for ever.        *)
BudgetKept == \A c \in Hasty : at[c] # "idle" ~> at[c] = "idle"

(* close implements what ScopeGroup relies on.                             *)
Lifetime == INSTANCE ScopeLifetime
    WITH phase  <- IF finished THEN "finished" ELSE IF closed THEN "closing" ELSE "open",
         inside <- {c \in Closers : at[c] # "idle"},
         answer <- result
ImplementsLifetime == Lifetime!Spec
=============================================================================
