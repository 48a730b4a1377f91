---------------------------- MODULE PausedTarget ----------------------------
(***************************************************************************)
(* PausedTarget.resume (agent_cdp/bridge.py): concurrent callers share one *)
(* attempt to resume a paused target.  An attempt is a task that runs the  *)
(* CDP command or a custom coroutine, with one deadline for all who wait   *)
(* for it; a failed attempt may be followed by another once its task has   *)
(* really ended.  The command is external: it may be acknowledged, fail,   *)
(* end cancelled, or ignore its cancellation.                              *)
(*                                                                         *)
(* asyncio.wait looks at the task when the caller runs again, not when its *)
(* timer fired, so one step decides between a late answer and a timeout.   *)
(***************************************************************************)
EXTENDS Naturals

CONSTANTS
    Callers,       \* tasks that call resume, a context exit included
    MaxAttempts    \* bound on the attempts of one behaviour

ASSUME AttemptsAssumption == MaxAttempts \in Nat

VARIABLES
    resumed,     \* _resumed
    attempt,     \* the number of the latest _ResumeAttempt, 0 before the first
    task,        \* the task of each attempt
    failure,     \* _ResumeAttempt.failure
    expired,     \* the deadline of the attempt has passed
    interrupts,  \* history: task.cancel() calls that reached a live task
    on,          \* the attempt a caller waits for, 0 while it does not
    told         \* history: what callers were told of which attempt

vars == <<resumed, attempt, task, failure, expired, interrupts, on, told>>

Attempts == 1..MaxAttempts
Live     == {"created", "running"}
Outcomes == {"returned", "raised", "cancelled"}
Failures == {"timeout", "raised", "cancelled"}

Done(a)    == task[a] \in Outcomes
Waiting(c) == on[c] # 0

Init ==
    /\ resumed = FALSE /\ attempt = 0
    /\ task = [a \in Attempts |-> "none"]
    /\ failure = [a \in Attempts |-> "none"]
    /\ expired = [a \in Attempts |-> FALSE]
    /\ interrupts = [a \in Attempts |-> 0]
    /\ on = [c \in Callers |-> 0]
    /\ told = {}

-----------------------------------------------------------------------------
(* A call of resume, up to its await                                       *)

(* Variant: the task of a failed attempt may still be running.             *)
SpentOnFailure == attempt # 0 => failure[attempt] # "none"
Spent == attempt # 0 => Done(attempt) /\ failure[attempt] # "none"

AlreadyResumed(c) ==
    /\ ~Waiting(c) /\ resumed
    /\ told' = told \cup {<<attempt, "ok">>}
    /\ UNCHANGED <<resumed, attempt, task, failure, expired, interrupts, on>>

(* The bound on attempts is MaxAttempts.                                   *)
Begin(c) ==
    /\ ~Waiting(c) /\ ~resumed /\ Spent /\ attempt < MaxAttempts
    /\ attempt' = attempt + 1
    /\ task' = [task EXCEPT ![attempt + 1] = "created"]
    /\ on' = [on EXCEPT ![c] = attempt + 1]
    /\ UNCHANGED <<resumed, failure, expired, interrupts, told>>

Join(c) ==
    /\ ~Waiting(c) /\ ~resumed /\ ~Spent /\ failure[attempt] = "none"
    /\ on' = [on EXCEPT ![c] = attempt]
    /\ UNCHANGED <<resumed, attempt, task, failure, expired, interrupts, told>>

(* A failed attempt whose task has not ended blocks a fresh one.           *)
Blocked(c) ==
    /\ ~Waiting(c) /\ ~resumed /\ ~Spent /\ failure[attempt] # "none"
    /\ told' = told \cup {<<attempt, failure[attempt]>>}
    /\ UNCHANGED <<resumed, attempt, task, failure, expired, interrupts, on>>

-----------------------------------------------------------------------------
(* The caller runs again after its await                                   *)

Tell(c, verdict) ==
    /\ told' = told \cup {<<on[c], verdict>>}
    /\ on' = [on EXCEPT ![c] = 0]

(* The first error of an attempt is kept.                                  *)
(* Variant: the last one is.                                               *)
LatestError(a, error) == failure' = [failure EXCEPT ![a] = error]
FirstError(a, error) ==
    failure' = [failure EXCEPT ![a] = IF @ = "none" THEN error ELSE @]

(* _ResumeAttempt.cancel: the task is interrupted with the first error.    *)
Interruptible(a) == failure[a] = "none" /\ task[a] \in Live
CancelAttempt(a, error) ==
    /\ FirstError(a, error)
    /\ interrupts' = [interrupts EXCEPT ![a] = IF Interruptible(a) THEN @ + 1 ELSE @]

(* Variant: an acknowledgement counts even when the attempt has failed.    *)
AcknowledgedLate(a) == task[a] = "returned"
Acknowledged(a) == task[a] = "returned" /\ failure[a] = "none"

Succeed(c) ==
    /\ Waiting(c) /\ Acknowledged(on[c])
    /\ resumed' = TRUE
    /\ Tell(c, "ok")
    /\ UNCHANGED <<attempt, task, failure, expired, interrupts>>

(* The command came back, but somebody has declared the attempt a failure. *)
SucceedTooLate(c) ==
    /\ Waiting(c) /\ task[on[c]] = "returned" /\ ~Acknowledged(on[c])
    /\ Tell(c, failure[on[c]])
    /\ UNCHANGED <<resumed, attempt, task, failure, expired, interrupts>>

Fail(c) ==
    /\ Waiting(c) /\ task[on[c]] \in {"raised", "cancelled"}
    /\ FirstError(on[c], task[on[c]])
    /\ Tell(c, task[on[c]])
    /\ UNCHANGED <<resumed, attempt, task, expired, interrupts>>

(* Variant: a caller whose time is over still waits for the task to end,   *)
(* as asyncio.wait_for does.                                               *)
OverdueAndEnded(a) == expired[a] /\ Done(a)
Overdue(a) == expired[a] /\ ~Done(a)

TimeOut(c) ==
    /\ Waiting(c) /\ Overdue(on[c])
    /\ CancelAttempt(on[c], "timeout")
    /\ Tell(c, "timeout")
    /\ UNCHANGED <<resumed, attempt, task, expired>>

(* The caller's own task is cancelled; this wins over an answer that is    *)
(* there already.                                                          *)
CallerCancelled(c) ==
    /\ Waiting(c)
    /\ CancelAttempt(on[c], "cancelled")
    /\ Tell(c, "cancelled")
    /\ UNCHANGED <<resumed, attempt, task, expired>>

-----------------------------------------------------------------------------
(* The task of an attempt and its deadline                                 *)

TaskUnchanged == UNCHANGED <<resumed, attempt, failure, interrupts, on, told>>

TaskEnter(a) ==
    /\ task[a] = "created"
    /\ task' = [task EXCEPT ![a] = IF interrupts[a] > 0 THEN "cancelled" ELSE "running"]
    /\ UNCHANGED expired /\ TaskUnchanged

TaskExit(a) ==
    /\ task[a] = "running"
    /\ \E outcome \in Outcomes : task' = [task EXCEPT ![a] = outcome]
    /\ UNCHANGED expired /\ TaskUnchanged

Expire(a) ==
    /\ task[a] # "none" /\ ~expired[a]
    /\ expired' = [expired EXCEPT ![a] = TRUE]
    /\ UNCHANGED task /\ TaskUnchanged

-----------------------------------------------------------------------------
Answer(c) == Succeed(c) \/ SucceedTooLate(c) \/ Fail(c) \/ TimeOut(c)

Next ==
    \/ \E c \in Callers :
          \/ AlreadyResumed(c) \/ Begin(c) \/ Join(c) \/ Blocked(c)
          \/ Answer(c) \/ CallerCancelled(c)
    \/ \E a \in Attempts : TaskEnter(a) \/ TaskExit(a) \/ Expire(a)

Spec == Init /\ [][Next]_vars

(* With a resume_timeout, every deadline passes; a caller that can run,    *)
(* runs.  Nothing is assumed of the command.                               *)
FairSpec ==
    /\ Spec
    /\ \A a \in Attempts : WF_vars(Expire(a))
    /\ \A c \in Callers : WF_vars(Answer(c))

-----------------------------------------------------------------------------
(* Properties                                                              *)

(* Every variable has its type.                                            *)
TypeOK ==
    /\ resumed \in BOOLEAN
    /\ attempt \in 0..MaxAttempts
    /\ task \in [Attempts -> Live \cup Outcomes \cup {"none"}]
    /\ failure \in [Attempts -> Failures \cup {"none"}]
    /\ expired \in [Attempts -> BOOLEAN]
    /\ interrupts \in [Attempts -> Nat]
    /\ on \in [Callers -> 0..MaxAttempts]
    /\ told \subseteq ((0..MaxAttempts) \X (Failures \cup {"ok"}))

(* "A coroutine that ignores cancellation ... blocks a fresh attempt"      *)
(* (bridge.py:86), and a success allows none: every attempt but the latest *)
(* has ended and failed, and the attempt that succeeded stays the latest.  *)
OneAttempt ==
    /\ \A a \in Attempts : a < attempt => Done(a) /\ failure[a] # "none"
    /\ resumed => task[attempt] = "returned"

(* "A cancellation-resistant coroutine must not be repeatedly interrupted" *)
(* (bridge.py:66), whoever times out or is cancelled while waiting.        *)
AttemptInterruptedOnce == \A a \in Attempts : interrupts[a] <= 1

(* Callers that share an attempt agree on it: none is told that it         *)
(* succeeded when another is told that it timed out or failed, in whatever *)
(* order timer, answer and callers run.                                    *)
VerdictsAgree ==
    \A a \in Attempts :
        <<a, "ok">> \in told => <<a, "timeout">> \notin told /\ <<a, "raised">> \notin told

(* The error of an attempt is the original one: nothing that is found out  *)
(* later replaces it.                                                      *)
OriginalError ==
    [][\A a \in Attempts : failure[a] # "none" => failure'[a] = failure[a]]_vars

(* With a budget every call returns, even if the command never does.       *)
EveryCallReturns == \A c \in Callers : Waiting(c) ~> ~Waiting(c)
=============================================================================
