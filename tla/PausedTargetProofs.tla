------------------------- MODULE PausedTargetProofs -------------------------
(***************************************************************************)
(* Proofs about PausedTarget for any number of callers and attempts.       *)
(***************************************************************************)
EXTENDS PausedTarget, TLAPS

USE AttemptsAssumption

-----------------------------------------------------------------------------

(* The attempts are numbered from 1.                                       *)
LEMMA AttemptNumbers ==
    /\ 0 \notin Attempts /\ Attempts \subseteq 0..MaxAttempts
    /\ \A n \in 0..MaxAttempts : n # 0 <=> n \in Attempts
    /\ \A n \in 0..MaxAttempts : n < MaxAttempts => n + 1 \in Attempts
    /\ 0 \in 0..MaxAttempts
BY DEF Attempts

LEMMA TypeInit == Init => TypeOK
<1> SUFFICES ASSUME Init PROVE TypeOK
  OBVIOUS
<1>1. 0 \in 0..MaxAttempts
  BY AttemptNumbers
<1> QED
  BY <1>1 DEF Init, TypeOK, Live, Outcomes, Failures

Verdicts == Failures \cup {"ok"}

LEMMA TellType ==
    ASSUME TypeOK, NEW c \in Callers, NEW v \in Verdicts, Tell(c, v)
    PROVE  /\ told' \subseteq ((0..MaxAttempts) \X Verdicts)
           /\ on' \in [Callers -> 0..MaxAttempts]
<1>1. 0 \in 0..MaxAttempts
  BY AttemptNumbers
<1>2. <<on[c], v>> \in (0..MaxAttempts) \X Verdicts
  BY DEF TypeOK
<1> QED
  BY <1>1, <1>2 DEF TypeOK, Tell, Verdicts

LEMMA FirstErrorType ==
    ASSUME TypeOK, NEW a \in Attempts, NEW error \in Failures, FirstError(a, error)
    PROVE  failure' \in [Attempts -> Failures \cup {"none"}]
BY DEF TypeOK, FirstError

LEMMA CancelAttemptType ==
    ASSUME TypeOK, NEW a \in Attempts, NEW error \in Failures, CancelAttempt(a, error)
    PROVE  /\ failure' \in [Attempts -> Failures \cup {"none"}]
           /\ interrupts' \in [Attempts -> Nat]
BY FirstErrorType DEF TypeOK, CancelAttempt

LEMMA TypeStep == TypeOK /\ [Next]_vars => TypeOK'
<1> SUFFICES ASSUME TypeOK, [Next]_vars PROVE TypeOK'
  OBVIOUS
<1>1. ASSUME NEW c \in Callers, Waiting(c)
      PROVE  on[c] \in Attempts
  BY <1>1, AttemptNumbers DEF Waiting, TypeOK
<1>2. ASSUME NEW c \in Callers, AlreadyResumed(c) PROVE TypeOK'
  <2>1. <<attempt, "ok">> \in (0..MaxAttempts) \X Verdicts
    BY DEF TypeOK, Verdicts
  <2> QED
    BY <1>2, <2>1 DEF AlreadyResumed, TypeOK, Verdicts
<1>3. ASSUME NEW c \in Callers, Begin(c) PROVE TypeOK'
  <2>1. attempt + 1 \in Attempts /\ attempt + 1 \in 0..MaxAttempts
    BY <1>3, AttemptNumbers DEF Begin, TypeOK
  <2> QED
    BY <1>3, <2>1 DEF Begin, TypeOK, Live
<1>4. ASSUME NEW c \in Callers, Join(c) PROVE TypeOK'
  BY <1>4 DEF Join, TypeOK
<1>5. ASSUME NEW c \in Callers, Blocked(c) PROVE TypeOK'
  <2>1. attempt \in Attempts /\ failure[attempt] \in Failures
    BY <1>5, AttemptNumbers DEF Blocked, Spent, TypeOK
  <2>2. <<attempt, failure[attempt]>> \in (0..MaxAttempts) \X Verdicts
    BY <2>1 DEF TypeOK, Verdicts
  <2> QED
    BY <1>5, <2>2 DEF Blocked, TypeOK, Verdicts
<1>6. ASSUME NEW c \in Callers, Succeed(c) PROVE TypeOK'
  BY <1>6, TellType DEF Succeed, TypeOK, Verdicts
<1>7. ASSUME NEW c \in Callers, SucceedTooLate(c) PROVE TypeOK'
  <2>1. failure[on[c]] \in Verdicts
    BY <1>1, <1>7 DEF SucceedTooLate, Acknowledged, TypeOK, Verdicts
  <2> QED
    BY <1>7, <2>1, TellType DEF SucceedTooLate, TypeOK, Verdicts
<1>8. ASSUME NEW c \in Callers, Fail(c) PROVE TypeOK'
  <2>1. on[c] \in Attempts /\ task[on[c]] \in Failures
    BY <1>1, <1>8 DEF Fail, Failures
  <2> QED
    BY <1>8, <2>1, TellType, FirstErrorType DEF Fail, TypeOK, Verdicts
<1>9. ASSUME NEW c \in Callers, TimeOut(c) \/ CallerCancelled(c) PROVE TypeOK'
  <2>1. PICK v \in Failures : /\ CancelAttempt(on[c], v) /\ Tell(c, v)
                              /\ UNCHANGED <<resumed, attempt, task, expired>>
    BY <1>9 DEF TimeOut, CallerCancelled, Failures
  <2>2. on[c] \in Attempts
    BY <1>1, <1>9 DEF TimeOut, CallerCancelled
  <2> QED
    BY <2>1, <2>2, TellType, CancelAttemptType DEF TypeOK, Verdicts
<1>10. ASSUME NEW a \in Attempts, TaskEnter(a) \/ TaskExit(a) \/ Expire(a) PROVE TypeOK'
  BY <1>10 DEF TaskEnter, TaskExit, Expire, TaskUnchanged, TypeOK, Live, Outcomes
<1>11. CASE UNCHANGED vars
  BY <1>11 DEF vars, TypeOK
<1> QED
  BY <1>2, <1>3, <1>4, <1>5, <1>6, <1>7, <1>8, <1>9, <1>10, <1>11 DEF Next, Answer

(* Every reachable state is well typed.                                    *)
THEOREM TypeCorrect == Spec => []TypeOK
BY TypeInit, TypeStep, PTL DEF Spec

-----------------------------------------------------------------------------
(* The inductive invariant.  Attempts above the latest do not exist yet,   *)
(* those below it are over and failed; a task is interrupted only together *)
(* with the first error; "ok" is told only of the latest attempt, after    *)
(* its command came back, and no error but a caller's own cancellation can *)
(* be put on it from then on.                                              *)
Numbered == \A a \in Attempts : task[a] = "none" <=> a > attempt
Fresh    == \A a \in Attempts : a > attempt => failure[a] = "none"
WaitsForKnown == \A c \in Callers : on[c] <= attempt
InterruptsNeedError ==
    \A a \in Attempts : /\ interrupts[a] <= 1
                        /\ failure[a] = "none" => interrupts[a] = 0
OkIsLatest ==
    /\ resumed => attempt # 0 /\ <<attempt, "ok">> \in told
    /\ \A a \in Attempts : <<a, "ok">> \in told =>
          /\ resumed /\ a = attempt
          /\ task[a] = "returned" /\ failure[a] \in {"none", "cancelled"}
          /\ <<a, "timeout">> \notin told /\ <<a, "raised">> \notin told
ErrorsAreKept ==
    \A a \in Attempts : \A v \in {"timeout", "raised"} :
        <<a, v>> \in told => failure[a] # "none"

AttemptInv ==
    /\ TypeOK /\ Numbered /\ Fresh /\ WaitsForKnown
    /\ OneAttempt /\ InterruptsNeedError /\ OkIsLatest /\ ErrorsAreKept

LEMMA AttemptInit == Init => AttemptInv
<1>1. Init => \A a \in Attempts : a > 0
  BY DEF Attempts
<1>2. Init => \A a \in Attempts : ~(a < 0)
  BY DEF Attempts
<1> QED
  BY <1>1, <1>2, TypeInit DEF Init, AttemptInv, Numbered, Fresh, WaitsForKnown,
     OneAttempt, InterruptsNeedError, OkIsLatest, ErrorsAreKept

LEMMA AttemptStep == AttemptInv /\ [Next]_vars => AttemptInv'
<1> SUFFICES ASSUME AttemptInv, [Next]_vars PROVE AttemptInv'
  OBVIOUS
<1>0. TypeOK /\ TypeOK'
  BY TypeStep DEF AttemptInv
<1>1. \A a \in Attempts : a \in Nat /\ a # 0
  BY DEF Attempts
<1>2. attempt \in Nat
  BY <1>0 DEF TypeOK
<1>3. ASSUME NEW c \in Callers, Waiting(c)
      PROVE  on[c] \in Attempts /\ on[c] <= attempt /\ task[on[c]] # "none"
  <2>1. on[c] \in Attempts /\ on[c] <= attempt
    BY <1>0, <1>3, AttemptNumbers DEF Waiting, TypeOK, AttemptInv, WaitsForKnown
  <2> QED
    BY <1>1, <1>2, <2>1 DEF AttemptInv, Numbered
<1>4. ASSUME NEW c \in Callers, AlreadyResumed(c) PROVE AttemptInv'
  <2>1. told' = told
    BY <1>4 DEF AlreadyResumed, AttemptInv, OkIsLatest
  <2> QED
    BY <1>0, <1>4, <2>1 DEF AlreadyResumed, AttemptInv, Numbered, Fresh, WaitsForKnown,
       OneAttempt, InterruptsNeedError, OkIsLatest, ErrorsAreKept, Done
<1>5. ASSUME NEW c \in Callers, Begin(c) PROVE AttemptInv'
  <2>1. /\ attempt' = attempt + 1 /\ attempt + 1 \in Attempts
        /\ \A a \in Attempts : task'[a] = IF a = attempt + 1 THEN "created" ELSE task[a]
        /\ \A d \in Callers : on'[d] = IF d = c THEN attempt + 1 ELSE on[d]
        /\ UNCHANGED <<resumed, failure, expired, interrupts, told>>
        /\ ~resumed /\ Spent
    BY <1>0, <1>5, AttemptNumbers DEF Begin, TypeOK
  <2>2. Numbered' /\ Fresh' /\ WaitsForKnown'
    <3>1. Numbered'
      BY <1>1, <1>2, <2>1 DEF AttemptInv, Numbered
    <3>2. Fresh'
      BY <1>1, <1>2, <2>1 DEF AttemptInv, Fresh
    <3>3. WaitsForKnown'
      <4>1. \A d \in Callers : on[d] \in Nat
        BY <1>0 DEF TypeOK
      <4> QED
        BY <1>2, <2>1, <4>1 DEF AttemptInv, WaitsForKnown
    <3> QED
      BY <3>1, <3>2, <3>3
  <2>3. OneAttempt'
    <3>1. ASSUME NEW a \in Attempts, a < attempt + 1
          PROVE  task[a] \in Outcomes /\ failure[a] # "none" /\ a # attempt + 1
      <4>1. a <= attempt
        BY <1>1, <1>2, <3>1
      <4>2. CASE a < attempt
        BY <1>1, <1>2, <4>2 DEF AttemptInv, OneAttempt, Done
      <4>3. CASE a = attempt
        BY <1>1, <1>2, <2>1, <4>3 DEF Spent, Done
      <4> QED
        BY <1>1, <1>2, <4>1, <4>2, <4>3
    <3> QED
      BY <2>1, <3>1 DEF OneAttempt, Done
  <2>4. InterruptsNeedError' /\ OkIsLatest' /\ ErrorsAreKept'
    BY <2>1 DEF AttemptInv, InterruptsNeedError, OkIsLatest, ErrorsAreKept
  <2> QED
    BY <1>0, <2>2, <2>3, <2>4 DEF AttemptInv
<1>6. ASSUME NEW c \in Callers, Join(c) PROVE AttemptInv'
  <2>1. WaitsForKnown'
    BY <1>0, <1>2, <1>6 DEF Join, AttemptInv, WaitsForKnown, TypeOK
  <2> QED
    BY <1>0, <1>6, <2>1 DEF Join, AttemptInv, Numbered, Fresh, OneAttempt,
       InterruptsNeedError, OkIsLatest, ErrorsAreKept, Done
<1>7. ASSUME NEW c \in Callers, Blocked(c) PROVE AttemptInv'
  <2>1. told' = told \cup {<<attempt, failure[attempt]>>} /\ failure[attempt] # "none"
        /\ failure[attempt] # "ok" /\ attempt \in Attempts
        /\ UNCHANGED <<resumed, attempt, task, failure, expired, interrupts, on>>
    BY <1>0, <1>7, AttemptNumbers DEF Blocked, Spent, TypeOK, Failures
  <2>2. OkIsLatest' /\ ErrorsAreKept'
    BY <2>1 DEF AttemptInv, OkIsLatest, ErrorsAreKept
  <2> QED
    BY <1>0, <2>1, <2>2 DEF AttemptInv, Numbered, Fresh, WaitsForKnown, OneAttempt,
       InterruptsNeedError, Done
<1>8. ASSUME NEW c \in Callers, Succeed(c) PROVE AttemptInv'
  <2>1. /\ on[c] \in Attempts /\ on[c] <= attempt
        /\ task[on[c]] = "returned" /\ failure[on[c]] = "none"
        /\ resumed' = TRUE /\ told' = told \cup {<<on[c], "ok">>}
        /\ UNCHANGED <<attempt, task, failure, expired, interrupts>>
    BY <1>3, <1>8 DEF Succeed, Acknowledged, Tell
  <2>2. on[c] = attempt
    BY <1>1, <1>2, <2>1 DEF AttemptInv, OneAttempt
  <2>3. WaitsForKnown'
    BY <1>0, <1>2, <1>8 DEF Succeed, Tell, AttemptInv, WaitsForKnown, TypeOK
  <2>4. OneAttempt' /\ OkIsLatest' /\ ErrorsAreKept'
    BY <1>1, <2>1, <2>2 DEF AttemptInv, OneAttempt, OkIsLatest, ErrorsAreKept, Done
  <2> QED
    BY <1>0, <2>1, <2>3, <2>4 DEF AttemptInv, Numbered, Fresh, InterruptsNeedError
<1>9. ASSUME NEW c \in Callers, SucceedTooLate(c) PROVE AttemptInv'
  <2>1. /\ on[c] \in Attempts /\ failure[on[c]] # "none" /\ failure[on[c]] # "ok"
        /\ told' = told \cup {<<on[c], failure[on[c]]>>}
        /\ UNCHANGED <<resumed, attempt, task, failure, expired, interrupts>>
    BY <1>0, <1>3, <1>9 DEF SucceedTooLate, Acknowledged, Tell, TypeOK, Failures
  <2>2. WaitsForKnown'
    BY <1>0, <1>2, <1>9 DEF SucceedTooLate, Tell, AttemptInv, WaitsForKnown, TypeOK
  <2>3. OkIsLatest' /\ ErrorsAreKept'
    BY <2>1 DEF AttemptInv, OkIsLatest, ErrorsAreKept
  <2> QED
    BY <1>0, <2>1, <2>2, <2>3 DEF AttemptInv, Numbered, Fresh, OneAttempt,
       InterruptsNeedError, Done
<1>10. ASSUME NEW c \in Callers, Fail(c) PROVE AttemptInv'
  <2>1. /\ on[c] \in Attempts /\ on[c] <= attempt /\ task[on[c]] \in {"raised", "cancelled"}
        /\ told' = told \cup {<<on[c], task[on[c]]>>}
        /\ \A a \in Attempts : failure'[a] =
              IF a = on[c] /\ failure[a] = "none" THEN task[on[c]] ELSE failure[a]
        /\ UNCHANGED <<resumed, attempt, task, expired, interrupts>>
    BY <1>0, <1>3, <1>10 DEF Fail, FirstError, Tell, TypeOK
  <2>2. WaitsForKnown'
    BY <1>0, <1>2, <1>10 DEF Fail, Tell, AttemptInv, WaitsForKnown, TypeOK
  <2>3. \A a \in Attempts : failure[a] # "none" => failure'[a] # "none"
    BY <2>1
  <2>4. OkIsLatest' /\ ErrorsAreKept'
    <3>1. OkIsLatest'
      BY <2>1 DEF AttemptInv, OkIsLatest
    <3>2. ErrorsAreKept'
      BY <2>1, <2>3 DEF AttemptInv, ErrorsAreKept
    <3> QED
      BY <3>1, <3>2
  <2>5. Fresh'
    BY <1>1, <1>2, <2>1 DEF AttemptInv, Fresh
  <2> QED
    BY <1>0, <2>1, <2>2, <2>3, <2>4, <2>5 DEF AttemptInv, Numbered, OneAttempt,
       InterruptsNeedError, Done
<1>11. ASSUME NEW c \in Callers, TimeOut(c) \/ CallerCancelled(c) PROVE AttemptInv'
  <2>1. PICK v \in {"timeout", "cancelled"} :
            /\ v = "timeout" => ~Done(on[c])
            /\ CancelAttempt(on[c], v) /\ Tell(c, v)
            /\ Waiting(c) /\ UNCHANGED <<resumed, attempt, task, expired>>
    BY <1>11 DEF TimeOut, CallerCancelled, Overdue
  <2>2. on[c] \in Attempts /\ on[c] <= attempt
    BY <1>3, <2>1
  <2>3. /\ told' = told \cup {<<on[c], v>>}
        /\ \A a \in Attempts : failure'[a] =
              IF a = on[c] /\ failure[a] = "none" THEN v ELSE failure[a]
        /\ \A a \in Attempts : interrupts'[a] =
              IF a = on[c] /\ Interruptible(a) THEN interrupts[a] + 1 ELSE interrupts[a]
    BY <1>0, <2>1, <2>2 DEF CancelAttempt, FirstError, Tell, TypeOK
  <2>4. WaitsForKnown'
    BY <1>0, <1>2, <2>1 DEF Tell, AttemptInv, WaitsForKnown, TypeOK
  <2>5. \A a \in Attempts : failure[a] # "none" => failure'[a] # "none"
    BY <2>3
  <2>6. OkIsLatest'
    BY <2>1, <2>3 DEF AttemptInv, OkIsLatest, Done, Outcomes
  <2>7. ErrorsAreKept'
    BY <2>3, <2>5 DEF AttemptInv, ErrorsAreKept
  <2>8. InterruptsNeedError'
    BY <1>0, <2>3 DEF AttemptInv, InterruptsNeedError, Interruptible, TypeOK
  <2>9. Fresh'
    BY <1>1, <1>2, <2>1, <2>2, <2>3 DEF AttemptInv, Fresh
  <2> QED
    BY <1>0, <2>1, <2>4, <2>5, <2>6, <2>7, <2>8, <2>9
    DEF AttemptInv, Numbered, OneAttempt, Done
<1>12. ASSUME NEW b \in Attempts, TaskEnter(b) \/ TaskExit(b) PROVE AttemptInv'
  <2>1. task[b] \in Live
    BY <1>12 DEF TaskEnter, TaskExit, Live
  <2>2. PICK t \in Live \cup Outcomes : task' = [task EXCEPT ![b] = t]
    BY <1>12 DEF TaskEnter, TaskExit, Live, Outcomes
  <2>3. \A a \in Attempts : /\ a # b => task'[a] = task[a]
                            /\ task'[a] = "none" <=> task[a] = "none"
                            /\ task[a] \in Outcomes => task'[a] = task[a]
    BY <1>0, <2>1, <2>2 DEF TypeOK, Live, Outcomes
  <2>4. UNCHANGED <<resumed, attempt, failure, interrupts, on, told>>
    BY <1>12 DEF TaskEnter, TaskExit, TaskUnchanged
  <2>5. resumed => attempt \in Attempts /\ task'[attempt] = task[attempt]
    BY <1>0, <2>3, AttemptNumbers DEF AttemptInv, OkIsLatest, OneAttempt, TypeOK, Outcomes
  <2>6. OneAttempt' /\ OkIsLatest'
    BY <2>3, <2>4, <2>5 DEF AttemptInv, OneAttempt, OkIsLatest, Done, Outcomes
  <2> QED
    BY <1>0, <2>3, <2>4, <2>6 DEF AttemptInv, Numbered, Fresh, WaitsForKnown,
       InterruptsNeedError, ErrorsAreKept
<1>13. ASSUME NEW b \in Attempts, Expire(b) PROVE AttemptInv'
  BY <1>0, <1>13 DEF Expire, TaskUnchanged, AttemptInv, Numbered, Fresh, WaitsForKnown,
     OneAttempt, InterruptsNeedError, OkIsLatest, ErrorsAreKept, Done
<1>14. CASE UNCHANGED vars
  BY <1>0, <1>14 DEF vars, AttemptInv, Numbered, Fresh, WaitsForKnown, OneAttempt,
     InterruptsNeedError, OkIsLatest, ErrorsAreKept, Done
<1> QED
  BY <1>4, <1>5, <1>6, <1>7, <1>8, <1>9, <1>10, <1>11, <1>12, <1>13, <1>14
  DEF Next, Answer

LEMMA AttemptInvariant == Spec => []AttemptInv
BY AttemptInit, AttemptStep, PTL DEF Spec

(* Never two attempts at once, and none after a success.                   *)
THEOREM OneAttemptCorrect == Spec => []OneAttempt
BY AttemptInvariant, PTL DEF AttemptInv

(* The task of an attempt is interrupted at most once.                     *)
THEOREM AttemptInterruptCorrect == Spec => []AttemptInterruptedOnce
<1>1. AttemptInv => AttemptInterruptedOnce
  BY DEF AttemptInv, InterruptsNeedError, AttemptInterruptedOnce
<1> QED
  BY <1>1, AttemptInvariant, PTL

(* No caller hears of success when another hears of timeout or failure.    *)
THEOREM VerdictsCorrect == Spec => []VerdictsAgree
<1>1. AttemptInv => VerdictsAgree
  <2> SUFFICES ASSUME AttemptInv, NEW a \in Attempts, <<a, "ok">> \in told
               PROVE  <<a, "timeout">> \notin told /\ <<a, "raised">> \notin told
    BY DEF VerdictsAgree
  <2> QED
    BY DEF AttemptInv, OkIsLatest
<1> QED
  BY <1>1, AttemptInvariant, PTL

(* The first error of an attempt stays its error.                          *)
THEOREM OriginalErrorCorrect == Spec => OriginalError
<1> DEFINE Kept == \A a \in Attempts : failure[a] # "none" => failure'[a] = failure[a]
<1>1. TypeOK /\ [Next]_vars => [Kept]_vars
  <2> SUFFICES ASSUME TypeOK, Next PROVE Kept
    BY DEF vars
  <2>1. UNCHANGED failure \/ \E b, error : FirstError(b, error)
    BY DEF Next, AlreadyResumed, Begin, Join, Blocked, Answer, Succeed, SucceedTooLate,
       Fail, TimeOut, CallerCancelled, CancelAttempt, TaskEnter, TaskExit, Expire,
       TaskUnchanged
  <2> QED
    BY <2>1 DEF FirstError, TypeOK
<1> QED
  BY <1>1, TypeCorrect, PTL DEF Spec, OriginalError
=============================================================================
