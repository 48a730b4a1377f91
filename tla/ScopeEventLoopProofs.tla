------------------------ MODULE ScopeEventLoopProofs ------------------------
(***************************************************************************)
(* Proofs about ScopeEventLoop for every set of deliveries, every capacity *)
(* and every number of flush callers.                                      *)
(***************************************************************************)
EXTENDS ScopeEventLoop, FiniteSetTheorems, TLAPS

USE ConstantsAssumption

-----------------------------------------------------------------------------
(* What _cancel_delivery leaves in the queue is a queue of what it had and *)
(* did not withdraw, in the same order.                                    *)
LEMMA RetainedFacts ==
    ASSUME NEW q \in Seq(Deliveries), NEW S, NEW r \in Retained(q, S)
    PROVE  /\ r \in Seq(Deliveries)
           /\ {r[i] : i \in DOMAIN r} = {q[i] : i \in DOMAIN q} \ S
           /\ InOrder(r, q)
<1> DEFINE kept == {q[i] : i \in DOMAIN q} \ S
<1>1. kept \subseteq Deliveries
  OBVIOUS
<1>2. PICK n \in 0..Len(q) : r \in [1..n -> kept]
  BY DEF Retained
<1>3. r \in Seq(Deliveries)
  BY <1>1, <1>2
<1> QED
  BY <1>3 DEF Retained

(* A set of deliveries is finite, so it counts.                            *)
LEMMA Counts ==
    ASSUME NEW S, S \subseteq Deliveries
    PROVE  IsFiniteSet(S) /\ Cardinality(S) \in Nat
BY FS_Subset, FS_CardinalityType

LEMMA LessIsNat ==
    ASSUME NEW a \in Nat, NEW b \in Nat
    PROVE  Less(a, b) \in Nat
BY DEF Less

-----------------------------------------------------------------------------
(* Type correctness                                                        *)

LEMMA FinishType ==
    ASSUME TypeOK, NEW S, S \subseteq Deliveries,
           NEW outcome \in {"completed", "failed", "cancelled", "timeout"},
           Finish(S, outcome)
    PROVE  /\ pending' \subseteq Deliveries
           /\ fact' \in [Deliveries -> Settled \cup {"unsent", "queued", "running"}]
           /\ settled' \subseteq Deliveries
           /\ stats' \in [Counters -> Nat]
           /\ pendingCount' \in [Events -> Nat]
<1>1. Cardinality(S) \in Nat
  BY Counts
<1>2. \A e \in Events : Cardinality({d \in S : EventOf[d] = e}) \in Nat
  BY Counts
<1>3. CountResult(outcome) \in {"completed", "failed", "cancelled"}
  BY DEF CountResult
<1>4. stats' \in [Counters -> Nat]
  BY <1>1, <1>3 DEF TypeOK, Finish, Counters
<1>5. pendingCount' \in [Events -> Nat]
  BY <1>2, LessIsNat DEF TypeOK, Finish, Decrement
<1> QED
  BY <1>4, <1>5 DEF TypeOK, Finish, Settled

LEMMA InterruptType ==
    ASSUME TypeOK, NEW S, Interrupt(S)
    PROVE  /\ cancelSent' \in [Deliveries -> BOOLEAN]
           /\ interrupts' \in [Deliveries -> Nat]
BY DEF TypeOK, Interrupt

LEMMA CancelType ==
    ASSUME TypeOK, NEW S, S \subseteq Deliveries, CancelDeliveries(S)
    PROVE  /\ queue' \in Seq(Deliveries)
           /\ pending' \subseteq Deliveries
           /\ fact' \in [Deliveries -> Settled \cup {"unsent", "queued", "running"}]
           /\ settled' \subseteq Deliveries
           /\ stats' \in [Counters -> Nat]
           /\ pendingCount' \in [Events -> Nat]
           /\ cancelSent' \in [Deliveries -> BOOLEAN]
           /\ interrupts' \in [Deliveries -> Nat]
           /\ cancelRequested' \in [Deliveries -> BOOLEAN]
           /\ UNCHANGED <<sequence, number, handlerVars, flushVars>>
<1> DEFINE withdrawn   == {d \in S : Waiting(d)}
           interrupted == {d \in S \cap pending : ~Waiting(d) /\ Unsent(d)}
<1>1. /\ queue' \in Retained(queue, withdrawn)
      /\ Finish(withdrawn, "cancelled")
      /\ Interrupt(interrupted)
      /\ cancelRequested' = [d \in Deliveries |->
             cancelRequested[d] \/ d \in withdrawn \cup interrupted]
      /\ UNCHANGED <<sequence, number, handlerVars, flushVars>>
  BY DEF CancelDeliveries
<1>2. queue' \in Seq(Deliveries)
  BY <1>1, RetainedFacts DEF TypeOK
<1> HIDE DEF interrupted
<1>3. /\ pending' \subseteq Deliveries
      /\ fact' \in [Deliveries -> Settled \cup {"unsent", "queued", "running"}]
      /\ settled' \subseteq Deliveries
      /\ stats' \in [Counters -> Nat]
      /\ pendingCount' \in [Events -> Nat]
  <2> withdrawn \subseteq Deliveries
    OBVIOUS
  <2> HIDE DEF withdrawn
  <2> QED
    BY <1>1, FinishType
<1> HIDE DEF withdrawn
<1>4. /\ cancelSent' \in [Deliveries -> BOOLEAN]
      /\ interrupts' \in [Deliveries -> Nat]
  BY <1>1, InterruptType
<1>5. cancelRequested' \in [Deliveries -> BOOLEAN]
  BY <1>1 DEF TypeOK
<1> QED
  BY <1>1, <1>2, <1>3, <1>4, <1>5

USE DEF queueVars, lifeVars, consumerVars, cancelVars, handlerVars, flushVars,
        stopVars, ConsumerUnchanged, HandlerUnchanged, FlushUnchanged

LEMMA TypeInit == Init => TypeOK
<1> SUFFICES ASSUME Init PROVE TypeOK
  OBVIOUS
<1>1. queue \in Seq(Deliveries) /\ consumer \in ConsumerStates
  BY DEF Init, ConsumerStates, Ended
<1>2. flush \in [Flushers -> [at : {"idle", "waiting", "returning"},
                             prefix : SUBSET Deliveries, upto : Nat,
                             known : SUBSET Deliveries]]
  BY DEF Init, NoFlush
<1>3. /\ stats \in [Counters -> Nat]
      /\ pendingCount \in [Events -> Nat]
  BY DEF Init
<1> QED
  BY <1>1, <1>2, <1>3 DEF Init, TypeOK

(* A counter that goes up stays a counter.                                 *)
LEMMA CountUp ==
    ASSUME NEW s \in [Counters -> Nat], NEW c \in Counters
    PROVE  [s EXCEPT ![c] = @ + 1] \in [Counters -> Nat]
  OBVIOUS

LEMMA CountTwo ==
    ASSUME NEW s \in [Counters -> Nat], NEW a \in Counters, NEW c \in Counters, a # c
    PROVE  [s EXCEPT ![a] = @ + 1, ![c] = @ + 1] \in [Counters -> Nat]
<1> DEFINE one == [s EXCEPT ![a] = s[a] + 1]
<1>1. one \in [Counters -> Nat]
  BY CountUp
<1>2. one[c] = s[c]
  OBVIOUS
<1>3. [s EXCEPT ![a] = @ + 1, ![c] = @ + 1] = [one EXCEPT ![c] = one[c] + 1]
  BY <1>2
<1>4. [one EXCEPT ![c] = one[c] + 1] \in [Counters -> Nat]
  <2> HIDE DEF one
  <2> QED
    BY <1>1, CountUp
<1> QED
  BY <1>3, <1>4

LEMMA TypeStep == TypeOK /\ [Next]_vars => TypeOK'
<1> SUFFICES ASSUME TypeOK, [Next]_vars PROVE TypeOK'
  OBVIOUS
<1>1. CASE \E d \in Deliveries : Admit(d)
  <2> PICK d \in Deliveries : Admit(d)
    BY <1>1
  <2>1. queue' \in Seq(Deliveries)
    BY DEF Admit, TypeOK
  <2>2. stats' \in [Counters -> Nat]
    <3>1. "accepted" \in Counters
      BY DEF Counters
    <3> QED
      BY <3>1, CountUp DEF Admit, TypeOK
  <2>3. /\ pending' \in SUBSET Deliveries
        /\ wake' \in BOOLEAN
        /\ UNCHANGED <<lifeVars, consumerVars, cancelVars, handlerVars, settled,
                       flushVars, stopVars>>
    BY DEF Admit, WakeUp, TypeOK
  <2>4. /\ sequence' \in Nat
        /\ number' \in [Deliveries -> Nat]
    BY DEF Admit, NextNumber, TypeOK
  <2>5. /\ fact' \in [Deliveries -> Settled \cup {"unsent", "queued", "running"}]
        /\ pendingCount' \in [Events -> Nat]
    BY DEF Admit, TypeOK
  <2> QED
    BY <2>1, <2>2, <2>3, <2>4, <2>5
    DEF TypeOK, lifeVars, consumerVars, cancelVars, handlerVars, flushVars, stopVars
<1>2. CASE \E d \in Deliveries : Reject(d)
  <2> PICK d \in Deliveries : Reject(d)
    BY <1>2
  <2>1. stats' \in [Counters -> Nat]
    <3>1. "rejected" \in Counters
      BY DEF Counters
    <3> QED
      BY <3>1, CountUp DEF Reject, CountRejected, TypeOK
  <2>2. /\ sequence' \in Nat
        /\ number' \in [Deliveries -> Nat]
    BY DEF Reject, NextNumber, TypeOK
  <2>3. /\ fact' \in [Deliveries -> Settled \cup {"unsent", "queued", "running"}]
        /\ settled' \subseteq Deliveries
    BY DEF Reject, TypeOK, Settled
  <2>4. UNCHANGED <<queue, pending, lifeVars, wake, consumerVars, cancelVars,
                    handlerVars, pendingCount, flushVars, stopVars>>
    BY DEF Reject
  <2> QED
    BY <2>1, <2>2, <2>3, <2>4
    DEF TypeOK, lifeVars, consumerVars, cancelVars, handlerVars, flushVars, stopVars
<1>3. CASE \E d \in Deliveries, o \in Settled \ {"rejected"} : Direct(d, o)
  <2> PICK d \in Deliveries, o \in Settled \ {"rejected"} : Direct(d, o)
    BY <1>3
  <2>1. CountResult(o) \in {"completed", "failed", "cancelled"}
    BY DEF CountResult
  <2>2. stats' \in [Counters -> Nat]
    <3> DEFINE c == CountResult(o)
    <3>1. stats' = [stats EXCEPT !["accepted"] = @ + 1, ![c] = @ + 1]
      BY DEF Direct
    <3>2. c \in Counters \ {"accepted"}
      BY <2>1 DEF Counters
    <3> HIDE DEF c
    <3>3. "accepted" \in Counters /\ c \in Counters /\ c # "accepted"
      BY <3>2 DEF Counters
    <3> QED
      BY <3>1, <3>3, CountTwo DEF TypeOK
  <2> QED
    <3>1. /\ sequence' \in Nat /\ number' \in [Deliveries -> Nat]
          /\ invoked' \in [Deliveries -> BOOLEAN]
      BY DEF Direct, NextNumber, TypeOK
    <3>2. /\ fact' \in [Deliveries -> Settled \cup {"unsent", "queued", "running"}]
          /\ settled' \subseteq Deliveries
      BY DEF Direct, TypeOK
    <3>3. UNCHANGED <<queue, pending, lifeVars, wake, consumerVars, cancelVars,
                      task, timedOut, pendingCount, flushVars, stopVars>>
      BY DEF Direct
    <3> QED
      BY <2>2, <3>1, <3>2, <3>3
      DEF TypeOK, lifeVars, consumerVars, cancelVars, flushVars, stopVars
<1>4. CASE \E e \in Events : \E S \in SUBSET pending : CancelExecution(e, S)
  <2> PICK S \in SUBSET pending : CancelDeliveries(S) /\ WakeIfWithdrawn(S)
                                  /\ UNCHANGED <<lifeVars, consumerVars, stopVars>>
    BY <1>4 DEF CancelExecution
  <2> QED
    BY CancelType DEF TypeOK, WakeIfWithdrawn
<1>5. CASE ConsumerEnter \/ ConsumerDiesUnentered \/ Sleep \/ Awake \/ RunEnds
           \/ IdleInterrupted \/ CancelConsumer
  <2>1. CASE ConsumerEnter \/ ConsumerDiesUnentered \/ IdleInterrupted
    BY <2>1 DEF ConsumerEnter, ConsumerDiesUnentered, IdleInterrupted,
         TypeOK, ConsumerStates, Holding, Ended
  <2>2. CASE Sleep \/ Awake
    BY <2>2 DEF Sleep, Awake, TypeOK, ConsumerStates, Holding
  <2>3. CASE RunEnds
    BY <2>3 DEF RunEnds, TypeOK, ConsumerStates, Ended
  <2>4. CASE CancelConsumer
    BY <2>4 DEF CancelConsumer, TypeOK
  <2> QED
    BY <1>5, <2>1, <2>2, <2>3, <2>4
<1>6. CASE TakeNext
  <2>1. Head(queue) \in Deliveries /\ queue' \in Seq(Deliveries)
    BY <1>6 DEF TakeNext, TypeOK
  <2> QED
    BY <1>6, <2>1 DEF TakeNext, MarkRunning, TypeOK, ConsumerStates, Live
<1>7. CASE ExecInterrupted
  <2>1. /\ cancelSent' \in [Deliveries -> BOOLEAN]
        /\ interrupts' \in [Deliveries -> Nat]
    BY <1>7, InterruptType DEF ExecInterrupted
  <2>2. cancelRequested' \in [Deliveries -> BOOLEAN]
    BY <1>7 DEF ExecInterrupted, TypeOK
  <2> QED
    BY <1>7, <2>1, <2>2
    DEF ExecInterrupted, AfterInterrupt, TypeOK, ConsumerStates, Holding
<1>8. CASE Collect
  <2>1. active \in Deliveries
    BY <1>8 DEF Collect, TaskDone, TypeOK
  <2>2. PICK o \in {"completed", "failed", "cancelled", "timeout"} : Finish({active}, o)
    BY <1>8 DEF Collect, ResultOf
  <2>3. /\ pending' \subseteq Deliveries
        /\ fact' \in [Deliveries -> Settled \cup {"unsent", "queued", "running"}]
        /\ settled' \subseteq Deliveries
        /\ stats' \in [Counters -> Nat]
        /\ pendingCount' \in [Events -> Nat]
    BY <2>1, <2>2, FinishType
  <2>4. task' \in [Deliveries -> Live \cup Outcomes \cup {"none"}] /\ active' = NoDelivery
    BY <1>8 DEF Collect, TypeOK
  <2>5. consumer' \in ConsumerStates
    <3>1. consumer' \in {"unwind", "loop"}
      BY <1>8, Zenon DEF Collect
    <3> QED
      BY <3>1 DEF ConsumerStates, Holding
  <2>6. UNCHANGED <<queue, sequence, number, lifeVars, wake, consumerCancel,
                    cancelVars, timedOut, invoked, flushVars, stopVars>>
    BY <1>8 DEF Collect
  <2> QED
    BY <2>3, <2>4, <2>5, <2>6 DEF TypeOK
<1>9. CASE Unwind
  BY <1>9, CancelType DEF Unwind, WakeIfWithdrawn, TypeOK, ConsumerStates, Ended
<1>10. CASE \E d \in Deliveries : HandlerEnter(d) \/ HandlerExit(d)
  <2> PICK d \in Deliveries : HandlerEnter(d) \/ HandlerExit(d)
    BY <1>10
  <2>1. task' \in [Deliveries -> Live \cup Outcomes \cup {"none"}]
    BY DEF HandlerEnter, HandlerExit, TypeOK, Live, Outcomes
  <2>2. invoked' \in [Deliveries -> BOOLEAN]
    BY Zenon DEF HandlerEnter, HandlerExit, TypeOK
  <2> QED
    BY <2>1, <2>2 DEF HandlerEnter, HandlerExit, TypeOK
<1>11. CASE \E d \in Deliveries : Expire(d)
  <2> PICK d \in Deliveries : Expire(d)
    BY <1>11
  <2>1. /\ cancelSent' \in [Deliveries -> BOOLEAN]
        /\ interrupts' \in [Deliveries -> Nat]
    BY InterruptType DEF Expire
  <2> QED
    BY <2>1 DEF Expire, TypeOK
<1>12. CASE Start \/ Close
  <2>1. CASE Start
    BY <2>1 DEF Start, TypeOK, ConsumerStates
  <2>2. CASE Close
    BY <2>2 DEF Close, TypeOK
  <2> QED
    BY <1>12, <2>1, <2>2
<1>13. CASE \E drain \in BOOLEAN : Stop(drain)
  <2> PICK drain \in BOOLEAN : Stop(drain)
    BY <1>13
  <2>1. PICK S \in SUBSET Deliveries : CancelDeliveries(S)
    BY DEF Stop, TypeOK
  <2> QED
    BY <2>1, CancelType DEF Stop, WakeUp, TypeOK, ConsumerStates
<1>14. CASE StopReturn
  BY <1>14, CancelType DEF StopReturn, WakeIfWithdrawn, TypeOK, ConsumerStates, Ended
<1>15. CASE StopTimeout
  BY <1>15, CancelType DEF StopTimeout, ReportTimeout, WakeIfWithdrawn, TypeOK
<1>16. CASE StopAbandoned
  BY <1>16 DEF StopAbandoned, TypeOK
<1>17. CASE \E f \in Flushers : FlushStep(f)
  <2> PICK f \in Flushers : FlushStep(f)
    BY <1>17
  <2>1. flush[f] \in [at : {"idle", "waiting", "returning"},
                      prefix : SUBSET Deliveries, upto : Nat,
                      known : SUBSET Deliveries]
    BY DEF TypeOK
  <2>2. CASE FlushNothing(f)
    BY <2>2 DEF FlushNothing, TypeOK
  <2>3. CASE FlushBegin(f)
    BY <2>3 DEF FlushBegin, TypeOK
  <2>4. CASE FlushSettle(f)
    <3>1. settled' \subseteq Deliveries /\ acked' \subseteq Deliveries
      BY <2>1, <2>4 DEF FlushSettle, Unreported, FlushReport, TypeOK
    <3>2. [flush[f] EXCEPT !.at = "returning"]
            \in [at : {"idle", "waiting", "returning"},
                prefix : SUBSET Deliveries, upto : Nat, known : SUBSET Deliveries]
      BY <2>1
    <3>3. NoFlush \in [at : {"idle", "waiting", "returning"},
                      prefix : SUBSET Deliveries, upto : Nat,
                      known : SUBSET Deliveries]
      BY DEF NoFlush
    <3>4. flush' \in [Flushers -> [at : {"idle", "waiting", "returning"},
                                  prefix : SUBSET Deliveries, upto : Nat,
                                  known : SUBSET Deliveries]]
      BY <2>4, <3>2, <3>3 DEF FlushSettle, TypeOK
    <3> QED
      BY <2>4, <3>1, <3>4 DEF FlushSettle, FlushUnchanged, queueVars, lifeVars,
         consumerVars, cancelVars, handlerVars, stopVars, TypeOK
  <2>5. CASE FlushReturn(f)
    BY <2>1, <2>5 DEF FlushReturn, FlushReport, NoFlush, TypeOK
  <2>6. CASE FlushAbandoned(f)
    BY <2>6 DEF FlushAbandoned, NoFlush, TypeOK
  <2> QED
    BY <2>2, <2>3, <2>4, <2>5, <2>6 DEF FlushStep
<1>18. CASE UNCHANGED vars
  BY <1>18 DEF vars, TypeOK
<1> QED
  BY <1>1, <1>2, <1>3, <1>4, <1>5, <1>6, <1>7, <1>8, <1>9, <1>10, <1>11, <1>12,
     <1>13, <1>14, <1>15, <1>16, <1>17, <1>18 DEF Next, ConsumerStep, StopStep

(* Every variable keeps its type in every behaviour.                       *)
THEOREM TypeCorrect == Spec => []TypeOK
BY TypeInit, TypeStep, PTL DEF Spec

-----------------------------------------------------------------------------
(* The inductive invariant behind seriality and order.  The listed         *)
(* properties support one another (who may leave the queue depends on the  *)
(* records, the records on who is active); what they lack is that no       *)
(* number is ahead of the sequence and that a stop which is about to       *)
(* return has no consumer.                                                 *)
NumbersBounded   == \A d \in Deliveries : number[d] <= sequence
StopperReturning == stopper = "returning" => consumer \in Ended
TasksOfActive    == \A d \in Deliveries : task[d] # "none" => d = active /\ d \in pending
Supervised       == (active # NoDelivery) <=> consumer \in {"exec", "reap", "collect"}

LineInv == QueueIsWaiting /\ SerialOrder /\ RecordsAgree /\ TasksOfActive /\ NumbersBounded
SerialInv == TypeOK /\ LineInv /\ Supervised /\ StopperReturning

(* A queue in admission order holds nothing twice.                         *)
LEMMA OrderedIsDistinct ==
    ASSUME TypeOK, NEW q \in Seq(Deliveries),
           \A i, j \in DOMAIN q : i < j => number[q[i]] < number[q[j]]
    PROVE  \A i, j \in DOMAIN q : q[i] = q[j] => i = j
<1> SUFFICES ASSUME NEW i \in DOMAIN q, NEW j \in DOMAIN q, q[i] = q[j], i # j
             PROVE  FALSE
  OBVIOUS
<1>1. i \in Nat /\ j \in Nat /\ number[q[i]] \in Nat
  <2>1. i \in Nat /\ j \in Nat /\ q[i] \in Deliveries
    OBVIOUS
  <2> QED
    BY <2>1 DEF TypeOK
<1>2. i < j \/ j < i
  BY <1>1
<1> QED
  BY <1>1, <1>2

(* A step that changes none of the loop's bookkeeping keeps it right.      *)
lineVars == <<queue, pending, sequence, number, active, task, fact>>

LEMMA LineFrame == LineInv /\ UNCHANGED lineVars => LineInv'
BY DEF LineInv, lineVars, QueueIsWaiting, SerialOrder, RecordsAgree,
       TasksOfActive, NumbersBounded, InQueue, Waiting

(* Whatever is withdrawn, the line stays a line.                           *)
LEMMA CancelKeepsLine ==
    ASSUME TypeOK, LineInv, NEW S, S \subseteq pending, CancelDeliveries(S),
           active' = active
    PROVE  LineInv'
<1> DEFINE W == {d \in S : Waiting(d)}
<1>1. /\ queue' \in Retained(queue, W)
      /\ pending' = pending \ W
      /\ fact' = [d \in Deliveries |-> IF d \in W THEN "cancelled" ELSE fact[d]]
      /\ UNCHANGED <<sequence, number, task>>
  BY DEF CancelDeliveries, Finish
<1>2. W \subseteq pending /\ W \subseteq Deliveries
  BY DEF TypeOK
<1>3. \A d \in W : task[d] = "none" /\ fact[d] = "queued" /\ d # active
  BY <1>2 DEF LineInv, RecordsAgree, Waiting
<1>4. \A d \in Deliveries : Waiting(d)' <=> Waiting(d) /\ d \notin W
  BY <1>1 DEF Waiting
<1> HIDE DEF W
<1>5. /\ queue' \in Seq(Deliveries)
      /\ InQueue' = InQueue \ W
      /\ InOrder(queue', queue)
  BY <1>1, RetainedFacts DEF TypeOK, InQueue
<1>6. \A i, j \in DOMAIN queue' : i < j => number[queue'[i]] < number[queue'[j]]
  <2> SUFFICES ASSUME NEW i \in DOMAIN queue', NEW j \in DOMAIN queue', i < j
               PROVE  number[queue'[i]] < number[queue'[j]]
    OBVIOUS
  <2> PICK k \in DOMAIN queue, l \in DOMAIN queue :
           k < l /\ queue[k] = queue'[i] /\ queue[l] = queue'[j]
    BY <1>5 DEF InOrder
  <2> QED
    BY DEF LineInv, SerialOrder
<1>7. SerialOrder'
  BY <1>1, <1>5, <1>6 DEF LineInv, SerialOrder
<1>8. QueueIsWaiting'
  <2>1. \A i, j \in DOMAIN queue' : queue'[i] = queue'[j] => i = j
    BY <1>5, <1>6, OrderedIsDistinct
  <2>2. InQueue' = {d \in Deliveries : Waiting(d)'}
    BY <1>4, <1>5 DEF LineInv, QueueIsWaiting
  <2> QED
    BY <2>1, <2>2 DEF QueueIsWaiting
<1>9. RecordsAgree'
  <2>1. \A d \in Deliveries : fact'[d] = IF d \in W THEN "cancelled" ELSE fact[d]
    BY <1>1
  <2>2. \A d \in Deliveries : d \in W => fact[d] = "queued" /\ number[d] # 0
    BY <1>3 DEF LineInv, RecordsAgree
  <2>3. \A d \in Deliveries :
          /\ fact'[d] = "queued"  <=> Waiting(d)'
          /\ fact'[d] = "running" <=> d = active'
          /\ fact'[d] = "unsent"  <=> number'[d] = 0
    BY <1>1, <1>3, <1>4, <2>1, <2>2 DEF LineInv, RecordsAgree
  <2>4. pending' = {d \in Deliveries : fact'[d] \in {"queued", "running"}}
    BY <1>1, <1>2, <2>1 DEF LineInv, RecordsAgree
  <2> QED
    BY <2>3, <2>4 DEF RecordsAgree
<1>10. TasksOfActive' /\ NumbersBounded'
  BY <1>1, <1>3 DEF LineInv, TasksOfActive, NumbersBounded
<1> QED
  BY <1>7, <1>8, <1>9, <1>10 DEF LineInv

LEMMA SerialInit == Init => SerialInv
<1> SUFFICES ASSUME Init PROVE SerialInv
  OBVIOUS
<1>1. TypeOK
  BY TypeInit
<1>2. LineInv
  BY DEF Init, LineInv, QueueIsWaiting, SerialOrder, RecordsAgree, TasksOfActive,
         NumbersBounded, InQueue, Waiting
<1> QED
  BY <1>1, <1>2 DEF Init, SerialInv, Supervised, StopperReturning, Ended

(* Admission: the new number is the largest, so it belongs at the end.     *)
LEMMA AdmitKeepsLine ==
    ASSUME TypeOK, LineInv, NEW d \in Deliveries, Admit(d)
    PROVE  LineInv'
<1>1. /\ queue' = Append(queue, d)
      /\ pending' = pending \cup {d}
      /\ fact' = [fact EXCEPT ![d] = "queued"]
      /\ number' = [number EXCEPT ![d] = sequence + 1]
      /\ sequence' = sequence + 1
      /\ UNCHANGED <<active, task>>
      /\ number[d] = 0
  BY DEF Admit, NextNumber, Fresh
<1>2. fact[d] = "unsent" /\ d \notin pending /\ d # active /\ task[d] = "none" /\ ~Waiting(d)
  BY <1>1 DEF LineInv, RecordsAgree, TasksOfActive, Waiting
<1>3. d \notin InQueue /\ active # d
  BY <1>2 DEF LineInv, QueueIsWaiting
<1>4. \A e \in Deliveries : Waiting(e)' <=> Waiting(e) \/ e = d
  BY <1>1, <1>2 DEF Waiting
<1>5. /\ DOMAIN queue' = 1..Len(queue) + 1
      /\ \A i \in 1..Len(queue) : queue'[i] = queue[i] /\ queue[i] \in Deliveries
      /\ queue'[Len(queue) + 1] = d
      /\ DOMAIN queue = 1..Len(queue) /\ Len(queue) \in Nat
  BY <1>1 DEF TypeOK
<1>6. InQueue' = InQueue \cup {d}
  BY <1>5 DEF InQueue
<1>7. \A e \in Deliveries : e # d => number'[e] = number[e] /\ number[e] <= sequence
  BY <1>1 DEF TypeOK, LineInv, NumbersBounded
<1>8. number'[d] = sequence + 1
  BY <1>1 DEF TypeOK
<1>9. \A i, j \in DOMAIN queue' : i < j => number'[queue'[i]] < number'[queue'[j]]
  <2> SUFFICES ASSUME NEW i \in DOMAIN queue', NEW j \in DOMAIN queue', i < j
               PROVE  number'[queue'[i]] < number'[queue'[j]]
    OBVIOUS
  <2>1. i \in 1..Len(queue) /\ queue'[i] = queue[i] /\ queue[i] \in InQueue
    BY <1>5 DEF InQueue
  <2>2. number'[queue'[i]] = number[queue[i]] /\ number[queue[i]] <= sequence
    BY <1>3, <1>5, <1>7, <2>1
  <2>3. CASE j \in 1..Len(queue)
    <3>1. queue'[j] = queue[j] /\ queue[j] \in InQueue /\ queue[j] \in Deliveries
      BY <1>5, <2>3 DEF InQueue
    <3>2. number'[queue'[j]] = number[queue[j]]
      BY <1>3, <1>7, <3>1
    <3> QED
      BY <1>5, <2>1, <2>2, <2>3, <3>2 DEF LineInv, SerialOrder
  <2>4. CASE j = Len(queue) + 1
    <3>1. number[queue[i]] \in Nat /\ sequence \in Nat
      BY <1>5, <2>1 DEF TypeOK
    <3> QED
      BY <1>5, <1>8, <2>2, <2>4, <3>1
  <2> QED
    BY <1>5, <2>3, <2>4
<1>10. SerialOrder'
  <2>1. active # NoDelivery =>
           /\ active \in Deliveries /\ number'[active] = number[active]
           /\ number[active] <= sequence /\ number[active] \in Nat
    BY <1>3, <1>7 DEF TypeOK
  <2>2. active # NoDelivery => number'[active] < number'[d]
    BY <1>8, <2>1 DEF TypeOK
  <2>3. \A e \in InQueue : e # d /\ e \in Deliveries
    BY <1>3, <1>5 DEF InQueue
  <2>4. active # NoDelivery => \A e \in InQueue : number'[active] < number'[e]
    BY <1>7, <2>1, <2>3 DEF LineInv, SerialOrder
  <2> QED
    BY <1>1, <1>6, <1>9, <2>2, <2>4 DEF SerialOrder
<1>11. QueueIsWaiting'
  <2>1. \A i, j \in DOMAIN queue' : queue'[i] = queue'[j] => i = j
    BY <1>3, <1>5 DEF LineInv, QueueIsWaiting, InQueue
  <2>2. InQueue' = {e \in Deliveries : Waiting(e)'}
    BY <1>4, <1>6 DEF LineInv, QueueIsWaiting
  <2> QED
    BY <2>1, <2>2 DEF QueueIsWaiting
<1>12. RecordsAgree'
  <2>1. \A e \in Deliveries : fact'[e] = IF e = d THEN "queued" ELSE fact[e]
    BY <1>1 DEF TypeOK
  <2>2. \A e \in Deliveries :
          /\ fact'[e] = "queued"  <=> Waiting(e)'
          /\ fact'[e] = "running" <=> e = active'
          /\ fact'[e] = "unsent"  <=> number'[e] = 0
    BY <1>1, <1>2, <1>4, <1>7, <1>8, <2>1 DEF LineInv, RecordsAgree, TypeOK
  <2>3. pending' = {e \in Deliveries : fact'[e] \in {"queued", "running"}}
    BY <1>1, <2>1 DEF LineInv, RecordsAgree
  <2> QED
    BY <2>2, <2>3 DEF RecordsAgree
<1>13. TasksOfActive' /\ NumbersBounded'
  BY <1>1, <1>7, <1>8 DEF LineInv, TasksOfActive, NumbersBounded, TypeOK
<1> QED
  BY <1>10, <1>11, <1>12, <1>13 DEF LineInv

(* A rejected or a direct delivery takes a number and settles, and the     *)
(* line does not see it.                                                   *)
LEMMA BypassKeepsLine ==
    ASSUME TypeOK, LineInv, NEW d \in Deliveries, number[d] = 0, NextNumber(d),
           NEW outcome \in Settled, fact' = [fact EXCEPT ![d] = outcome],
           UNCHANGED <<queue, pending, active, task>>
    PROVE  LineInv'
<1>1. fact[d] = "unsent" /\ d \notin pending /\ d # active /\ ~Waiting(d)
  BY DEF LineInv, RecordsAgree, Waiting
<1>2. d \notin InQueue
  BY <1>1 DEF LineInv, QueueIsWaiting
<1>3. \A e \in Deliveries : e # d => number'[e] = number[e]
  BY DEF NextNumber, TypeOK
<1>4. number'[d] = sequence + 1 /\ sequence' = sequence + 1
  BY DEF NextNumber, TypeOK
<1>5. \A i \in DOMAIN queue : queue[i] \in Deliveries /\ queue[i] \in InQueue
  BY DEF InQueue, TypeOK
<1>6. SerialOrder'
  <2>1. \A e \in InQueue : e \in Deliveries /\ number'[e] = number[e]
    BY <1>2, <1>3 DEF InQueue, TypeOK
  <2>2. active # NoDelivery => number'[active] = number[active]
    BY <1>1, <1>3 DEF TypeOK
  <2> QED
    BY <1>5, <2>1, <2>2 DEF LineInv, SerialOrder, InQueue
<1>7. QueueIsWaiting'
  BY DEF LineInv, QueueIsWaiting, InQueue, Waiting
<1>8. RecordsAgree'
  <2>1. \A e \in Deliveries : fact'[e] = IF e = d THEN outcome ELSE fact[e]
    BY DEF TypeOK
  <2>2. outcome \notin {"queued", "running", "unsent"}
    BY DEF Settled
  <2>3. \A e \in Deliveries : Waiting(e)' <=> Waiting(e)
    BY DEF Waiting
  <2>4. \A e \in Deliveries :
          /\ fact'[e] = "queued"  <=> Waiting(e)'
          /\ fact'[e] = "running" <=> e = active'
          /\ fact'[e] = "unsent"  <=> number'[e] = 0
    BY <1>1, <1>3, <1>4, <2>1, <2>2, <2>3 DEF LineInv, RecordsAgree, TypeOK
  <2>5. pending' = {e \in Deliveries : fact'[e] \in {"queued", "running"}}
    BY <1>1, <2>1, <2>2 DEF LineInv, RecordsAgree
  <2> QED
    BY <2>4, <2>5 DEF RecordsAgree
<1>9. TasksOfActive'
  BY DEF LineInv, TasksOfActive
<1>10. NumbersBounded'
  <2>1. \A e \in Deliveries : number[e] \in Nat /\ number[e] <= sequence /\ sequence \in Nat
    BY DEF LineInv, NumbersBounded, TypeOK
  <2>2. \A e \in Deliveries : number'[e] <= sequence + 1
    BY <1>3, <1>4, <2>1
  <2> QED
    BY <1>4, <2>2 DEF NumbersBounded
<1> QED
  BY <1>6, <1>7, <1>8, <1>9, <1>10 DEF LineInv

(* The consumer takes the oldest of the line.                              *)
LEMMA TakeNextKeepsLine ==
    ASSUME TypeOK, LineInv, Supervised, TakeNext
    PROVE  LineInv' /\ Supervised'
<1> DEFINE h == Head(queue)
<1>1. /\ queue # <<>> /\ h = queue[1] /\ h \in Deliveries /\ h \in InQueue
      /\ Len(queue) \in Nat \ {0} /\ DOMAIN queue = 1..Len(queue)
  BY DEF TakeNext, TypeOK, InQueue
<1>2. Waiting(h) /\ h \in pending /\ task[h] = "none" /\ fact[h] = "queued"
  BY <1>1 DEF LineInv, QueueIsWaiting, RecordsAgree, Waiting
<1>3. active = NoDelivery
  BY DEF TakeNext, Supervised
<1>4. /\ queue' = Tail(queue) /\ active' = h
      /\ fact' = [fact EXCEPT ![h] = "running"]
      /\ task' = [task EXCEPT ![h] = "created"]
      /\ consumer' = "exec"
      /\ UNCHANGED <<pending, sequence, number>>
  BY <1>2 DEF TakeNext, MarkRunning
<1>5. /\ DOMAIN queue' = 1..(Len(queue) - 1)
      /\ \A i \in DOMAIN queue' : i + 1 \in DOMAIN queue /\ queue'[i] = queue[i + 1]
  <2>1. queue \in Seq(Deliveries) /\ queue' = Tail(queue)
    BY <1>4 DEF TypeOK
  <2>2. DOMAIN queue' = 1..(Len(queue) - 1)
    BY <1>1, <2>1
  <2>3. ASSUME NEW i \in DOMAIN queue'
        PROVE  i + 1 \in DOMAIN queue /\ queue'[i] = queue[i + 1]
    BY <1>1, <2>1, <2>2
  <2> QED
    BY <2>2, <2>3
<1>6. \A i \in DOMAIN queue : i = 1 \/ (i - 1 \in DOMAIN queue' /\ queue'[i - 1] = queue[i])
  BY <1>1, <1>5
<1>7. \A i, j \in DOMAIN queue : queue[i] = queue[j] => i = j
  BY DEF LineInv, QueueIsWaiting
<1> HIDE DEF h
<1>8. InQueue' = InQueue \ {h}
  <2>1. \A i \in DOMAIN queue' : queue'[i] \in InQueue /\ queue'[i] # h
    <3> TAKE i \in DOMAIN queue'
    <3>1. i + 1 \in DOMAIN queue /\ queue'[i] = queue[i + 1] /\ i \in 1..(Len(queue) - 1)
      BY <1>5
    <3>2. 1 \in DOMAIN queue /\ i + 1 # 1
      BY <1>1, <3>1
    <3> QED
      BY <1>1, <1>7, <3>1, <3>2 DEF InQueue
  <2>2. \A i \in DOMAIN queue : queue[i] # h => queue[i] \in InQueue'
    BY <1>1, <1>6 DEF InQueue
  <2> QED
    BY <2>1, <2>2 DEF InQueue
<1>9. \A d \in Deliveries : Waiting(d)' <=> Waiting(d) /\ d # h
  BY <1>1, <1>4 DEF Waiting, TypeOK
<1>10. QueueIsWaiting'
  <2>1. \A i, j \in DOMAIN queue' : queue'[i] = queue'[j] => i = j
    <3> TAKE i, j \in DOMAIN queue'
    <3>1. i \in Nat /\ j \in Nat
      BY <1>5
    <3> QED
      BY <1>5, <1>7, <3>1
  <2>2. InQueue' = {d \in Deliveries : Waiting(d)'}
    BY <1>8, <1>9 DEF LineInv, QueueIsWaiting
  <2> QED
    BY <2>1, <2>2 DEF QueueIsWaiting
<1>11. SerialOrder'
  <2>1. \A i, j \in DOMAIN queue' : i < j => number[queue'[i]] < number[queue'[j]]
    <3> TAKE i, j \in DOMAIN queue'
    <3>1. i \in Nat /\ j \in Nat
      BY <1>5
    <3> QED
      BY <1>5, <3>1 DEF LineInv, SerialOrder
  <2>2. \A i \in DOMAIN queue' : number[h] < number[queue'[i]]
    <3> TAKE i \in DOMAIN queue'
    <3>1. i + 1 \in DOMAIN queue /\ queue'[i] = queue[i + 1] /\ i \in 1..(Len(queue) - 1)
      BY <1>5
    <3>2. 1 \in DOMAIN queue /\ 1 < i + 1
      BY <1>1, <3>1
    <3> QED
      BY <1>1, <3>1, <3>2 DEF LineInv, SerialOrder
  <2> QED
    BY <1>4, <2>1, <2>2 DEF SerialOrder, InQueue
<1>12. RecordsAgree'
  <2>1. \A d \in Deliveries : fact'[d] = IF d = h THEN "running" ELSE fact[d]
    BY <1>4 DEF TypeOK
  <2>2. \A d \in Deliveries : fact[d] # "running"
    BY <1>3 DEF LineInv, RecordsAgree
  <2>3. \A d \in Deliveries :
          /\ fact'[d] = "queued"  <=> Waiting(d)'
          /\ fact'[d] = "running" <=> d = active'
          /\ fact'[d] = "unsent"  <=> number'[d] = 0
    BY <1>2, <1>4, <1>9, <2>1, <2>2 DEF LineInv, RecordsAgree
  <2>4. pending' = {d \in Deliveries : fact'[d] \in {"queued", "running"}}
    BY <1>2, <1>4, <2>1 DEF LineInv, RecordsAgree
  <2> QED
    BY <2>3, <2>4 DEF RecordsAgree
<1>13. TasksOfActive'
  <2>1. \A d \in Deliveries : task[d] = "none"
    BY <1>3 DEF LineInv, TasksOfActive
  <2> QED
    BY <1>2, <1>4, <2>1 DEF TasksOfActive, TypeOK
<1>14. NumbersBounded'
  BY <1>4 DEF LineInv, NumbersBounded
<1>15. Supervised'
  BY <1>1, <1>4 DEF Supervised
<1> QED
  BY <1>10, <1>11, <1>12, <1>13, <1>14, <1>15 DEF LineInv

(* The active delivery settles, and no other.                              *)
LEMMA CollectKeepsLine ==
    ASSUME TypeOK, LineInv, Supervised, Collect
    PROVE  LineInv' /\ Supervised'
<1>1. active \in Deliveries /\ active # NoDelivery
  BY DEF Collect, TaskDone, TypeOK
<1>2. PICK o \in {"completed", "failed", "cancelled", "timeout"} : Finish({active}, o)
  BY DEF Collect, ResultOf
<1>3. /\ fact' = [d \in Deliveries |-> IF d = active THEN o ELSE fact[d]]
      /\ pending' = pending \ {active}
      /\ task' = [task EXCEPT ![active] = "none"]
      /\ active' = NoDelivery
      /\ consumer' \in {"unwind", "loop"}
      /\ UNCHANGED <<queue, sequence, number>>
  BY <1>2 DEF Collect, Finish
<1>4. fact[active] = "running" /\ active \in pending /\ ~Waiting(active) /\ number[active] # 0
  BY <1>1 DEF LineInv, RecordsAgree
<1>5. \A d \in Deliveries : Waiting(d)' <=> Waiting(d)
  BY <1>3, <1>4 DEF Waiting, TypeOK
<1>6. QueueIsWaiting'
  BY <1>3, <1>5 DEF LineInv, QueueIsWaiting, InQueue
<1>7. SerialOrder'
  BY <1>3 DEF LineInv, SerialOrder
<1>8. RecordsAgree'
  <2>1. NoDelivery \notin Deliveries
    OBVIOUS
  <2>2. \A d \in Deliveries :
          /\ fact'[d] = "queued"  <=> Waiting(d)'
          /\ fact'[d] = "running" <=> d = active'
          /\ fact'[d] = "unsent"  <=> number'[d] = 0
    BY <1>3, <1>4, <1>5, <2>1 DEF LineInv, RecordsAgree
  <2>3. pending' = {d \in Deliveries : fact'[d] \in {"queued", "running"}}
    BY <1>1, <1>3 DEF LineInv, RecordsAgree
  <2> QED
    BY <2>2, <2>3 DEF RecordsAgree
<1>9. TasksOfActive'
  BY <1>1, <1>3 DEF LineInv, TasksOfActive, TypeOK
<1>10. NumbersBounded' /\ Supervised'
  BY <1>3 DEF LineInv, NumbersBounded, Supervised
<1> QED
  BY <1>6, <1>7, <1>8, <1>9, <1>10 DEF LineInv

LEMMA SerialStep == SerialInv /\ [Next]_vars => SerialInv'
<1> SUFFICES ASSUME SerialInv, [Next]_vars PROVE SerialInv'
  OBVIOUS
<1> USE DEF SerialInv
<1>0. TypeOK' /\ TypeOK
  BY TypeStep
<1>1. CASE \E d \in Deliveries : Admit(d)
  <2> PICK d \in Deliveries : Admit(d)
    BY <1>1
  <2>1. LineInv'
    BY AdmitKeepsLine
  <2> QED
    BY <1>0, <2>1 DEF Admit, Supervised, StopperReturning
<1>2. CASE \E d \in Deliveries : Reject(d)
  <2> PICK d \in Deliveries : Reject(d)
    BY <1>2
  <2>1. LineInv'
    BY BypassKeepsLine DEF Reject, Fresh, Settled
  <2> QED
    BY <1>0, <2>1 DEF Reject, Supervised, StopperReturning
<1>3. CASE \E d \in Deliveries, o \in Settled \ {"rejected"} : Direct(d, o)
  <2> PICK d \in Deliveries, o \in Settled \ {"rejected"} : Direct(d, o)
    BY <1>3
  <2>1. LineInv'
    BY BypassKeepsLine DEF Direct, Fresh
  <2> QED
    BY <1>0, <2>1 DEF Direct, Supervised, StopperReturning
<1>4. CASE \E e \in Events : \E S \in SUBSET pending : CancelExecution(e, S)
  <2> PICK S \in SUBSET pending : CancelDeliveries(S)
                                  /\ UNCHANGED <<consumerVars, stopVars>>
    BY <1>4 DEF CancelExecution
  <2>1. LineInv'
    BY CancelKeepsLine
  <2> QED
    BY <1>0, <2>1 DEF Supervised, StopperReturning
<1>5. CASE ConsumerEnter \/ ConsumerDiesUnentered \/ Sleep \/ Awake \/ IdleInterrupted
  <2>1. UNCHANGED lineVars
    BY <1>5 DEF ConsumerEnter, ConsumerDiesUnentered, Sleep, Awake,
         IdleInterrupted, lineVars
  <2>2. Supervised' /\ StopperReturning'
    BY <1>5 DEF ConsumerEnter, ConsumerDiesUnentered, Sleep, Awake,
         IdleInterrupted, Supervised, StopperReturning, Ended
  <2> QED
    BY <1>0, <2>1, <2>2, LineFrame
<1>6. CASE RunEnds \/ CancelConsumer
  <2>1. UNCHANGED lineVars
    BY <1>6 DEF RunEnds, CancelConsumer, lineVars
  <2>2. Supervised' /\ StopperReturning'
    BY <1>6 DEF RunEnds, CancelConsumer, Supervised, StopperReturning, Ended
  <2> QED
    BY <1>0, <2>1, <2>2, LineFrame
<1>7. CASE TakeNext
  <2>1. LineInv' /\ Supervised'
    BY <1>7, TakeNextKeepsLine
  <2> QED
    BY <1>0, <1>7, <2>1 DEF TakeNext, StopperReturning, Ended
<1>8. CASE ExecInterrupted
  <2>1. UNCHANGED lineVars
    BY <1>8 DEF ExecInterrupted, lineVars
  <2>2. TaskDone => active # NoDelivery
    BY DEF TaskDone
  <2>3. Supervised' /\ StopperReturning'
    BY <1>8 DEF ExecInterrupted, AfterInterrupt, Supervised, StopperReturning, Ended
  <2> QED
    BY <1>0, <2>1, <2>3, LineFrame
<1>9. CASE Collect
  <2>1. LineInv' /\ Supervised'
    BY <1>9, CollectKeepsLine
  <2> QED
    BY <1>0, <1>9, <2>1 DEF Collect, StopperReturning, Ended, Yielded
<1>10. CASE Unwind
  <2>1. LineInv'
    BY <1>10, CancelKeepsLine DEF Unwind
  <2> QED
    BY <1>0, <1>10, <2>1 DEF Unwind, Supervised, StopperReturning, Ended
<1>11. CASE \E d \in Deliveries : HandlerEnter(d) \/ HandlerExit(d)
  <2> PICK d \in Deliveries : HandlerEnter(d) \/ HandlerExit(d)
    BY <1>11
  <2>1. PICK t \in Live \cup Outcomes : task' = [task EXCEPT ![d] = t]
    BY DEF HandlerEnter, HandlerExit, Live, Outcomes
  <2>2. task[d] # "none" /\ UNCHANGED <<queueVars, fact, active, consumer, stopper>>
    BY DEF HandlerEnter, HandlerExit, HandlerUnchanged
  <2>3. \A e \in Deliveries : task'[e] = "none" <=> task[e] = "none"
    BY <2>1, <2>2 DEF TypeOK, Live, Outcomes
  <2>4. \A e \in Deliveries : Waiting(e)' <=> Waiting(e)
    BY <2>2, <2>3 DEF Waiting
  <2>5. LineInv'
    BY <2>2, <2>3, <2>4 DEF LineInv, QueueIsWaiting, SerialOrder, RecordsAgree,
         TasksOfActive, NumbersBounded, InQueue
  <2> QED
    BY <1>0, <2>2, <2>5 DEF Supervised, StopperReturning
<1>12. CASE \E d \in Deliveries : Expire(d)
  <2> PICK d \in Deliveries : Expire(d)
    BY <1>12
  <2>1. UNCHANGED lineVars
    BY DEF Expire, lineVars
  <2> QED
    BY <1>0, <2>1, LineFrame DEF Expire, Supervised, StopperReturning
<1>13. CASE Start \/ Close
  <2>1. UNCHANGED lineVars
    BY <1>13 DEF Start, Close, lineVars
  <2> QED
    BY <1>0, <1>13, <2>1, LineFrame
    DEF Start, Close, Supervised, StopperReturning, Ended, Yielded
<1>14. CASE \E drain \in BOOLEAN : Stop(drain)
  <2> PICK drain \in BOOLEAN : Stop(drain)
    BY <1>14
  <2>1. LineInv'
    <3>1. PICK S \in SUBSET pending : CancelDeliveries(S)
      BY DEF Stop
    <3> QED
      BY <3>1, CancelKeepsLine DEF Stop
  <2>2. Supervised' /\ StopperReturning'
    BY DEF Stop, LateStart, Supervised, StopperReturning
  <2> QED
    BY <1>0, <2>1, <2>2
<1>15. CASE StopReturn
  <2>1. LineInv'
    BY <1>15, CancelKeepsLine DEF StopReturn
  <2>2. consumer \in Ended
    BY <1>15 DEF StopReturn, StopperReturning
  <2> QED
    BY <1>0, <1>15, <2>1, <2>2 DEF StopReturn, Supervised, StopperReturning, Ended
<1>16. CASE StopTimeout
  <2>1. LineInv'
    BY <1>16, CancelKeepsLine DEF StopTimeout
  <2> QED
    BY <1>0, <1>16, <2>1 DEF StopTimeout, Supervised, StopperReturning
<1>17. CASE StopAbandoned
  BY <1>0, <1>17, LineFrame DEF StopAbandoned, lineVars, Supervised, StopperReturning
<1>18. CASE \E f \in Flushers : FlushStep(f)
  <2>1. UNCHANGED <<lineVars, consumer, stopper>>
    BY <1>18 DEF FlushStep, FlushNothing, FlushBegin, FlushSettle, FlushReturn,
         FlushAbandoned, lineVars
  <2>2. LineInv'
    BY <2>1, LineFrame
  <2> QED
    BY <1>0, <2>1, <2>2 DEF lineVars, Supervised, StopperReturning
<1>19. CASE UNCHANGED vars
  BY <1>0, <1>19, LineFrame DEF vars, lineVars, Supervised, StopperReturning
<1> QED
  BY <1>1, <1>2, <1>3, <1>4, <1>5, <1>6, <1>7, <1>8, <1>9, <1>10, <1>11, <1>12,
     <1>13, <1>14, <1>15, <1>16, <1>17, <1>18, <1>19
  DEF Next, ConsumerStep, StopStep

THEOREM SerialInvariant == Spec => []SerialInv
BY SerialInit, SerialStep, PTL DEF Spec

(* The queue is exactly what is accepted and not begun.                    *)
THEOREM QueueCorrect == Spec => []QueueIsWaiting
BY SerialInvariant, PTL DEF SerialInv, LineInv

(* Deliveries begin in the order of their admission.                       *)
THEOREM OrderCorrect == Spec => []SerialOrder
BY SerialInvariant, PTL DEF SerialInv, LineInv

(* A handler runs only under a consumer that supervises it, and alone.     *)
THEOREM SerialCorrect == Spec => []OneHandler
<1>1. SerialInv => OneHandler
  BY DEF SerialInv, LineInv, OneHandler, TasksOfActive, Supervised
<1> QED
  BY <1>1, SerialInvariant, PTL

(* The public record of a delivery agrees with the loop's own state.       *)
THEOREM RecordsCorrect == Spec => []RecordsAgree
BY SerialInvariant, PTL DEF SerialInv, LineInv

-----------------------------------------------------------------------------
(* Interrupts.  cancel_sent, the record's cancel_requested and the         *)
(* task.cancel() that was really sent move together while the handler      *)
(* lives, and none of them is set before the delivery has begun.           *)
InterruptInv ==
    \A d \in Deliveries :
        /\ interrupts[d] <= 1
        /\ ~cancelSent[d] => interrupts[d] = 0
        /\ (task[d] \in Live /\ (cancelSent[d] \/ cancelRequested[d])) => interrupts[d] = 1
        /\ fact[d] \in {"unsent", "queued"} => ~cancelSent[d] /\ ~cancelRequested[d]

(* Interrupting deliveries that had no cancel sent keeps them in step.     *)
LEMMA InterruptKeeps ==
    ASSUME TypeOK, InterruptInv, NEW S, Interrupt(S),
           \A d \in S : ~cancelSent[d] /\ fact[d] \notin {"unsent", "queued"},
           NEW R, cancelRequested' = [d \in Deliveries |-> cancelRequested[d] \/ d \in R],
           \A d \in R : task[d] \in Live => d \in S \/ cancelSent[d],
           \A d \in R : fact'[d] \notin {"unsent", "queued"},
           \A d \in Deliveries : fact'[d] = fact[d] \/ fact'[d] \notin {"unsent", "queued"},
           UNCHANGED task
    PROVE  InterruptInv'
<1> SUFFICES ASSUME NEW d \in Deliveries
             PROVE  /\ interrupts'[d] <= 1
                    /\ ~cancelSent'[d] => interrupts'[d] = 0
                    /\ (task'[d] \in Live /\ (cancelSent'[d] \/ cancelRequested'[d]))
                            => interrupts'[d] = 1
                    /\ fact'[d] \in {"unsent", "queued"}
                            => ~cancelSent'[d] /\ ~cancelRequested'[d]
  BY DEF InterruptInv
<1>1. /\ interrupts'[d] = IF d \in S /\ task[d] \in Live THEN interrupts[d] + 1
                                                         ELSE interrupts[d]
      /\ cancelSent'[d] <=> cancelSent[d] \/ d \in S
      /\ cancelRequested'[d] <=> cancelRequested[d] \/ d \in R
      /\ interrupts[d] \in Nat
  BY DEF Interrupt, TypeOK
<1>2. /\ interrupts[d] <= 1
      /\ ~cancelSent[d] => interrupts[d] = 0
      /\ (task[d] \in Live /\ (cancelSent[d] \/ cancelRequested[d])) => interrupts[d] = 1
      /\ fact[d] \in {"unsent", "queued"} => ~cancelSent[d] /\ ~cancelRequested[d]
  BY DEF InterruptInv
<1> QED
  BY <1>1, <1>2

LEMMA CancelKeepsInterrupts ==
    ASSUME TypeOK, LineInv, InterruptInv, NEW S, S \subseteq pending, CancelDeliveries(S)
    PROVE  InterruptInv'
<1> DEFINE W == {d \in S : Waiting(d)}
           I == {d \in S \cap pending : ~Waiting(d) /\ Unsent(d)}
<1>1. /\ Interrupt(I)
      /\ cancelRequested' = [d \in Deliveries |-> cancelRequested[d] \/ d \in W \cup I]
      /\ fact' = [d \in Deliveries |-> IF d \in W THEN "cancelled" ELSE fact[d]]
      /\ UNCHANGED task
  BY DEF CancelDeliveries, Finish
<1>2. \A d \in I : ~cancelSent[d] /\ fact[d] \notin {"unsent", "queued"} /\ d \notin W
                   /\ d \in Deliveries
  BY DEF LineInv, RecordsAgree, Unsent, TypeOK
<1>3. \A d \in W : task[d] = "none" /\ d \in Deliveries
  BY DEF Waiting, TypeOK
<1> HIDE DEF W, I
<1>4. \A d \in W \cup I : task[d] \in Live => d \in I \/ cancelSent[d]
  BY <1>3 DEF Live
<1>5. \A d \in W \cup I : fact'[d] \notin {"unsent", "queued"}
  BY <1>1, <1>2, <1>3
<1>6. \A d \in Deliveries : fact'[d] = fact[d] \/ fact'[d] \notin {"unsent", "queued"}
  BY <1>1
<1> QED
  BY <1>1, <1>2, <1>4, <1>5, <1>6, InterruptKeeps

LEMMA InterruptFrame ==
    ASSUME InterruptInv, UNCHANGED <<cancelVars, fact, task>>
    PROVE  InterruptInv'
BY DEF InterruptInv

(* A step that begins nothing and interrupts nobody.                       *)
LEMMA InterruptQuiet ==
    ASSUME TypeOK, InterruptInv, UNCHANGED cancelVars,
           \A d \in Deliveries : task'[d] \in Live => task[d] \in Live,
           \A d \in Deliveries : fact'[d] \in {"unsent", "queued"}
                                     => fact[d] \in {"unsent", "queued"}
    PROVE  InterruptInv'
BY DEF InterruptInv

LEMMA InterruptStep ==
    SerialInv /\ InterruptInv /\ [Next]_vars => InterruptInv'
<1> SUFFICES ASSUME SerialInv, InterruptInv, [Next]_vars PROVE InterruptInv'
  OBVIOUS
<1> USE DEF SerialInv
<1>1. CASE \E d \in Deliveries : Admit(d)
  <2> PICK d \in Deliveries : Admit(d)
    BY <1>1
  <2>1. fact[d] = "unsent"
    BY DEF Admit, Fresh, LineInv, RecordsAgree
  <2> QED
    BY <2>1, InterruptQuiet DEF Admit, TypeOK
<1>2. CASE \E d \in Deliveries : Reject(d)
  BY <1>2, InterruptQuiet DEF Reject, TypeOK
<1>3. CASE \E d \in Deliveries, o \in Settled \ {"rejected"} : Direct(d, o)
  BY <1>3, InterruptQuiet DEF Direct, TypeOK, Settled
<1>4. CASE \E e \in Events : \E S \in SUBSET pending : CancelExecution(e, S)
  <2> PICK S \in SUBSET pending : CancelDeliveries(S)
    BY <1>4 DEF CancelExecution
  <2> QED
    BY CancelKeepsInterrupts
<1>5. CASE ConsumerEnter \/ ConsumerDiesUnentered \/ Sleep \/ Awake \/ RunEnds
           \/ IdleInterrupted \/ CancelConsumer
  <2>1. UNCHANGED <<cancelVars, fact, task>>
    BY <1>5 DEF ConsumerEnter, ConsumerDiesUnentered, Sleep, Awake, RunEnds,
         IdleInterrupted, CancelConsumer
  <2> QED
    BY <2>1, InterruptFrame
<1>6. CASE TakeNext
  <2> DEFINE h == Head(queue)
  <2>1. CASE h \in pending
    <3>1. h \in InQueue /\ h \in Deliveries
      BY <1>6 DEF TakeNext, InQueue, TypeOK
    <3>2. fact[h] = "queued"
      BY <3>1 DEF LineInv, QueueIsWaiting, RecordsAgree
    <3>3. ~cancelSent[h] /\ ~cancelRequested[h] /\ interrupts[h] = 0
      BY <3>1, <3>2 DEF InterruptInv
    <3>4. /\ task' = [task EXCEPT ![h] = "created"]
          /\ fact' = [fact EXCEPT ![h] = "running"]
          /\ UNCHANGED cancelVars
      BY <1>6, <2>1 DEF TakeNext, MarkRunning
    <3> HIDE DEF h
    <3>5. \A d \in Deliveries : d # h => task'[d] = task[d] /\ fact'[d] = fact[d]
      BY <3>4 DEF TypeOK
    <3>6. fact'[h] = "running"
      BY <3>1, <3>4 DEF TypeOK
    <3> QED
      BY <3>1, <3>3, <3>4, <3>5, <3>6 DEF InterruptInv
  <2>2. CASE h \notin pending
    BY <1>6, <2>2, InterruptFrame DEF TakeNext
  <2> QED
    BY <2>1, <2>2
<1>7. CASE ExecInterrupted
  <2>1. active \in Deliveries /\ fact[active] = "running"
    BY <1>7 DEF ExecInterrupted, Supervised, LineInv, RecordsAgree, TypeOK
  <2>2. PICK S : /\ S = {d \in {active} : Unsent(d)}
                 /\ Interrupt(S)
                 /\ cancelRequested' = [d \in Deliveries |-> cancelRequested[d] \/ d \in S]
                 /\ UNCHANGED <<task, fact>>
    BY <1>7 DEF ExecInterrupted
  <2>3. \A d \in S : ~cancelSent[d] /\ fact[d] = "running"
    BY <2>1, <2>2 DEF Unsent
  <2>4. UNCHANGED fact
    BY <2>2
  <2>5. \A d \in S : fact'[d] \notin {"unsent", "queued"}
    BY <2>3, <2>4
  <2>6. \A d \in S : ~cancelSent[d] /\ fact[d] \notin {"unsent", "queued"}
    BY <2>3
  <2> QED
    BY <2>2, <2>4, <2>5, <2>6, InterruptKeeps
<1>8. CASE Collect
  <2>1. PICK o \in {"completed", "failed", "cancelled", "timeout"} : Finish({active}, o)
    BY <1>8 DEF Collect, ResultOf
  <2>2. \A d \in Deliveries : task'[d] \in Live => task[d] \in Live
    BY <1>8 DEF Collect, TypeOK, Live
  <2>3. \A d \in Deliveries : fact'[d] \in {"unsent", "queued"}
                                  => fact[d] \in {"unsent", "queued"}
    BY <2>1 DEF Finish
  <2> QED
    BY <1>8, <2>2, <2>3, InterruptQuiet DEF Collect
<1>9. CASE Unwind \/ StopReturn \/ StopTimeout
  <2>1. CancelDeliveries(pending)
    BY <1>9 DEF Unwind, StopReturn, StopTimeout
  <2> QED
    BY <2>1, CancelKeepsInterrupts
<1>10. CASE \E d \in Deliveries : HandlerEnter(d) \/ HandlerExit(d)
  <2> PICK d \in Deliveries : HandlerEnter(d) \/ HandlerExit(d)
    BY <1>10
  <2>1. task[d] \in Live /\ UNCHANGED <<cancelVars, fact>>
    BY DEF HandlerEnter, HandlerExit, HandlerUnchanged, Live
  <2>2. \A e \in Deliveries : e # d => task'[e] = task[e]
    BY DEF HandlerEnter, HandlerExit, TypeOK
  <2> QED
    BY <2>1, <2>2, InterruptQuiet
<1>11. CASE \E d \in Deliveries : Expire(d)
  <2> PICK d \in Deliveries : Expire(d)
    BY <1>11
  <2>1. task[d] = "running" /\ UNCHANGED <<task, fact>>
    BY DEF Expire, HandlerUnchanged
  <2>2. fact[d] = "running"
    BY <2>1 DEF LineInv, TasksOfActive, RecordsAgree
  <2>3. Interrupt({x \in {d} : Unsent(x)})
    BY DEF Expire
  <2>4. cancelRequested' = [x \in Deliveries |-> cancelRequested[x] \/ x \in {d}]
    BY DEF Expire, TypeOK
  <2>5. \A x \in {y \in {d} : Unsent(y)} : ~cancelSent[x] /\ fact[x] \notin {"unsent", "queued"}
    BY <2>2 DEF Unsent
  <2>6. \A x \in {d} : task[x] \in Live => x \in {y \in {d} : Unsent(y)} \/ cancelSent[x]
    BY DEF Unsent
  <2>7. \A x \in {d} : fact'[x] \notin {"unsent", "queued"}
    BY <2>1, <2>2
  <2>8. UNCHANGED task /\ UNCHANGED fact
    BY <2>1
  <2> DEFINE S == {y \in {d} : Unsent(y)}
             R == {d}
  <2> HIDE DEF S, R
  <2>9. /\ Interrupt(S)
        /\ \A x \in S : ~cancelSent[x] /\ fact[x] \notin {"unsent", "queued"}
        /\ cancelRequested' = [x \in Deliveries |-> cancelRequested[x] \/ x \in R]
        /\ \A x \in R : task[x] \in Live => x \in S \/ cancelSent[x]
        /\ \A x \in R : fact'[x] \notin {"unsent", "queued"}
    BY <2>3, <2>4, <2>5, <2>6, <2>7 DEF S, R
  <2> QED
    BY <2>8, <2>9, InterruptKeeps
<1>12. CASE Start \/ Close \/ StopAbandoned
  BY <1>12, InterruptFrame DEF Start, Close, StopAbandoned
<1>13. CASE \E drain \in BOOLEAN : Stop(drain)
  <2> PICK S \in SUBSET pending : CancelDeliveries(S)
    BY <1>13 DEF Stop
  <2> QED
    BY CancelKeepsInterrupts
<1>14. CASE \E f \in Flushers : FlushStep(f)
  <2>1. UNCHANGED <<cancelVars, fact, task>>
    BY <1>14 DEF FlushStep, FlushNothing, FlushBegin, FlushSettle, FlushReturn,
         FlushAbandoned
  <2> QED
    BY <2>1, InterruptFrame
<1>15. CASE UNCHANGED vars
  BY <1>15, InterruptFrame DEF vars
<1> QED
  BY <1>1, <1>2, <1>3, <1>4, <1>5, <1>6, <1>7, <1>8, <1>9, <1>10, <1>11, <1>12,
     <1>13, <1>14, <1>15 DEF Next, ConsumerStep, StopStep

(* No handler is interrupted twice, and none that is marked as cancelled   *)
(* was left alone.                                                         *)
THEOREM InterruptCorrect == Spec => []InterruptedOnce
<1>1. Init => InterruptInv
  BY DEF Init, InterruptInv
<1>2. InterruptInv => InterruptedOnce
  BY DEF InterruptInv, InterruptedOnce
<1>3. Spec => []InterruptInv
  BY <1>1, SerialInvariant, InterruptStep, PTL DEF Spec
<1> QED
  BY <1>2, <1>3, PTL

-----------------------------------------------------------------------------
(***************************************************************************)
(* What the scope reports about deliveries, proved from SerialInv: final   *)
(* facts stay final, a completed stop left nothing behind, and the         *)
(* counters and flush reports account for every delivery.                  *)
(***************************************************************************)
(* A settled delivery has a number, is not outstanding, not active, and    *)
(* has no handler task: every action that writes a fact looks for the      *)
(* opposite of one of these.                                               *)
LEMMA SettledFacts ==
    ASSUME SerialInv, NEW d \in Deliveries, fact[d] \in Settled
    PROVE  number[d] # 0 /\ d \notin pending /\ d # active /\ task[d] = "none"
BY DEF SerialInv, LineInv, RecordsAgree, TasksOfActive, Settled

(* Withdrawing deliveries that are waiting touches no settled fact.        *)
LEMMA CancelKeepsFinal ==
    ASSUME SerialInv, NEW S, S \subseteq pending, CancelDeliveries(S),
           NEW d \in Deliveries, fact[d] \in Settled
    PROVE  fact'[d] = fact[d] /\ invoked'[d] = invoked[d]
<1>1. /\ fact' = [x \in Deliveries |->
                     IF x \in {y \in S : Waiting(y)} THEN "cancelled" ELSE fact[x]]
      /\ UNCHANGED invoked
  BY DEF CancelDeliveries, Finish, handlerVars
<1>2. d \notin S
  BY SettledFacts
<1> QED
  BY <1>1, <1>2

SettledStays ==
    \A d \in Deliveries : fact[d] \in Settled =>
        fact'[d] = fact[d] /\ (invoked'[d] => invoked[d])

LEMMA SettledStep == SerialInv /\ [Next]_vars => SettledStays
<1> SUFFICES ASSUME SerialInv, [Next]_vars, NEW d \in Deliveries, fact[d] \in Settled
             PROVE  fact'[d] = fact[d] /\ (invoked'[d] => invoked[d])
  BY DEF SettledStays
<1>0. /\ number[d] # 0 /\ d \notin pending /\ d # active /\ task[d] = "none"
      /\ TypeOK
  BY SettledFacts DEF SerialInv
<1>1. CASE \E x \in Deliveries : Admit(x) \/ Reject(x)
  <2> PICK x \in Deliveries : Admit(x) \/ Reject(x)
    BY <1>1
  <2>1. x # d
    BY <1>0 DEF Admit, Reject, Fresh
  <2>2. UNCHANGED invoked /\ \E o : fact' = [fact EXCEPT ![x] = o]
    BY DEF Admit, Reject, handlerVars
  <2> QED
    BY <1>0, <2>1, <2>2 DEF TypeOK
<1>2. CASE \E x \in Deliveries, o \in Settled \ {"rejected"} : Direct(x, o)
  <2> PICK x \in Deliveries, o \in Settled \ {"rejected"} : Direct(x, o)
    BY <1>2
  <2>1. x # d
    BY <1>0 DEF Direct, Fresh
  <2>2. fact' = [fact EXCEPT ![x] = o] /\ invoked' = [invoked EXCEPT ![x] = TRUE]
    BY DEF Direct
  <2> QED
    BY <1>0, <2>1, <2>2 DEF TypeOK
<1>3. CASE \E e \in Events : \E S \in SUBSET pending : CancelExecution(e, S)
  <2> PICK S \in SUBSET pending : CancelDeliveries(S)
    BY <1>3 DEF CancelExecution
  <2> QED
    BY CancelKeepsFinal
<1>4. CASE ConsumerEnter \/ ConsumerDiesUnentered \/ Sleep \/ Awake \/ RunEnds
           \/ IdleInterrupted \/ ExecInterrupted \/ CancelConsumer
  BY <1>4 DEF ConsumerEnter, ConsumerDiesUnentered, Sleep, Awake, RunEnds,
       IdleInterrupted, ExecInterrupted, CancelConsumer, ConsumerUnchanged,
       handlerVars
<1>5. CASE TakeNext
  <2> DEFINE h == Head(queue)
  <2>1. UNCHANGED invoked
    BY <1>5 DEF TakeNext
  <2>2. UNCHANGED fact \/ (h \in pending /\ fact' = [fact EXCEPT ![h] = "running"])
    BY <1>5 DEF TakeNext, MarkRunning
  <2> HIDE DEF h
  <2> QED
    BY <1>0, <2>1, <2>2 DEF TypeOK
<1>6. CASE Collect
  <2>1. PICK o : Finish({active}, o)
    BY <1>6 DEF Collect
  <2>2. UNCHANGED invoked
    BY <1>6 DEF Collect
  <2> QED
    BY <1>0, <2>1, <2>2 DEF Finish
<1>7. CASE Unwind \/ StopReturn \/ StopTimeout
  <2>1. CancelDeliveries(pending)
    BY <1>7 DEF Unwind, StopReturn, StopTimeout
  <2> QED
    BY <2>1, CancelKeepsFinal
<1>8. CASE \E x \in Deliveries : HandlerEnter(x) \/ HandlerExit(x) \/ Expire(x)
  <2> PICK x \in Deliveries : HandlerEnter(x) \/ HandlerExit(x) \/ Expire(x)
    BY <1>8
  <2>1. x # d
    BY <1>0 DEF HandlerEnter, HandlerExit, Expire
  <2>2. UNCHANGED fact
    BY DEF HandlerEnter, HandlerExit, Expire, HandlerUnchanged
  <2>3. invoked'[d] = invoked[d]
    <3>1. UNCHANGED invoked
          \/ invoked' = [invoked EXCEPT ![x] = @ \/ interrupts[x] = 0]
      BY DEF HandlerEnter, HandlerExit, Expire
    <3> QED
      BY <1>0, <2>1, <3>1, Zenon DEF TypeOK
  <2> QED
    BY <2>2, <2>3
<1>9. CASE Start \/ Close \/ StopAbandoned
  BY <1>9 DEF Start, Close, StopAbandoned, handlerVars
<1>10. CASE \E drain \in BOOLEAN : Stop(drain)
  <2> PICK S \in SUBSET pending : CancelDeliveries(S)
    BY <1>10 DEF Stop
  <2> QED
    BY CancelKeepsFinal
<1>11. CASE \E f \in Flushers : FlushStep(f)
  BY <1>11 DEF FlushStep, FlushNothing, FlushBegin, FlushSettle, FlushReturn,
       FlushAbandoned, FlushUnchanged, handlerVars
<1>12. CASE UNCHANGED vars
  BY <1>12 DEF vars, handlerVars
<1> QED
  BY <1>1, <1>2, <1>3, <1>4, <1>5, <1>6, <1>7, <1>8, <1>9, <1>10, <1>11, <1>12
  DEF Next, ConsumerStep, StopStep

(* A final fact never changes and its handler is never entered afterwards. *)
THEOREM FinalityCorrect == Spec => SettledIsFinal
<1>1. SerialInv /\ [Next]_vars => [SettledStays]_vars
  BY SettledStep
<1> QED
  BY <1>1, SerialInvariant, PTL DEF Spec, SettledIsFinal, SettledStays

-----------------------------------------------------------------------------
(* A complete stop.  Only a closed scope is stopped, and in a closed scope *)
(* with nothing outstanding and no consumer nothing can begin: that is     *)
(* what makes the completion final.                                        *)
CloseInv ==
    /\ stopper # "none" => closed
    /\ lastStop = "complete" => closed /\ pending = {} /\ consumer = "absent"

LEMMA CancelOnlyShrinks ==
    ASSUME NEW S, CancelDeliveries(S)
    PROVE  pending' \subseteq pending
BY DEF CancelDeliveries, Finish

LEMMA CloseStep == CloseInv /\ [Next]_vars => CloseInv'
<1> SUFFICES ASSUME CloseInv, [Next]_vars PROVE CloseInv'
  OBVIOUS
<1> USE DEF CloseInv
<1>1. CASE \E d \in Deliveries : Admit(d) \/ Reject(d)
  BY <1>1 DEF Admit, Reject, lifeVars, consumerVars, stopVars
<1>2. CASE \E d \in Deliveries, o \in Settled \ {"rejected"} : Direct(d, o)
  BY <1>2 DEF Direct, lifeVars, consumerVars, stopVars
<1>3. CASE \E e \in Events : \E S \in SUBSET pending : CancelExecution(e, S)
  <2> PICK S : CancelDeliveries(S) /\ UNCHANGED <<lifeVars, consumerVars, stopVars>>
    BY <1>3 DEF CancelExecution
  <2> QED
    BY CancelOnlyShrinks DEF lifeVars, consumerVars, stopVars
<1>4. CASE ConsumerEnter \/ ConsumerDiesUnentered \/ Sleep \/ Awake \/ RunEnds
           \/ IdleInterrupted \/ ExecInterrupted \/ CancelConsumer
  <2>1. consumer # "absent" /\ UNCHANGED <<closed, pending, stopVars>>
    BY <1>4 DEF ConsumerEnter, ConsumerDiesUnentered, Sleep, Awake, RunEnds,
         IdleInterrupted, ExecInterrupted, CancelConsumer, ConsumerUnchanged,
         lifeVars, queueVars
  <2> QED
    BY <2>1 DEF stopVars
<1>5. CASE TakeNext \/ Collect \/ Unwind
  <2>1. consumer # "absent" /\ UNCHANGED <<closed, stopVars>>
    BY <1>5 DEF TakeNext, Collect, Unwind, lifeVars
  <2> QED
    BY <2>1 DEF stopVars
<1>6. CASE \E d \in Deliveries : HandlerEnter(d) \/ HandlerExit(d) \/ Expire(d)
  BY <1>6 DEF HandlerEnter, HandlerExit, Expire, HandlerUnchanged, queueVars,
       lifeVars, consumerVars, stopVars
<1>7. CASE Start \/ Close
  BY <1>7 DEF Start, Close, queueVars, consumerVars, stopVars
<1>8. CASE \E drain \in BOOLEAN : Stop(drain)
  <2> PICK drain \in BOOLEAN : Stop(drain)
    BY <1>8
  <2>1. pending' \subseteq pending
    BY CancelOnlyShrinks DEF Stop
  <2>2. pending = {} => UNCHANGED consumer
    BY DEF Stop, LateStart
  <2>3. closed /\ UNCHANGED <<closed, lastStop>>
    BY DEF Stop
  <2> QED
    BY <2>1, <2>2, <2>3
<1>9. CASE StopReturn
  <2>1. closed /\ UNCHANGED closed
    BY <1>9 DEF StopReturn, lifeVars
  <2>2. /\ consumer' = "absent" /\ stopper' = "none"
        /\ lastStop' = IF pending' = {} THEN "complete" ELSE "incomplete"
    BY <1>9 DEF StopReturn
  <2> QED
    BY <2>1, <2>2
<1>10. CASE StopTimeout
  BY <1>10 DEF StopTimeout, ReportTimeout, lifeVars
<1>11. CASE StopAbandoned
  BY <1>11 DEF StopAbandoned, queueVars, lifeVars, consumerVars
<1>12. CASE \E f \in Flushers : FlushStep(f)
  BY <1>12 DEF FlushStep, FlushNothing, FlushBegin, FlushSettle, FlushReturn,
       FlushAbandoned, FlushUnchanged, queueVars, lifeVars, consumerVars, stopVars
<1>13. CASE UNCHANGED vars
  BY <1>13 DEF vars, queueVars, lifeVars, consumerVars, stopVars
<1> QED
  BY <1>1, <1>2, <1>3, <1>4, <1>5, <1>6, <1>7, <1>8, <1>9, <1>10, <1>11, <1>12, <1>13
  DEF Next, ConsumerStep, StopStep

(* When stop reports completion, no delivery, handler or consumer is left, *)
(* and none appears later.                                                 *)
THEOREM CompletionCorrect == Spec => []CompleteIsFinal
<1>1. Init => CloseInv
  BY DEF Init, CloseInv
<1>2. Spec => []CloseInv
  BY <1>1, CloseStep, PTL DEF Spec
<1>3. CloseInv /\ SerialInv => CompleteIsFinal
  BY DEF CloseInv, SerialInv, LineInv, Supervised, TasksOfActive, CompleteIsFinal
<1> QED
  BY <1>2, <1>3, SerialInvariant, PTL

-----------------------------------------------------------------------------
(* Conservation.  A step settles deliveries or admits one; both change the *)
(* pending table and the counters by the same number.                      *)

LEMMA CountTakenOut ==
    ASSUME NEW T, T \subseteq Deliveries, NEW S, S \subseteq T
    PROVE  /\ Cardinality(S) \in Nat /\ Cardinality(T) \in Nat
           /\ Cardinality(S) <= Cardinality(T)
           /\ Cardinality(T \ S) = Cardinality(T) - Cardinality(S)
<1>1. IsFiniteSet(T) /\ Cardinality(T) \in Nat
  BY Counts
<1>2. Cardinality(S) \in Nat /\ Cardinality(S) <= Cardinality(T)
  BY <1>1, Counts, FS_Subset
<1>3. Cardinality(T \ S) = Cardinality(T) - Cardinality(T \cap S)
  BY <1>1, FS_Difference
<1>4. T \cap S = S
  OBVIOUS
<1> QED
  BY <1>1, <1>2, <1>3, <1>4

LEMMA CountPutIn ==
    ASSUME NEW T, T \subseteq Deliveries, NEW d \in Deliveries, d \notin T
    PROVE  Cardinality(T \cup {d}) = Cardinality(T) + 1
BY Counts, FS_AddElement

OfEvent(T, e)  == {d \in T : EventOf[d] = e}
RejectedFacts == {d \in Deliveries : fact[d] = "rejected"}

(* Settling a set of outstanding deliveries keeps the books.               *)
LEMMA FinishKeepsCounts ==
    ASSUME TypeOK, StatsConserve, PendingCountMatches,
           NEW S, S \subseteq pending, \A d \in S : fact[d] # "rejected",
           NEW o \in {"completed", "failed", "cancelled", "timeout"},
           Finish(S, o)
    PROVE  StatsConserve' /\ PendingCountMatches'
<1>1. /\ Cardinality(S) \in Nat /\ Cardinality(pending) \in Nat
      /\ Cardinality(S) <= Cardinality(pending)
      /\ Cardinality(pending') = Cardinality(pending) - Cardinality(S)
  BY CountTakenOut DEF Finish, TypeOK
<1>2. RejectedFacts' = RejectedFacts
  BY DEF Finish, RejectedFacts
<1>3. PICK c \in {"completed", "failed", "cancelled"} :
          stats' = [stats EXCEPT ![c] = @ + Cardinality(S)]
  BY DEF Finish, CountResult
<1>4. StatsConserve'
  <2>1. \A k \in Counters : stats[k] \in Nat
    BY DEF TypeOK
  <2>2. \A k \in Counters : stats'[k] = IF k = c THEN stats[k] + Cardinality(S) ELSE stats[k]
    BY <1>3 DEF TypeOK
  <2>3. /\ stats'["accepted"] = stats["accepted"]
        /\ stats'["rejected"] = stats["rejected"]
        /\ stats'["completed"] + stats'["failed"] + stats'["cancelled"] =
              stats["completed"] + stats["failed"] + stats["cancelled"] + Cardinality(S)
    BY <1>1, <2>1, <2>2 DEF Counters
  <2>4. stats'["rejected"] = Cardinality(RejectedFacts')
    BY <1>2, <2>3 DEF StatsConserve, RejectedFacts
  <2>5. stats'["accepted"] = stats'["completed"] + stats'["failed"] + stats'["cancelled"]
                             + Cardinality(pending')
    <3>1. \A k \in Counters : stats'[k] \in Nat
      BY <1>1, <2>1, <2>2
    <3> QED
      BY <1>1, <2>1, <2>3, <3>1 DEF StatsConserve, Counters
  <2> QED
    BY <2>4, <2>5 DEF StatsConserve, RejectedFacts
<1>5. PendingCountMatches'
  <2> SUFFICES ASSUME NEW e \in Events
               PROVE  pendingCount'[e] = Cardinality(OfEvent(pending', e))
    BY DEF PendingCountMatches, OfEvent
  <2>1. OfEvent(pending', e) = OfEvent(pending, e) \ OfEvent(S, e)
    BY DEF Finish, OfEvent
  <2>2. OfEvent(S, e) \subseteq OfEvent(pending, e) /\ OfEvent(pending, e) \subseteq Deliveries
    BY DEF OfEvent, TypeOK
  <2>3. /\ Cardinality(OfEvent(S, e)) \in Nat /\ Cardinality(OfEvent(pending, e)) \in Nat
        /\ Cardinality(OfEvent(S, e)) <= Cardinality(OfEvent(pending, e))
        /\ Cardinality(OfEvent(pending', e))
              = Cardinality(OfEvent(pending, e)) - Cardinality(OfEvent(S, e))
    BY <2>1, <2>2, CountTakenOut
  <2>4. pendingCount[e] = Cardinality(OfEvent(pending, e))
    BY DEF PendingCountMatches, OfEvent
  <2>5. pendingCount'[e] = Less(pendingCount[e], Cardinality(OfEvent(S, e)))
    BY DEF Finish, Decrement, OfEvent
  <2> QED
    BY <2>3, <2>4, <2>5 DEF Less
<1> QED
  BY <1>4, <1>5

CountInv == StatsConserve /\ PendingCountMatches

LEMMA CountFrame ==
    ASSUME CountInv, UNCHANGED <<pending, stats, pendingCount>>,
           \A d \in Deliveries : fact'[d] = "rejected" <=> fact[d] = "rejected"
    PROVE  CountInv'
BY DEF CountInv, StatsConserve, PendingCountMatches

LEMMA CancelKeepsCounts ==
    ASSUME SerialInv, CountInv, NEW S, S \subseteq pending, CancelDeliveries(S)
    PROVE  CountInv'
<1> DEFINE W == {d \in S : Waiting(d)}
<1>1. W \subseteq pending /\ Finish(W, "cancelled")
  BY DEF CancelDeliveries
<1>2. \A d \in W : fact[d] # "rejected"
  BY <1>1 DEF SerialInv, LineInv, RecordsAgree, TypeOK
<1> HIDE DEF W
<1> QED
  BY <1>1, <1>2, FinishKeepsCounts DEF CountInv, SerialInv

(* An admission is one more accepted and one more outstanding, for the     *)
(* scope and for its event.                                                *)
LEMMA AdmitKeepsCounts ==
    ASSUME SerialInv, CountInv, NEW d \in Deliveries, Admit(d)
    PROVE  CountInv'
<1>0. TypeOK /\ fact[d] = "unsent" /\ d \notin pending
  BY DEF SerialInv, LineInv, RecordsAgree, Admit, Fresh
<1>1. /\ pending' = pending \cup {d}
      /\ fact' = [fact EXCEPT ![d] = "queued"]
      /\ pendingCount' = [pendingCount EXCEPT ![EventOf[d]] = @ + 1]
      /\ stats' = [stats EXCEPT !["accepted"] = @ + 1]
  BY DEF Admit
<1>2. Cardinality(pending') = Cardinality(pending) + 1 /\ Cardinality(pending) \in Nat
  BY <1>0, <1>1, CountPutIn, Counts DEF TypeOK
<1>3. RejectedFacts' = RejectedFacts
  BY <1>0, <1>1 DEF TypeOK, RejectedFacts
<1>4. StatsConserve'
  <2>1. \A k \in Counters : stats[k] \in Nat
    BY <1>0 DEF TypeOK
  <2>2. \A k \in Counters : stats'[k] = IF k = "accepted" THEN stats[k] + 1 ELSE stats[k]
    BY <1>0, <1>1 DEF TypeOK
  <2>3. /\ stats'["accepted"] = stats["accepted"] + 1
        /\ stats'["completed"] = stats["completed"] /\ stats'["failed"] = stats["failed"]
        /\ stats'["cancelled"] = stats["cancelled"] /\ stats'["rejected"] = stats["rejected"]
    BY <2>2 DEF Counters
  <2>4. stats'["rejected"] = Cardinality(RejectedFacts')
    BY <1>3, <2>3 DEF CountInv, StatsConserve, RejectedFacts
  <2>5. stats["accepted"] = stats["completed"] + stats["failed"] + stats["cancelled"]
                            + Cardinality(pending)
    BY DEF CountInv, StatsConserve
  <2>6. /\ stats["completed"] \in Nat /\ stats["failed"] \in Nat
        /\ stats["cancelled"] \in Nat
    BY <2>1 DEF Counters
  <2>7. stats'["accepted"] = stats'["completed"] + stats'["failed"] + stats'["cancelled"]
                             + Cardinality(pending')
    BY <1>2, <2>3, <2>5, <2>6
  <2> QED
    BY <2>4, <2>7 DEF StatsConserve, RejectedFacts
<1>5. PendingCountMatches'
  <2> SUFFICES ASSUME NEW e \in Events
               PROVE  pendingCount'[e] = Cardinality(OfEvent(pending', e))
    BY DEF PendingCountMatches, OfEvent
  <2>1. OfEvent(pending, e) \subseteq Deliveries /\ d \notin OfEvent(pending, e)
    BY <1>0 DEF OfEvent, TypeOK
  <2>2. pendingCount[e] = Cardinality(OfEvent(pending, e))
    BY DEF CountInv, PendingCountMatches, OfEvent
  <2>3. CASE EventOf[d] = e
    <3>1. OfEvent(pending', e) = OfEvent(pending, e) \cup {d}
      BY <1>1, <2>3 DEF OfEvent
    <3>2. pendingCount'[e] = pendingCount[e] + 1
      BY <1>0, <1>1, <2>3 DEF TypeOK
    <3> QED
      BY <2>1, <2>2, <3>1, <3>2, CountPutIn
  <2>4. CASE EventOf[d] # e
    <3>1. OfEvent(pending', e) = OfEvent(pending, e)
      BY <1>1, <2>4 DEF OfEvent
    <3>2. pendingCount'[e] = pendingCount[e]
      BY <1>0, <1>1, <2>4 DEF TypeOK
    <3> QED
      BY <2>2, <3>1, <3>2
  <2> QED
    BY <2>3, <2>4
<1> QED
  BY <1>4, <1>5 DEF CountInv

(* A refusal counts once, and nothing is outstanding because of it.        *)
LEMMA RejectKeepsCounts ==
    ASSUME SerialInv, CountInv, NEW d \in Deliveries, Reject(d)
    PROVE  CountInv'
<1>0. TypeOK /\ d \notin RejectedFacts
  BY DEF SerialInv, LineInv, RecordsAgree, Reject, Fresh, RejectedFacts
<1>1. /\ fact' = [fact EXCEPT ![d] = "rejected"]
      /\ stats' = [stats EXCEPT !["rejected"] = @ + 1]
      /\ UNCHANGED <<pending, pendingCount>>
  BY DEF Reject, CountRejected
<1>2. RejectedFacts' = RejectedFacts \cup {d}
  BY <1>0, <1>1 DEF TypeOK, RejectedFacts
<1>3. Cardinality(RejectedFacts') = Cardinality(RejectedFacts) + 1
  <2>1. RejectedFacts \subseteq Deliveries
    BY DEF RejectedFacts
  <2> QED
    BY <1>0, <1>2, <2>1, CountPutIn
<1>4. \A k \in Counters : stats'[k] = IF k = "rejected" THEN stats[k] + 1 ELSE stats[k]
  BY <1>0, <1>1 DEF TypeOK
<1>5. /\ stats'["rejected"] = stats["rejected"] + 1
      /\ stats'["accepted"] = stats["accepted"]
      /\ stats'["completed"] = stats["completed"] /\ stats'["failed"] = stats["failed"]
      /\ stats'["cancelled"] = stats["cancelled"]
  BY <1>4 DEF Counters
<1>6. StatsConserve'
  BY <1>1, <1>3, <1>5 DEF CountInv, StatsConserve, RejectedFacts
<1> QED
  BY <1>1, <1>6 DEF CountInv, PendingCountMatches

(* A direct delivery is accepted and counted out in the same step.         *)
LEMMA DirectKeepsCounts ==
    ASSUME SerialInv, CountInv, NEW d \in Deliveries,
           NEW o \in Settled \ {"rejected"}, Direct(d, o)
    PROVE  CountInv'
<1>0. TypeOK /\ d \notin RejectedFacts
  BY DEF SerialInv, LineInv, RecordsAgree, Direct, Fresh, RejectedFacts
<1>1. PICK c \in {"completed", "failed", "cancelled"} :
         /\ c = CountResult(o)
         /\ stats' = [stats EXCEPT !["accepted"] = @ + 1, ![c] = @ + 1]
  BY DEF Direct, CountResult
<1>2. fact' = [fact EXCEPT ![d] = o] /\ UNCHANGED <<pending, pendingCount>>
  BY DEF Direct
<1>3. RejectedFacts' = RejectedFacts
  BY <1>0, <1>2 DEF TypeOK, RejectedFacts
<1>4. \A k \in Counters : stats[k] \in Nat
  BY <1>0 DEF TypeOK
<1>5. \A k \in Counters : stats'[k] = IF k \in {"accepted", c} THEN stats[k] + 1 ELSE stats[k]
  BY <1>0, <1>1 DEF TypeOK, Counters
<1>6. /\ stats'["rejected"] = stats["rejected"]
      /\ stats'["accepted"] = stats["accepted"] + 1
      /\ stats'["completed"] + stats'["failed"] + stats'["cancelled"] =
            stats["completed"] + stats["failed"] + stats["cancelled"] + 1
  BY <1>1, <1>4, <1>5 DEF Counters
<1>7. StatsConserve'
  <2>1. Cardinality(pending) \in Nat /\ Cardinality(pending') = Cardinality(pending)
    BY <1>0, <1>2, Counts DEF TypeOK
  <2>2. stats'["rejected"] = Cardinality(RejectedFacts')
    BY <1>3, <1>6 DEF CountInv, StatsConserve, RejectedFacts
  <2>3. stats["accepted"] = stats["completed"] + stats["failed"] + stats["cancelled"]
                            + Cardinality(pending)
    BY DEF CountInv, StatsConserve
  <2>4. /\ stats["completed"] \in Nat /\ stats["failed"] \in Nat
        /\ stats["cancelled"] \in Nat
    BY <1>4 DEF Counters
  <2>5. /\ stats'["completed"] \in Nat /\ stats'["failed"] \in Nat
        /\ stats'["cancelled"] \in Nat
    BY <1>4, <1>5 DEF Counters
  <2>6. stats'["accepted"] = stats'["completed"] + stats'["failed"] + stats'["cancelled"]
                             + Cardinality(pending')
    BY <1>6, <2>1, <2>3, <2>4, <2>5
  <2> QED
    BY <2>2, <2>6 DEF StatsConserve, RejectedFacts
<1> QED
  BY <1>2, <1>7 DEF CountInv, PendingCountMatches

LEMMA CountInit == Init => CountInv
<1> SUFFICES ASSUME Init PROVE CountInv
  OBVIOUS
<1>1. Cardinality({}) = 0
  BY FS_EmptySet
<1>2. {d \in Deliveries : fact[d] = "rejected"} = {}
  BY DEF Init
<1>3. \A e \in Events : {d \in pending : EventOf[d] = e} = {} /\ pendingCount[e] = 0
  BY DEF Init
<1>4. PendingCountMatches
  BY <1>1, <1>3 DEF PendingCountMatches
<1>5. pending = {} /\ \A k \in Counters : stats[k] = 0
  BY DEF Init
<1>6. StatsConserve
  BY <1>1, <1>2, <1>5 DEF StatsConserve, Counters
<1> QED
  BY <1>4, <1>6 DEF CountInv

LEMMA CountStep == SerialInv /\ CountInv /\ [Next]_vars => CountInv'
<1> SUFFICES ASSUME SerialInv, CountInv, [Next]_vars PROVE CountInv'
  OBVIOUS
<1>1. CASE \E d \in Deliveries : Admit(d)
  BY <1>1, AdmitKeepsCounts
<1>2. CASE \E d \in Deliveries : Reject(d)
  BY <1>2, RejectKeepsCounts
<1>3. CASE \E d \in Deliveries, o \in Settled \ {"rejected"} : Direct(d, o)
  BY <1>3, DirectKeepsCounts
<1>4. CASE \E e \in Events : \E S \in SUBSET pending : CancelExecution(e, S)
  <2> PICK S \in SUBSET pending : CancelDeliveries(S)
    BY <1>4 DEF CancelExecution
  <2> QED
    BY CancelKeepsCounts
<1>5. CASE ConsumerEnter \/ ConsumerDiesUnentered \/ Sleep \/ Awake \/ RunEnds
           \/ IdleInterrupted \/ ExecInterrupted \/ CancelConsumer
  <2>1. UNCHANGED <<pending, stats, pendingCount, fact>>
    BY <1>5 DEF ConsumerEnter, ConsumerDiesUnentered, Sleep, Awake, RunEnds,
         IdleInterrupted, ExecInterrupted, CancelConsumer, ConsumerUnchanged, queueVars
  <2> QED
    BY <2>1, CountFrame
<1>6. CASE TakeNext
  <2>1. UNCHANGED <<pending, stats, pendingCount>>
    BY <1>6 DEF TakeNext
  <2>2. UNCHANGED fact \/ (Head(queue) \in pending /\ MarkRunning(Head(queue)))
    BY <1>6 DEF TakeNext
  <2>3. \A d \in Deliveries : fact'[d] = "rejected" <=> fact[d] = "rejected"
    <3> DEFINE h == Head(queue)
    <3>1. h \in pending => h \in Deliveries /\ fact[h] # "rejected"
      BY DEF SerialInv, TypeOK, LineInv, RecordsAgree
    <3>2. UNCHANGED fact \/ (h \in pending /\ fact' = [fact EXCEPT ![h] = "running"])
      BY <2>2 DEF MarkRunning
    <3> HIDE DEF h
    <3> QED
      BY <3>1, <3>2 DEF SerialInv, TypeOK
  <2> QED
    BY <2>1, <2>3, CountFrame
<1>7. CASE Collect
  <2>1. PICK o \in {"completed", "failed", "cancelled", "timeout"} : Finish({active}, o)
    BY <1>7 DEF Collect, ResultOf
  <2>2. active \in Deliveries /\ fact[active] = "running" /\ active \in pending
    BY <1>7 DEF Collect, TaskDone, SerialInv, TypeOK, LineInv, RecordsAgree
  <2> QED
    BY <2>1, <2>2, FinishKeepsCounts DEF SerialInv, CountInv
<1>8. CASE Unwind \/ StopReturn \/ StopTimeout
  <2>1. CancelDeliveries(pending)
    BY <1>8 DEF Unwind, StopReturn, StopTimeout
  <2> QED
    BY <2>1, CancelKeepsCounts
<1>9. CASE \E d \in Deliveries : HandlerEnter(d) \/ HandlerExit(d) \/ Expire(d)
  <2>1. UNCHANGED <<pending, stats, pendingCount, fact>>
    BY <1>9 DEF HandlerEnter, HandlerExit, Expire, HandlerUnchanged, queueVars
  <2> QED
    BY <2>1, CountFrame
<1>10. CASE Start \/ Close \/ StopAbandoned
  <2>1. UNCHANGED <<pending, stats, pendingCount, fact>>
    BY <1>10 DEF Start, Close, StopAbandoned, queueVars
  <2> QED
    BY <2>1, CountFrame
<1>11. CASE \E drain \in BOOLEAN : Stop(drain)
  <2> PICK S \in SUBSET pending : CancelDeliveries(S)
    BY <1>11 DEF Stop
  <2> QED
    BY CancelKeepsCounts
<1>12. CASE \E f \in Flushers : FlushStep(f)
  <2>1. UNCHANGED <<pending, stats, pendingCount, fact>>
    BY <1>12 DEF FlushStep, FlushNothing, FlushBegin, FlushSettle, FlushReturn,
         FlushAbandoned, FlushUnchanged, queueVars
  <2> QED
    BY <2>1, CountFrame
<1>13. CASE UNCHANGED vars
  BY <1>13, CountFrame DEF vars, queueVars
<1> QED
  BY <1>1, <1>2, <1>3, <1>4, <1>5, <1>6, <1>7, <1>8, <1>9, <1>10, <1>11, <1>12, <1>13
  DEF Next, ConsumerStep, StopStep

LEMMA CountInvariant == Spec => []CountInv
BY CountInit, CountStep, SerialInvariant, PTL DEF Spec

(* The statistics account for every delivery exactly once.                 *)
THEOREM StatsCorrect == Spec => []StatsConserve
BY CountInvariant, PTL DEF CountInv

(* An event is released exactly when its last outstanding delivery         *)
(* settles, however that happens.                                          *)
THEOREM PendingCountCorrect == Spec => []PendingCountMatches
BY CountInvariant, PTL DEF CountInv

-----------------------------------------------------------------------------
(* Flush.  To every other action a flush in progress is invisible: it only *)
(* sees deliveries become final, and new numbers above the one it noted.   *)
Final == {d \in Deliveries : fact[d] \in Settled}

Ordinary ==
    /\ UNCHANGED flushVars
    /\ Final \subseteq Final' /\ settled \subseteq settled'
    /\ settled' \subseteq settled \cup Final' /\ Final' \subseteq Final \cup settled'
    /\ pending \subseteq pending' \cup Final'
    /\ sequence <= sequence'
    /\ \A d \in Deliveries : number'[d] = number[d] \/ number'[d] > sequence
    /\ \A d \in settled' \cup pending' :
          d \in settled \cup pending \/ number'[d] > sequence

LEMMA QuietIsOrdinary ==
    ASSUME TypeOK, UNCHANGED <<flushVars, settled, pending, sequence, number>>,
           Final' = Final
    PROVE  Ordinary
BY DEF Ordinary, TypeOK

LEMMA FinishIsOrdinary ==
    ASSUME TypeOK, NEW S, S \subseteq pending,
           NEW o \in {"completed", "failed", "cancelled", "timeout"}, Finish(S, o),
           UNCHANGED <<sequence, number, flushVars>>
    PROVE  Ordinary
<1>1. Final' = Final \cup S
  BY DEF Finish, Final, Settled, TypeOK
<1>2. settled' = settled \cup S /\ pending' = pending \ S
  BY DEF Finish
<1> QED
  BY <1>1, <1>2 DEF Ordinary, TypeOK

LEMMA CancelIsOrdinary ==
    ASSUME TypeOK, NEW S, S \subseteq pending, CancelDeliveries(S)
    PROVE  Ordinary
<1> DEFINE W == {d \in S : Waiting(d)}
<1>1. W \subseteq pending /\ Finish(W, "cancelled")
      /\ UNCHANGED <<sequence, number, flushVars>>
  BY DEF CancelDeliveries, TypeOK
<1> HIDE DEF W
<1> QED
  BY <1>1, FinishIsOrdinary

LEMMA EmitIsOrdinary ==
    ASSUME SerialInv, NEW d \in Deliveries,
           Admit(d) \/ Reject(d) \/ \E o \in Settled \ {"rejected"} : Direct(d, o)
    PROVE  Ordinary
<1>0. TypeOK /\ fact[d] = "unsent"
  BY DEF SerialInv, LineInv, RecordsAgree, Admit, Reject, Direct, Fresh
<1>1. /\ UNCHANGED flushVars
      /\ sequence' = sequence + 1
      /\ number' = [number EXCEPT ![d] = sequence + 1]
  BY DEF Admit, Reject, Direct, NextNumber
<1>2. PICK o \in Settled \cup {"queued"} :
         /\ fact' = [fact EXCEPT ![d] = o]
         /\ settled' = IF o = "queued" THEN settled ELSE settled \cup {d}
         /\ pending \subseteq pending' /\ pending' \subseteq pending \cup {d}
  BY DEF Admit, Reject, Direct, Settled
<1>3. Final' = IF o = "queued" THEN Final ELSE Final \cup {d}
  BY <1>0, <1>2 DEF TypeOK, Final, Settled
<1>4. \A x \in Deliveries : number'[x] = number[x] \/ number'[x] > sequence
  BY <1>0, <1>1 DEF TypeOK
<1>5. sequence <= sequence'
  BY <1>0, <1>1 DEF TypeOK
<1>6. number'[d] > sequence
  BY <1>0, <1>1 DEF TypeOK
<1>7. \A x \in settled' \cup pending' : x \in settled \cup pending \/ number'[x] > sequence
  BY <1>2, <1>6
<1> QED
  BY <1>1, <1>2, <1>3, <1>4, <1>5, <1>7 DEF Ordinary

LEMMA OthersAreOrdinary ==
    SerialInv /\ [Next]_vars => Ordinary \/ \E f \in Flushers : FlushStep(f)
<1> SUFFICES ASSUME SerialInv, [Next]_vars, ~ \E f \in Flushers : FlushStep(f)
             PROVE  Ordinary
  OBVIOUS
<1>0. TypeOK
  BY DEF SerialInv
<1>1. CASE \E d \in Deliveries : Admit(d) \/ Reject(d)
  BY <1>1, EmitIsOrdinary
<1>2. CASE \E d \in Deliveries, o \in Settled \ {"rejected"} : Direct(d, o)
  BY <1>2, EmitIsOrdinary
<1>3. CASE \E e \in Events : \E S \in SUBSET pending : CancelExecution(e, S)
  <2> PICK S \in SUBSET pending : CancelDeliveries(S)
    BY <1>3 DEF CancelExecution
  <2> QED
    BY <1>0, CancelIsOrdinary
<1>4. CASE ConsumerEnter \/ ConsumerDiesUnentered \/ Sleep \/ Awake \/ RunEnds
           \/ IdleInterrupted \/ ExecInterrupted \/ CancelConsumer
  <2>1. UNCHANGED <<flushVars, settled, pending, sequence, number, fact>>
    BY <1>4 DEF ConsumerEnter, ConsumerDiesUnentered, Sleep, Awake, RunEnds,
         IdleInterrupted, ExecInterrupted, CancelConsumer, ConsumerUnchanged, queueVars
  <2> QED
    BY <1>0, <2>1, QuietIsOrdinary DEF Final
<1>5. CASE TakeNext
  <2>1. UNCHANGED <<flushVars, settled, pending, sequence, number>>
    BY <1>5 DEF TakeNext
  <2>2. Final' = Final
    <3> DEFINE h == Head(queue)
    <3>1. h \in pending => h \in Deliveries /\ fact[h] \notin Settled
      BY DEF SerialInv, TypeOK, LineInv, RecordsAgree, Settled
    <3>2. UNCHANGED fact \/ (h \in pending /\ fact' = [fact EXCEPT ![h] = "running"])
      BY <1>5 DEF TakeNext, MarkRunning
    <3> HIDE DEF h
    <3> QED
      BY <1>0, <3>1, <3>2 DEF TypeOK, Final, Settled
  <2> QED
    BY <1>0, <2>1, <2>2, QuietIsOrdinary
<1>6. CASE Collect
  <2>1. PICK o \in {"completed", "failed", "cancelled", "timeout"} : Finish({active}, o)
    BY <1>6 DEF Collect, ResultOf
  <2>2. {active} \subseteq pending /\ UNCHANGED <<sequence, number, flushVars>>
    BY <1>0, <1>6 DEF Collect, TaskDone, TypeOK, Outcomes, SerialInv, LineInv, TasksOfActive
  <2> QED
    BY <1>0, <2>1, <2>2, FinishIsOrdinary
<1>7. CASE Unwind \/ StopReturn \/ StopTimeout
  <2>1. CancelDeliveries(pending)
    BY <1>7 DEF Unwind, StopReturn, StopTimeout
  <2> QED
    BY <1>0, <2>1, CancelIsOrdinary
<1>8. CASE \E d \in Deliveries : HandlerEnter(d) \/ HandlerExit(d) \/ Expire(d)
  <2>1. UNCHANGED <<flushVars, settled, pending, sequence, number, fact>>
    BY <1>8 DEF HandlerEnter, HandlerExit, Expire, HandlerUnchanged, queueVars
  <2> QED
    BY <1>0, <2>1, QuietIsOrdinary DEF Final
<1>9. CASE Start \/ Close \/ StopAbandoned
  <2>1. UNCHANGED <<flushVars, settled, pending, sequence, number, fact>>
    BY <1>9 DEF Start, Close, StopAbandoned, queueVars
  <2> QED
    BY <1>0, <2>1, QuietIsOrdinary DEF Final
<1>10. CASE \E drain \in BOOLEAN : Stop(drain)
  <2> PICK S \in SUBSET pending : CancelDeliveries(S)
    BY <1>10 DEF Stop
  <2> QED
    BY <1>0, CancelIsOrdinary
<1>11. CASE UNCHANGED vars
  <2>1. UNCHANGED <<flushVars, settled, pending, sequence, number, fact>>
    BY <1>11 DEF vars, queueVars
  <2> QED
    BY <1>0, <2>1, QuietIsOrdinary DEF Final
<1> QED
  BY <1>1, <1>2, <1>3, <1>4, <1>5, <1>6, <1>7, <1>8, <1>9, <1>10, <1>11
  DEF Next, ConsumerStep, StopStep

(* What a report may hold: facts that are final, and, until its barrier is *)
(* done, deliveries that are outstanding.                                  *)
ReportInv ==
    /\ settled \subseteq Final /\ acked \subseteq Final
    /\ \A f \in Flushers :
          /\ flush[f].at # "idle" => /\ flush[f].known \subseteq Final
                                     /\ flush[f].prefix \subseteq pending \cup Final
          /\ flush[f].at = "returning" => flush[f].prefix \subseteq Final

LEMMA OrdinaryKeepsReports == ReportInv /\ Ordinary => ReportInv'
BY DEF ReportInv, Ordinary, flushVars

LEMMA FlushKeepsReports ==
    ASSUME SerialInv, ReportInv, NEW f \in Flushers, FlushStep(f)
    PROVE  ReportInv'
<1>0. TypeOK
  BY DEF SerialInv
<1>1. /\ pending' = pending /\ Final' = Final
      /\ settled' \subseteq settled
  BY <1>0 DEF FlushStep, FlushNothing, FlushBegin, FlushSettle, FlushReturn,
       FlushAbandoned, FlushUnchanged, queueVars, Unreported, Final
<1>2. acked' \subseteq Final
  <2>1. CASE FlushNothing(f)
    BY <2>1 DEF FlushNothing, ReportInv
  <2>2. CASE FlushSettle(f)
    <3>1. FlushReport(f) \subseteq Final
      BY <2>2 DEF FlushSettle, BarrierDone, FlushReport, ReportInv
    <3> QED
      BY <2>2, <3>1 DEF FlushSettle, ReportInv
  <2>3. CASE FlushReturn(f)
    <3>1. FlushReport(f) \subseteq Final
      BY <2>3 DEF FlushReturn, FlushReport, ReportInv
    <3> QED
      BY <2>3, <3>1 DEF FlushReturn, ReportInv
  <2>4. CASE FlushBegin(f) \/ FlushAbandoned(f)
    BY <2>4 DEF FlushBegin, FlushAbandoned, ReportInv
  <2> QED
    BY <2>1, <2>2, <2>3, <2>4 DEF FlushStep
<1>3. ASSUME NEW g \in Flushers
      PROVE  /\ flush'[g].at # "idle" => /\ flush'[g].known \subseteq Final
                                         /\ flush'[g].prefix \subseteq pending \cup Final
             /\ flush'[g].at = "returning" => flush'[g].prefix \subseteq Final
  <2>0. UNCHANGED flush \/ \E r : flush' = [flush EXCEPT ![f] = r]
    BY DEF FlushStep, FlushNothing, FlushBegin, FlushSettle, FlushReturn, FlushAbandoned
  <2>1. CASE g # f \/ flush'[g] = flush[g]
    <3>1. flush'[g] = flush[g]
      BY <1>0, <2>0, <2>1 DEF TypeOK
    <3> QED
      BY <3>1 DEF ReportInv
  <2>2. CASE g = f /\ flush'[g] # flush[g]
    <3>1. CASE FlushBegin(f)
      <4>1. flush'[f] = [at |-> "waiting", prefix |-> pending,
                         upto |-> sequence, known |-> settled]
        BY <1>0, <3>1 DEF FlushBegin, TypeOK
      <4> QED
        BY <2>2, <4>1 DEF ReportInv
    <3>2. CASE FlushSettle(f) /\ GatherYields
      <4>1. flush'[f] = [flush[f] EXCEPT !.at = "returning"]
        BY <1>0, <3>2 DEF FlushSettle, TypeOK
      <4>2. flush'[f].known = flush[f].known /\ flush'[f].prefix = flush[f].prefix
        BY <1>0, <4>1 DEF TypeOK
      <4>3. flush[f].known \subseteq Final /\ flush[f].prefix \subseteq Final
        BY <3>2 DEF FlushSettle, BarrierDone, ReportInv
      <4> QED
        BY <2>2, <4>2, <4>3
    <3>3. CASE FlushNothing(f) \/ (FlushSettle(f) /\ ~GatherYields) \/ FlushReturn(f)
               \/ FlushAbandoned(f)
      <4>1. flush'[f] = NoFlush
        BY <1>0, <2>2, <3>3 DEF FlushNothing, FlushSettle, FlushReturn, FlushAbandoned, TypeOK
      <4> QED
        BY <2>2, <4>1 DEF NoFlush
    <3> QED
      BY <3>1, <3>2, <3>3 DEF FlushStep
  <2> QED
    BY <2>1, <2>2
<1> QED
  BY <1>1, <1>2, <1>3 DEF ReportInv

(* Whatever a flush reports has its final fact.                            *)
THEOREM ReportsCorrect == Spec => []ReportsAreFinal
<1>1. Init => ReportInv
  BY DEF Init, ReportInv, NoFlush
<1>2. SerialInv /\ ReportInv /\ [Next]_vars => ReportInv'
  BY OthersAreOrdinary, OrdinaryKeepsReports, FlushKeepsReports
<1>3. ReportInv => ReportsAreFinal
  BY DEF ReportInv, ReportsAreFinal, Reported, Returning, FlushReport, Final
<1> QED
  BY <1>1, <1>2, <1>3, SerialInvariant, PTL DEF Spec

-----------------------------------------------------------------------------
(* Nothing is lost.  What a flush that waits will drop by number when its  *)
(* barrier is done, it noted when it was called, as settled or as          *)
(* outstanding, so that it is in its report.                               *)
CheckpointInv ==
    \A f \in Flushers : flush[f].at = "waiting" =>
        /\ flush[f].upto <= sequence
        /\ \A d \in settled \cup pending :
              number[d] <= flush[f].upto => d \in FlushReport(f)

LEMMA OrdinaryKeepsCheckpoint ==
    ASSUME TypeOK, TypeOK', CheckpointInv, Ordinary PROVE CheckpointInv'
<1> SUFFICES ASSUME NEW f \in Flushers, flush[f].at = "waiting"
             PROVE  /\ flush[f].upto <= sequence'
                    /\ \A d \in settled' \cup pending' :
                          number'[d] <= flush[f].upto => d \in FlushReport(f)
  BY DEF CheckpointInv, Ordinary, flushVars, FlushReport
<1>1. flush[f].upto \in Nat /\ sequence \in Nat /\ flush[f].upto <= sequence
  BY DEF CheckpointInv, TypeOK
<1>2. flush[f].upto <= sequence'
  <2>1. sequence' \in Nat /\ sequence <= sequence'
    BY DEF TypeOK, Ordinary
  <2> QED
    BY <1>1, <2>1
<1>3. ASSUME NEW d \in settled' \cup pending', number'[d] <= flush[f].upto
      PROVE  d \in FlushReport(f)
  <2>1. d \in Deliveries /\ number'[d] \in Nat
    BY DEF TypeOK
  <2>2. ~(number'[d] > sequence)
    BY <1>1, <1>3, <2>1
  <2>3. number'[d] = number[d] /\ d \in settled \cup pending
    BY <2>1, <2>2 DEF Ordinary
  <2> QED
    BY <1>3, <2>3 DEF CheckpointInv
<1> QED
  BY <1>2, <1>3

LEMMA FlushKeepsCheckpoint ==
    ASSUME TypeOK, CheckpointInv, NEW f \in Flushers, FlushStep(f)
    PROVE  CheckpointInv'
<1>1. UNCHANGED <<pending, sequence, number>> /\ settled' \subseteq settled
  BY DEF FlushStep, FlushNothing, FlushBegin, FlushSettle, FlushReturn,
     FlushAbandoned, FlushUnchanged, queueVars, Unreported
<1> SUFFICES ASSUME NEW g \in Flushers, flush'[g].at = "waiting"
             PROVE  /\ flush'[g].upto <= sequence
                    /\ \A d \in settled' \cup pending : number[d] <= flush'[g].upto
                          => d \in flush'[g].known \cup flush'[g].prefix
  BY <1>1 DEF CheckpointInv, FlushReport
<1>2. CASE flush'[g] = flush[g]
  BY <1>1, <1>2 DEF CheckpointInv, FlushReport
<1>3. CASE flush'[g] # flush[g]
  <2>1. g = f /\ FlushBegin(f)
    BY <1>3 DEF FlushStep, FlushNothing, FlushBegin, FlushSettle, FlushReturn,
       FlushAbandoned, NoFlush, TypeOK
  <2>2. /\ flush'[f] = [at |-> "waiting", prefix |-> pending,
                        upto |-> sequence, known |-> settled]
        /\ settled' = settled
    BY <2>1 DEF FlushBegin, TypeOK
  <2>3. sequence <= sequence
    BY DEF TypeOK
  <2> QED
    BY <2>1, <2>2, <2>3
<1> QED
  BY <1>2, <1>3

(* What may happen to a settled fact in one step.                          *)
Keeps ==
    \A d \in Deliveries : (fact'[d] \in Settled /\ d \notin Accountable') =>
        \/ fact[d] \in Settled /\ d \notin Accountable
        \/ \E f \in Returning : d \in FlushReport(f) /\ flush'[f].at = "idle"

LEMMA OrdinaryKeeps == Ordinary => Keeps
<1> SUFFICES ASSUME Ordinary, NEW d \in Final', d \notin Accountable'
             PROVE  d \in Final /\ d \notin Accountable
  BY DEF Keeps, Final
<1>1. Reported' = Reported
  BY DEF Ordinary, flushVars, Reported, Returning, FlushReport
<1> QED
  BY <1>1 DEF Ordinary, Accountable

(* The two steps that take facts out of the checkpoint put them into a     *)
(* report, and a report is given up in one way only.                       *)
LEMMA FlushStepKeeps ==
    ASSUME TypeOK, CheckpointInv, NEW f \in Flushers, FlushStep(f)
    PROVE  Keeps
<1>1. fact' = fact /\ acked \subseteq acked'
  BY DEF FlushStep, FlushNothing, FlushBegin, FlushSettle, FlushReturn,
     FlushAbandoned, FlushUnchanged
<1>2. \A g \in Flushers : g # f => flush'[g] = flush[g]
  BY DEF FlushStep, FlushNothing, FlushBegin, FlushSettle, FlushReturn,
     FlushAbandoned, TypeOK
<1> SUFFICES ASSUME NEW d \in Accountable, d \in Deliveries, d \notin Accountable'
             PROVE  f \in Returning /\ d \in FlushReport(f) /\ flush'[f].at = "idle"
  BY <1>1 DEF Keeps
<1>3. d \notin acked /\ d \notin settled' /\ d \notin acked'
  BY <1>1 DEF Accountable, Reported
<1>4. ASSUME NEW g \in Returning, d \in FlushReport(g) PROVE g = f
  BY <1>2, <1>4 DEF Accountable, Reported, Returning, FlushReport
<1>5. CASE d \in settled
  <2>1. CASE FlushSettle(f)
    <3>1. flush[f].at = "waiting" /\ settled' = Unreported(f)
      BY <2>1 DEF FlushSettle
    <3>2. number[d] \in Nat /\ flush[f].upto \in Nat
      BY DEF TypeOK
    <3>3. number[d] <= flush[f].upto
      BY <1>3, <1>5, <3>1, <3>2 DEF Unreported
    <3>4. d \in FlushReport(f)
      BY <1>5, <3>1, <3>3 DEF CheckpointInv
    <3>5. GatherYields /\ flush'[f] = [flush[f] EXCEPT !.at = "returning"]
      BY <1>3, <2>1, <3>4 DEF FlushSettle, TypeOK
    <3>6. flush'[f].at = "returning" /\ d \in flush'[f].known \cup flush'[f].prefix
      BY <3>4, <3>5 DEF TypeOK, FlushReport
    <3> QED
      BY <3>6 DEF Accountable, Reported, Returning, FlushReport
  <2>2. CASE ~FlushSettle(f)
    BY <1>3, <1>5, <2>2 DEF FlushStep, FlushNothing, FlushBegin, FlushReturn, FlushAbandoned
  <2> QED
    BY <2>1, <2>2
<1>6. CASE d \notin settled
  <2>1. f \in Returning /\ d \in FlushReport(f) /\ flush[f].at = "returning"
    BY <1>3, <1>4, <1>6 DEF Accountable, Reported, Returning
  <2>2. CASE FlushReturn(f) \/ FlushAbandoned(f)
    BY <2>1, <2>2 DEF FlushReturn, FlushAbandoned, NoFlush, TypeOK
  <2>3. CASE FlushNothing(f) \/ FlushBegin(f) \/ FlushSettle(f)
    BY <2>1, <2>3 DEF FlushNothing, FlushBegin, FlushSettle
  <2> QED
    BY <2>1, <2>2, <2>3 DEF FlushStep
<1> QED
  BY <1>5, <1>6

(* No settled fact escapes every report but those that a flush cut off in  *)
(* its gather had in hand, however many flushes overlap, whichever of them *)
(* is abandoned, and whether or not the interpreter's gather suspends.     *)
THEOREM CheckpointCorrect == Spec => OnlyCutFlushLoses
<1>1. Init => CheckpointInv
  BY DEF Init, CheckpointInv, NoFlush
<1>2. SerialInv /\ SerialInv' /\ CheckpointInv /\ [Next]_vars => CheckpointInv'
  BY OthersAreOrdinary, OrdinaryKeepsCheckpoint, FlushKeepsCheckpoint DEF SerialInv
<1>3. SerialInv /\ CheckpointInv /\ [Next]_vars => [Keeps]_vars
  BY OthersAreOrdinary, OrdinaryKeeps, FlushStepKeeps DEF SerialInv
<1>4. ([][Keeps]_vars) => OnlyCutFlushLoses
  BY PTL DEF OnlyCutFlushLoses, Keeps
<1> QED
  BY <1>1, <1>2, <1>3, <1>4, SerialInvariant, PTL DEF Spec

-----------------------------------------------------------------------------
(***************************************************************************)
(* The loop implements SerialDelivery: its queue is the line and its       *)
(* active delivery the current one.                                        *)
(***************************************************************************)
absLine == <<queue, active, fact>>

LEMMA InitImplements == Init => Abstract!AbstractInit
BY DEF Init, Abstract!AbstractInit

(* Withdrawals leave the line as the abstract specification says.          *)
LEMMA CancelImplements ==
    ASSUME SerialInv, NEW S, S \subseteq pending, CancelDeliveries(S), UNCHANGED active
    PROVE  \E W \in SUBSET InQueue : Abstract!Withdraw(W)
<1> DEFINE W == {d \in S : Waiting(d)}
<1>1. /\ queue' \in Retained(queue, W)
      /\ fact' = [d \in Deliveries |-> IF d \in W THEN "cancelled" ELSE fact[d]]
  BY DEF CancelDeliveries, Finish
<1>2. W \subseteq InQueue
  BY DEF SerialInv, TypeOK, LineInv, QueueIsWaiting
<1> HIDE DEF W
<1>3. /\ queue' \in Seq(Deliveries)
      /\ {queue'[i] : i \in DOMAIN queue'} = InQueue \ W
      /\ InOrder(queue', queue)
  BY <1>1, RetainedFacts DEF SerialInv, TypeOK, InQueue
<1>4. Abstract!Remains(queue', W)
  BY <1>3 DEF Abstract!Remains, Abstract!InLine, InOrder, InQueue
<1>5. Abstract!Withdraw(W)
  BY <1>1, <1>2, <1>4 DEF Abstract!Withdraw, Abstract!InLine, InQueue
<1> QED
  BY <1>2, <1>5

LEMMA StepImplements ==
    SerialInv /\ [Next]_vars => [Abstract!AbstractNext]_absLine
<1> SUFFICES ASSUME SerialInv, [Next]_vars
             PROVE  Abstract!AbstractNext \/ UNCHANGED absLine
  OBVIOUS
<1>0. TypeOK
  BY DEF SerialInv
<1> USE DEF Abstract!AbstractNext
<1>1. CASE \E d \in Deliveries : Admit(d)
  <2> PICK d \in Deliveries : Admit(d)
    BY <1>1
  <2>1. fact[d] = "unsent"
    BY DEF SerialInv, LineInv, RecordsAgree, Admit, Fresh
  <2>2. Abstract!Accept(d)
    BY <2>1 DEF Admit, Abstract!Accept, consumerVars
  <2> QED
    BY <2>2
<1>2. CASE \E d \in Deliveries : Reject(d)
  <2> PICK d \in Deliveries : Reject(d)
    BY <1>2
  <2>1. fact[d] = "unsent"
    BY DEF SerialInv, LineInv, RecordsAgree, Reject, Fresh
  <2>2. Abstract!Refuse(d)
    BY <2>1 DEF Reject, Abstract!Refuse, consumerVars
  <2> QED
    BY <2>2
<1>3. CASE \E d \in Deliveries, o \in Settled \ {"rejected"} : Direct(d, o)
  <2> PICK d \in Deliveries, o \in Settled \ {"rejected"} : Direct(d, o)
    BY <1>3
  <2>1. fact[d] = "unsent"
    BY DEF SerialInv, LineInv, RecordsAgree, Direct, Fresh
  <2>2. o \in Abstract!Final
    BY DEF Settled, Abstract!Final
  <2>3. Abstract!Bypass(d)
    BY <2>1, <2>2 DEF Direct, Abstract!Bypass, consumerVars
  <2> QED
    BY <2>3
<1>4. CASE \E e \in Events : \E S \in SUBSET pending : CancelExecution(e, S)
  <2> PICK S \in SUBSET pending : CancelDeliveries(S) /\ UNCHANGED active
    BY <1>4 DEF CancelExecution, consumerVars
  <2> QED
    BY CancelImplements DEF InQueue, Abstract!InLine
<1>5. CASE ConsumerEnter \/ ConsumerDiesUnentered \/ Sleep \/ Awake \/ RunEnds
           \/ IdleInterrupted \/ ExecInterrupted \/ CancelConsumer
  BY <1>5 DEF ConsumerEnter, ConsumerDiesUnentered, Sleep, Awake, RunEnds,
       IdleInterrupted, ExecInterrupted, CancelConsumer, ConsumerUnchanged,
       queueVars, absLine
<1>6. CASE TakeNext
  <2>1. queue # <<>> /\ Head(queue) \in InQueue
    BY <1>0, <1>6 DEF TakeNext, TypeOK, InQueue
  <2>2. Head(queue) \in pending
    BY <2>1 DEF SerialInv, LineInv, QueueIsWaiting, Waiting
  <2>3. active = NoDelivery
    BY <1>6 DEF TakeNext, SerialInv, Supervised
  <2>4. Abstract!Begin
    BY <1>6, <2>1, <2>2, <2>3 DEF TakeNext, MarkRunning, Abstract!Begin
  <2> QED
    BY <2>4
<1>7. CASE Collect
  <2>1. PICK o \in Abstract!Final : Finish({active}, o)
    BY <1>7 DEF Collect, ResultOf, Abstract!Final
  <2>2. active # NoDelivery /\ active \in Deliveries
    BY <1>0, <1>7 DEF Collect, TaskDone, TypeOK
  <2>3. fact' = [fact EXCEPT ![active] = o]
    BY <1>0, <2>1, <2>2 DEF Finish, TypeOK
  <2>4. Abstract!Settle
    BY <1>7, <2>2, <2>3 DEF Collect, Abstract!Settle
  <2> QED
    BY <2>4
<1>8. CASE Unwind \/ StopReturn \/ StopTimeout
  <2>1. CancelDeliveries(pending) /\ UNCHANGED active
    BY <1>8 DEF Unwind, StopReturn, StopTimeout, consumerVars
  <2> QED
    BY <2>1, CancelImplements DEF InQueue, Abstract!InLine
<1>9. CASE \E d \in Deliveries : HandlerEnter(d) \/ HandlerExit(d) \/ Expire(d)
  BY <1>9 DEF HandlerEnter, HandlerExit, Expire, HandlerUnchanged, queueVars,
       consumerVars, absLine
<1>10. CASE Start \/ Close \/ StopAbandoned
  BY <1>10 DEF Start, Close, StopAbandoned, queueVars, consumerVars, absLine
<1>11. CASE \E drain \in BOOLEAN : Stop(drain)
  <2> PICK S \in SUBSET pending : CancelDeliveries(S) /\ UNCHANGED active
    BY <1>11 DEF Stop
  <2> QED
    BY CancelImplements DEF InQueue, Abstract!InLine
<1>12. CASE \E f \in Flushers : FlushStep(f)
  BY <1>12 DEF FlushStep, FlushNothing, FlushBegin, FlushSettle, FlushReturn,
       FlushAbandoned, FlushUnchanged, queueVars, consumerVars, absLine
<1>13. CASE UNCHANGED vars
  BY <1>13 DEF vars, queueVars, consumerVars, absLine
<1> QED
  BY <1>1, <1>2, <1>3, <1>4, <1>5, <1>6, <1>7, <1>8, <1>9, <1>10, <1>11, <1>12, <1>13
  DEF Next, ConsumerStep, StopStep

(* Every behaviour of the loop is a behaviour of the abstract line.        *)
THEOREM LoopImplementsLine == Spec => ImplementsSerialDelivery
<1>1. SerialInv /\ [Next]_vars => [Abstract!AbstractNext]_(Abstract!absVars)
  BY StepImplements DEF Abstract!absVars, absLine
<1> QED
  BY <1>1, InitImplements, SerialInvariant, PTL
  DEF Spec, ImplementsSerialDelivery, Abstract!Spec
=============================================================================
