-------------------------- MODULE ScopeCloseProofs --------------------------
(***************************************************************************)
(* Proofs about ScopeClose, for any closers and resources and any number   *)
(* of calls: the lock has one holder, and what close reports is true.      *)
(***************************************************************************)
EXTENDS ScopeClose, SequenceTheorems, TLAPS

USE CloseAssumption

-----------------------------------------------------------------------------
(* The queue for the lock                                                  *)

(* Everybody in line is in it once.                                        *)
LineOnce == \A i, j \in DOMAIN line : line[i] = line[j] => i = j

(* The first in line leaves it.                                            *)
LEMMA HeadLeaves ==
    ASSUME TypeOK, LineOnce, NEW c \in Closers, InLine(c), Head(line) = c
    PROVE  /\ Tail(line) \in Seq(Closers)
           /\ \A i, j \in DOMAIN Tail(line) : Tail(line)[i] = Tail(line)[j] => i = j
           /\ \A d : (\E i \in DOMAIN Tail(line) : Tail(line)[i] = d) <=> InLine(d) /\ d # c
<1> DEFINE n == Len(line)
<1>1. line \in Seq(Closers) /\ DOMAIN line = 1..n /\ n \in Nat /\ n > 0 /\ line[1] = c
  BY DEF TypeOK, InLine
<1>2. /\ Tail(line) \in Seq(Closers) /\ DOMAIN Tail(line) = 1..(n - 1)
      /\ \A i \in 1..(n - 1) : Tail(line)[i] = line[i + 1]
  BY <1>1
<1>3. \A i, j \in DOMAIN Tail(line) : Tail(line)[i] = Tail(line)[j] => i = j
  BY <1>1, <1>2 DEF LineOnce
<1>4. ASSUME NEW d
      PROVE  (\E i \in DOMAIN Tail(line) : Tail(line)[i] = d) <=> InLine(d) /\ d # c
  <2>1. ASSUME NEW i \in 1..(n - 1), Tail(line)[i] = d PROVE InLine(d) /\ d # c
    <3>1. i + 1 \in 1..n /\ line[i + 1] = d /\ i + 1 # 1
      BY <1>1, <1>2, <2>1
    <3> QED
      BY <1>1, <3>1 DEF InLine, LineOnce
  <2>2. ASSUME InLine(d), d # c PROVE \E i \in 1..(n - 1) : Tail(line)[i] = d
    <3>1. PICK i \in 1..n : line[i] = d
      BY <1>1, <2>2 DEF InLine
    <3>2. i - 1 \in 1..(n - 1) /\ Tail(line)[i - 1] = d
      BY <1>1, <1>2, <2>2, <3>1
    <3> QED
      BY <3>2
  <2> QED
    BY <1>2, <2>1, <2>2
<1> QED
  BY <1>2, <1>3, <1>4

(* One who gives up leaves it from anywhere.                               *)
LEMMA OneLeaves ==
    ASSUME TypeOK, LineOnce, NEW c \in Closers, InLine(c)
    PROVE  /\ Without(c) \in Seq(Closers)
           /\ \A i, j \in DOMAIN Without(c) : Without(c)[i] = Without(c)[j] => i = j
           /\ \A d : (\E i \in DOMAIN Without(c) : Without(c)[i] = d) <=> InLine(d) /\ d # c
<1> DEFINE n == Len(line)
           k == CHOOSE i \in DOMAIN line : line[i] = c
           w == Without(c)
<1>1. line \in Seq(Closers) /\ DOMAIN line = 1..n /\ n \in Nat
  BY DEF TypeOK
<1>2. k \in 1..n /\ line[k] = c
  BY <1>1 DEF InLine
<1> DEFINE front == SubSeq(line, 1, k - 1)
           rear == SubSeq(line, k + 1, n)
<1>3. w = front \o rear
  BY DEF Without, RemoveAt
<1> HIDE DEF k, w, n
<1>4. /\ front \in Seq(Closers) /\ Len(front) = k - 1
      /\ \A i \in 1..(k - 1) : front[i] = line[i]
  BY <1>1, <1>2, SubSeqProperties DEF front
<1>5. /\ rear \in Seq(Closers) /\ Len(rear) = n - k
      /\ \A i \in 1..(n - k) : rear[i] = line[k + i]
  <2>1. k + 1 \in Int /\ n \in Int /\ \A i \in (k + 1)..n : line[i] \in Closers
    BY <1>1, <1>2
  <2>2. /\ rear \in Seq(Closers)
        /\ Len(rear) = IF k + 1 <= n THEN n - (k + 1) + 1 ELSE 0
        /\ \A i \in 1..(n - (k + 1) + 1) : rear[i] = line[(k + 1) + i - 1]
    BY <2>1, SubSeqProperties DEF rear
  <2>3. n - (k + 1) + 1 = n - k
    BY <1>1, <1>2
  <2>4. \A i \in 1..(n - k) : (k + 1) + i - 1 = k + i
    BY <1>1, <1>2
  <2>5. \A i \in 1..(n - k) : rear[i] = line[k + i]
    BY <2>2, <2>3, <2>4
  <2>6. Len(rear) = n - k
    BY <1>1, <1>2, <2>2
  <2> QED
    BY <2>2, <2>5, <2>6
<1>6. /\ w \in Seq(Closers) /\ DOMAIN w = 1..(n - 1)
      /\ \A i \in 1..(n - 1) : w[i] = IF i < k THEN line[i] ELSE line[i + 1]
  <2>1. /\ w \in Seq(Closers) /\ Len(w) = (k - 1) + (n - k)
        /\ \A i \in 1..((k - 1) + (n - k)) :
              w[i] = IF i <= k - 1 THEN front[i] ELSE rear[i - (k - 1)]
    <3>1. /\ w \in Seq(Closers) /\ Len(w) = Len(front) + Len(rear)
          /\ \A i \in 1..(Len(front) + Len(rear)) :
                w[i] = IF i <= Len(front) THEN front[i] ELSE rear[i - Len(front)]
      BY <1>3, <1>4, <1>5, ConcatProperties
    <3> QED
      BY <1>4, <1>5, <3>1
  <2>2. ASSUME NEW i \in 1..(n - 1) PROVE w[i] = IF i < k THEN line[i] ELSE line[i + 1]
    <3>1. i \in 1..((k - 1) + (n - k))
      BY <1>1, <1>2
    <3>2. CASE i < k
      <4>1. i \in 1..(k - 1) /\ i <= k - 1
        BY <1>1, <1>2, <3>2
      <4> QED
        BY <1>4, <2>1, <3>1, <3>2, <4>1
    <3>3. CASE ~(i < k)
      <4>1. i - (k - 1) \in 1..(n - k) /\ k + (i - (k - 1)) = i + 1 /\ ~(i <= k - 1)
        BY <1>1, <1>2, <3>3
      <4> QED
        BY <1>5, <2>1, <3>1, <3>3, <4>1
    <3> QED
      BY <3>2, <3>3
  <2> QED
    BY <1>1, <1>2, <2>1, <2>2
<1>7. \A i, j \in DOMAIN w : w[i] = w[j] => i = j
  <2> SUFFICES ASSUME NEW i \in 1..(n - 1), NEW j \in 1..(n - 1), w[i] = w[j] PROVE i = j
    BY <1>6
  <2> DEFINE from(x) == IF x < k THEN x ELSE x + 1
  <2>1. from(i) \in 1..n /\ from(j) \in 1..n
    BY <1>1, <1>2
  <2>2. line[from(i)] = line[from(j)]
    BY <1>6
  <2>3. from(i) = from(j)
    BY <1>1, <2>1, <2>2 DEF LineOnce
  <2> QED
    BY <1>1, <1>2, <2>3
<1>8. ASSUME NEW d
      PROVE  (\E i \in DOMAIN w : w[i] = d) <=> InLine(d) /\ d # c
  <2>1. ASSUME NEW i \in 1..(n - 1), w[i] = d PROVE InLine(d) /\ d # c
    <3>1. PICK j \in 1..n : line[j] = d /\ j # k
      BY <1>1, <1>2, <1>6, <2>1
    <3> QED
      BY <1>1, <1>2, <3>1 DEF InLine, LineOnce
  <2>2. ASSUME InLine(d), d # c PROVE \E i \in 1..(n - 1) : w[i] = d
    <3>1. PICK j \in 1..n : line[j] = d
      BY <1>1, <2>2 DEF InLine
    <3>2. CASE j < k
      BY <1>1, <1>2, <1>6, <3>1, <3>2
    <3>3. CASE j > k
      <4>1. j - 1 \in 1..(n - 1) /\ w[j - 1] = d
        BY <1>1, <1>2, <1>6, <3>1, <3>3
      <4> QED
        BY <4>1
    <3> QED
      BY <1>2, <2>2, <3>1, <3>2, <3>3
  <2> QED
    BY <1>6, <2>1, <2>2
<1> QED
  BY <1>6, <1>7, <1>8 DEF w

(* A new one goes to the end of it.                                        *)
LEMMA OneJoins ==
    ASSUME TypeOK, LineOnce, NEW c \in Closers, ~InLine(c)
    PROVE  /\ Append(line, c) \in Seq(Closers)
           /\ \A i, j \in DOMAIN Append(line, c) :
                 Append(line, c)[i] = Append(line, c)[j] => i = j
           /\ \A d : (\E i \in DOMAIN Append(line, c) : Append(line, c)[i] = d)
                        <=> InLine(d) \/ d = c
<1> DEFINE n == Len(line)
           q == Append(line, c)
<1>1. line \in Seq(Closers) /\ DOMAIN line = 1..n /\ n \in Nat
  BY DEF TypeOK
<1>2. /\ q \in Seq(Closers) /\ DOMAIN q = 1..(n + 1) /\ q[n + 1] = c
      /\ \A i \in 1..n : q[i] = line[i]
  BY <1>1
<1> HIDE DEF q
<1>3. \A i, j \in DOMAIN q : q[i] = q[j] => i = j
  BY <1>1, <1>2 DEF LineOnce, InLine
<1>4. \A d : (\E i \in DOMAIN q : q[i] = d) <=> InLine(d) \/ d = c
  BY <1>1, <1>2 DEF InLine
<1> QED
  BY <1>2, <1>3, <1>4 DEF q

-----------------------------------------------------------------------------
(* Type correctness                                                        *)

LEMMA TypeInit == Init => TypeOK
<1> SUFFICES ASSUME Init PROVE TypeOK
  OBVIOUS
<1>1. /\ overdue \in [Closers -> BOOLEAN] /\ failed \in [Closers -> BOOLEAN]
      /\ cancelling \in [Resources -> BOOLEAN]
  BY Zenon DEF Init
<1>2. calls \in 0..MaxCalls /\ line \in Seq(Closers)
  BY EmptySeq DEF Init
<1>3. /\ at \in [Closers -> {"idle"} \cup Queued \cup Holding]
      /\ result \in [Closers -> Results]
      /\ cleanup \in [Resources -> TaskEnds \cup {"none", "running"}]
  BY DEF Init, Results
<1> QED
  BY <1>1, <1>2, <1>3 DEF Init, TypeOK

LEMMA ReturnType ==
    ASSUME TypeOK, NEW c \in Closers, NEW outcome \in Results, Return(c, outcome)
    PROVE  /\ result' \in [Closers -> Results]
           /\ at' \in [Closers -> {"idle"} \cup Queued \cup Holding]
           /\ overdue' \in [Closers -> BOOLEAN]
           /\ failed' \in [Closers -> BOOLEAN]
           /\ locked' \in BOOLEAN
BY DEF TypeOK, Return

LEMMA PassType ==
    ASSUME TypeOK, NEW c \in Closers,
           NEW how \in [Called -> {"succeeds", "raises", "awaits"}], Pass(c, how)
    PROVE  /\ registered' \subseteq Resources
           /\ cleanup' \in [Resources -> TaskEnds \cup {"none", "running"}]
           /\ cancelling' \in [Resources -> BOOLEAN]
           /\ succeeded' \subseteq Resources
           /\ withdrawn' \subseteq Resources
           /\ repeated' \subseteq Resources
           /\ failed' \in [Closers -> BOOLEAN]
<1>1. Called \subseteq Resources
  BY DEF TypeOK, Called
<1>2. failed' \in [Closers -> BOOLEAN]
  BY DEF TypeOK, Pass
<1>3. cleanup' \in [Resources -> TaskEnds \cup {"none", "running"}]
  BY DEF TypeOK, Pass
<1>4. cancelling' \in [Resources -> BOOLEAN]
  BY Zenon DEF TypeOK, Pass
<1> QED
  BY <1>1, <1>2, <1>3, <1>4 DEF TypeOK, Pass

LEMMA ProceedType ==
    ASSUME TypeOK, NEW c \in Closers, Proceed(c)
    PROVE  /\ result' \in [Closers -> Results]
           /\ at' \in [Closers -> {"idle"} \cup Queued \cup Holding]
           /\ overdue' \in [Closers -> BOOLEAN]
           /\ failed' \in [Closers -> BOOLEAN]
           /\ locked' \in BOOLEAN
           /\ registered' \subseteq Resources
           /\ cleanup' \in [Resources -> TaskEnds \cup {"none", "running"}]
           /\ cancelling' \in [Resources -> BOOLEAN]
           /\ succeeded' \subseteq Resources
           /\ withdrawn' \subseteq Resources
           /\ repeated' \subseteq Resources
           /\ loop' \in {"open", "stopping", "ended"}
<1>1. CASE finished /\ Return(c, "complete") /\ UNCHANGED <<resVars, loop>>
  <2>1. "complete" \in Results
    BY DEF Results
  <2> QED
    BY <1>1, <2>1, ReturnType DEF TypeOK, resVars, taskVars
<1>2. ASSUME ~finished,
             NEW how \in [Called -> {"succeeds", "raises", "awaits"}], Pass(c, how),
             locked' = TRUE,
             \/ at' = [at EXCEPT ![c] = "cleaning"] /\ UNCHANGED loop
             \/ at' = [at EXCEPT ![c] = "stopping"] /\ StopLoop,
             UNCHANGED <<overdue, result>>
      PROVE  /\ at' \in [Closers -> {"idle"} \cup Queued \cup Holding]
             /\ loop' \in {"open", "stopping", "ended"}
  BY <1>2 DEF TypeOK, Holding, StopLoop
<1> QED
  BY <1>1, <1>2, PassType DEF Proceed, TypeOK

-----------------------------------------------------------------------------
(* The lock                                                                *)

(* The line holds exactly those that wait, and the lock is held by exactly *)
(* one of those that work under it.                                        *)
LockInv ==
    /\ LineOnce
    /\ \A c \in Closers : at[c] \in Queued <=> InLine(c)
    /\ locked <=> \E c \in Closers : at[c] \in Holding
    /\ \A c, d \in Closers : at[c] \in Holding /\ at[d] \in Holding => c = d

LEMMA TypeStep == TypeOK /\ LockInv /\ [Next]_vars => TypeOK'
<1> SUFFICES ASSUME TypeOK, LockInv, [Next]_vars PROVE TypeOK'
  OBVIOUS
<1> USE DEF lockVars, callVars, resVars, taskVars
<1>1. ASSUME NEW c \in Closers, CallFree(c) PROVE TypeOK'
  BY <1>1, ProceedType DEF CallFree, Call, TypeOK
<1>2. ASSUME NEW c \in Closers, CallBusy(c) PROVE TypeOK'
  BY <1>2, AppendProperties DEF CallBusy, Call, WaitsAs, Queued, TypeOK
<1>3. ASSUME NEW c \in Closers, Acquire(c) PROVE TypeOK'
  <2>1. Tail(line) \in Seq(Closers)
    BY <1>3, HeadLeaves DEF Acquire, LockInv
  <2> QED
    BY <1>3, <2>1, ProceedType DEF Acquire, TypeOK
<1>4. ASSUME NEW c \in Closers, GiveUp(c) PROVE TypeOK'
  <2>1. Without(c) \in Seq(Closers)
    BY <1>4, OneLeaves DEF GiveUp, LockInv, Queued
  <2> QED
    BY <1>4, <2>1 DEF GiveUp, TypeOK, Results
<1>5. ASSUME NEW c \in Closers, Collect(c) PROVE TypeOK'
  <2>1. cancelling' \in [Resources -> BOOLEAN] /\ failed' \in [Closers -> BOOLEAN]
    BY <1>5, Zenon DEF Collect, TypeOK
  <2>2. cleanup' \in [Resources -> TaskEnds \cup {"none", "running"}]
    BY <1>5 DEF Collect, TypeOK
  <2>3. /\ at' \in [Closers -> {"idle"} \cup Queued \cup Holding]
        /\ loop' \in {"open", "stopping", "ended"}
    BY <1>5 DEF Collect, StopLoop, Holding, TypeOK
  <2> QED
    BY <1>5, <2>1, <2>2, <2>3 DEF Collect, Busy, Retried, TypeOK
<1>6. ASSUME NEW c \in Closers, Conclude(c) PROVE TypeOK'
  <2>1. Answer(c) \in Results /\ Clean \in BOOLEAN
    BY DEF Answer, Results, Clean
  <2> QED
    BY <1>6, <2>1, ReturnType DEF Conclude, TypeOK
<1>7. ASSUME NEW c \in Closers, Cancel(c) PROVE TypeOK'
  <2>1. CASE at[c] \in Queued
    <3>1. Without(c) \in Seq(Closers)
      BY <2>1, OneLeaves DEF LockInv
    <3> QED
      BY <1>7, <2>1, <3>1 DEF Cancel, TypeOK, Results
  <2>2. CASE at[c] \notin Queued
    <3>1. "cancelled" \in Results
      BY DEF Results
    <3> QED
      BY <1>7, <2>2, <3>1, ReturnType DEF Cancel, TypeOK
  <2> QED
    BY <2>1, <2>2
<1>8. ASSUME NEW c \in Closers, Expire(c) PROVE TypeOK'
  BY <1>8 DEF Expire, TypeOK
<1>9. ASSUME NEW r \in Resources, CleanupEnds(r) PROVE TypeOK'
  BY <1>9 DEF CleanupEnds, TypeOK
<1>10. ASSUME NEW r \in Resources, Unregister(r) PROVE TypeOK'
  BY <1>10 DEF Unregister, TypeOK
<1>11. CASE LoopEnds
  BY <1>11 DEF LoopEnds, TypeOK
<1>12. CASE UNCHANGED vars
  BY <1>12 DEF vars, TypeOK
<1> QED
  BY <1>1, <1>2, <1>3, <1>4, <1>5, <1>6, <1>7, <1>8, <1>9, <1>10, <1>11, <1>12
  DEF Next, Progress

(* One who gets the lock holds it until the call returns, unless the scope *)
(* is finished and the call returns at once.                               *)
LEMMA ProceedLock ==
    ASSUME TypeOK, LockInv, ~locked, NEW c \in Closers, Proceed(c)
    PROVE  /\ \A d \in Closers : d # c => at'[d] = at[d]
           /\ at'[c] \notin Queued
           /\ locked' <=> \E d \in Closers : at'[d] \in Holding
           /\ \A d, e \in Closers : at'[d] \in Holding /\ at'[e] \in Holding => d = e
<1>1. \A d \in Closers : at[d] \notin Holding
  BY DEF LockInv
<1>2. CASE finished /\ Return(c, "complete")
  <2>1. at' = [at EXCEPT ![c] = "idle"] /\ ~locked'
    BY <1>2 DEF Return
  <2> QED
    BY <1>1, <2>1 DEF TypeOK, Queued, Holding
<1>3. CASE locked' /\ \E p \in Holding : at' = [at EXCEPT ![c] = p]
  BY <1>1, <1>3 DEF TypeOK, Queued, Holding
<1> QED
  BY <1>2, <1>3 DEF Proceed, Holding

LEMMA LockInit == Init => LockInv
BY DEF Init, LockInv, LineOnce, InLine, Queued, Holding

LEMMA LockStep == TypeOK /\ LockInv /\ [Next]_vars => LockInv'
<1> SUFFICES ASSUME TypeOK, LockInv, [Next]_vars PROVE LockInv'
  OBVIOUS
<1> USE DEF lockVars, callVars, resVars, taskVars
<1>1. ASSUME NEW c \in Closers, CallFree(c) PROVE LockInv'
  <2>1. /\ \A d \in Closers : d # c => at'[d] = at[d]
        /\ at'[c] \notin Queued /\ at[c] \notin Queued
        /\ locked' <=> \E d \in Closers : at'[d] \in Holding
        /\ \A d, e \in Closers : at'[d] \in Holding /\ at'[e] \in Holding => d = e
    BY <1>1, ProceedLock DEF CallFree, Call, Queued
  <2>2. line' = line
    BY <1>1 DEF CallFree
  <2> QED
    BY <2>1, <2>2 DEF LockInv, LineOnce, InLine
<1>2. ASSUME NEW c \in Closers, CallBusy(c) PROVE LockInv'
  <2>1. at[c] = "idle" /\ ~InLine(c)
    BY <1>2 DEF CallBusy, Call, LockInv, Queued
  <2>2. LineOnce' /\ \A d : InLine(d)' <=> InLine(d) \/ d = c
    BY <1>2, <2>1, OneJoins DEF CallBusy, LockInv, LineOnce, InLine
  <2>3. PICK q \in Queued : at' = [at EXCEPT ![c] = q]
    BY <1>2 DEF CallBusy, WaitsAs, Queued
  <2>4. q \notin Holding
    BY DEF Queued, Holding
  <2>5. /\ at'[c] = q
        /\ \A d \in Closers : d # c => at'[d] = at[d]
        /\ at[c] \notin Holding
    BY <2>1, <2>3 DEF TypeOK, Holding
  <2>6. locked' = locked
    BY <1>2 DEF CallBusy
  <2>7. locked' <=> \E d \in Closers : at'[d] \in Holding
    BY <2>4, <2>5, <2>6 DEF LockInv
  <2> QED
    BY <2>2, <2>4, <2>5, <2>7 DEF LockInv
<1>3. ASSUME NEW c \in Closers, Acquire(c) PROVE LockInv'
  <2>1. InLine(c) /\ ~locked /\ line' = Tail(line) /\ Head(line) = c
    BY <1>3 DEF Acquire, LockInv
  <2>2. LineOnce' /\ \A d : InLine(d)' <=> InLine(d) /\ d # c
    BY <2>1, HeadLeaves DEF LockInv, LineOnce, InLine
  <2>3. /\ \A d \in Closers : d # c => at'[d] = at[d]
        /\ at'[c] \notin Queued
        /\ locked' <=> \E d \in Closers : at'[d] \in Holding
        /\ \A d, e \in Closers : at'[d] \in Holding /\ at'[e] \in Holding => d = e
    BY <1>3, <2>1, ProceedLock DEF Acquire
  <2> QED
    BY <2>2, <2>3 DEF LockInv
<1>4. ASSUME NEW c \in Closers, at[c] \in Queued, line' = Without(c),
             at' = [at EXCEPT ![c] = "idle"], locked' = locked
      PROVE LockInv'
  <2>1. LineOnce' /\ \A d : InLine(d)' <=> InLine(d) /\ d # c
    <3>1. InLine(c)
      BY <1>4 DEF LockInv
    <3>2. /\ \A i, j \in DOMAIN Without(c) : Without(c)[i] = Without(c)[j] => i = j
          /\ \A d : (\E i \in DOMAIN Without(c) : Without(c)[i] = d) <=> InLine(d) /\ d # c
      BY <3>1, OneLeaves DEF LockInv
    <3>3. LineOnce'
      BY <1>4, <3>2 DEF LineOnce
    <3>4. \A d : InLine(d)' <=> InLine(d) /\ d # c
      BY <1>4, <3>2 DEF InLine
    <3> QED
      BY <3>3, <3>4
  <2>2. at'[c] = "idle" /\ \A d \in Closers : d # c => at'[d] = at[d]
    BY <1>4 DEF TypeOK
  <2>3. "idle" \notin Queued \cup Holding /\ at[c] \notin Holding
    BY <1>4 DEF Queued, Holding
  <2>4. locked' <=> \E d \in Closers : at'[d] \in Holding
    BY <1>4, <2>2, <2>3 DEF LockInv
  <2> QED
    BY <2>1, <2>2, <2>3, <2>4 DEF LockInv
<1>5. ASSUME NEW c \in Closers, Collect(c) PROVE LockInv'
  <2>1. at[c] \in Holding /\ line' = line /\ locked' = locked
    BY <1>5 DEF Collect, Holding
  <2>2. at'[c] \in Holding /\ \A d \in Closers : d # c => at'[d] = at[d]
    BY <1>5 DEF Collect, Holding, TypeOK
  <2>3. at[c] \notin Queued /\ at'[c] \notin Queued
    BY <2>1, <2>2 DEF Queued, Holding
  <2>4. locked' <=> \E d \in Closers : at'[d] \in Holding
    BY <2>1, <2>2 DEF LockInv
  <2> QED
    BY <2>1, <2>2, <2>3, <2>4 DEF LockInv, LineOnce, InLine
<1>6. ASSUME NEW c \in Closers, at[c] \in Holding, NEW outcome \in Results,
             Return(c, outcome), line' = line
      PROVE LockInv'
  <2>1. /\ at'[c] = "idle" /\ \A d \in Closers : d # c => at'[d] = at[d]
        /\ ~locked'
    BY <1>6 DEF Return, TypeOK
  <2>2. "idle" \notin Queued \cup Holding /\ at[c] \notin Queued
    BY <1>6 DEF Queued, Holding
  <2>3. \A d \in Closers : at'[d] \notin Holding
    BY <1>6, <2>1, <2>2 DEF LockInv
  <2> QED
    BY <1>6, <2>1, <2>2, <2>3 DEF LockInv, LineOnce, InLine
<1>7. ASSUME UNCHANGED <<line, locked, at>> PROVE LockInv'
  BY <1>7 DEF LockInv, LineOnce, InLine
<1>8. ASSUME NEW c \in Closers, GiveUp(c) PROVE LockInv'
  BY <1>4, <1>8 DEF GiveUp, Queued
<1>9. ASSUME NEW c \in Closers, Conclude(c) PROVE LockInv'
  <2>1. Answer(c) \in Results /\ at[c] \in Holding
    BY <1>9 DEF Conclude, Answer, Results, Holding
  <2> QED
    BY <1>6, <1>9, <2>1 DEF Conclude
<1>10. ASSUME NEW c \in Closers, Cancel(c) PROVE LockInv'
  <2>1. CASE at[c] \in Queued
    BY <1>4, <1>10, <2>1 DEF Cancel
  <2>2. CASE at[c] \notin Queued
    <3>1. at[c] \in Holding /\ "cancelled" \in Results
      BY <1>10, <2>2 DEF Cancel, TypeOK, Results
    <3> QED
      BY <1>6, <1>10, <2>2, <3>1 DEF Cancel
  <2> QED
    BY <2>1, <2>2
<1> QED
  BY <1>1, <1>2, <1>3, <1>5, <1>7, <1>8, <1>9, <1>10
  DEF Next, Progress, Expire, CleanupEnds, Unregister, LoopEnds, vars
-----------------------------------------------------------------------------
(* What the calls report                                                   *)

(* No resource is cleaned up twice or forgotten: a resource with a cleanup *)
(* task has not been cleaned up, and what is still registered has not      *)
(* either.                                                                 *)
WorkInv ==
    /\ \A r \in registered : r \notin succeeded
    /\ \A r \in Busy : r \notin succeeded
    /\ CleanedUpOnce
    /\ NothingForgotten

(* Nobody works on a finished scope, and every call ends its input.        *)
ReportInv ==
    /\ \A c \in Closers : at[c] \in Holding => ~finished
    /\ \A c \in Closers : at[c] # "idle" => closed
    /\ finished => closed
    /\ CompleteMeansClean

CloseInv == TypeOK /\ LockInv /\ WorkInv /\ ReportInv

LEMMA CloseInit == Init => CloseInv
BY TypeInit, LockInit
DEF Init, CloseInv, WorkInv, ReportInv, CompleteMeansClean, CleanedUpOnce, NothingForgotten,
    Holding, Busy

LEMMA PassWork ==
    ASSUME TypeOK, WorkInv, NEW c \in Closers,
           NEW how \in [Called -> {"succeeds", "raises", "awaits"}], Pass(c, how)
    PROVE  WorkInv'
<1> DEFINE sync == {r \in Called : how[r] = "succeeds"}
           async == {r \in Called : how[r] = "awaits"}
<1>1. /\ registered' = registered \ sync /\ succeeded' = succeeded \cup sync
      /\ withdrawn' = withdrawn
      /\ \A r \in Resources : cleanup'[r] = IF r \in async THEN "running" ELSE cleanup[r]
  BY DEF Pass
<1>2. sync \subseteq Called /\ async \subseteq Called /\ sync \cap async = {}
  OBVIOUS
<1>3. Called \subseteq registered /\ Called \cap Busy = {}
  BY DEF Called
<1>4. repeated' = {}
  BY <1>3 DEF Pass, WorkInv, CleanedUpOnce
<1>5. Busy' \subseteq Busy \cup async
  BY <1>1 DEF Busy
<1> HIDE DEF sync, async
<1>6. NothingForgotten'
  BY <1>1, <1>2, <1>3 DEF WorkInv, NothingForgotten
<1> QED
  BY <1>1, <1>2, <1>3, <1>4, <1>5, <1>6 DEF WorkInv, CleanedUpOnce

LEMMA WorkStep == TypeOK /\ WorkInv /\ [Next]_vars => WorkInv'
<1> SUFFICES ASSUME TypeOK, WorkInv, [Next]_vars PROVE WorkInv'
  OBVIOUS
<1> USE DEF lockVars, callVars, resVars, taskVars
<1>1. ASSUME UNCHANGED resVars PROVE WorkInv'
  BY <1>1 DEF WorkInv, Busy, CleanedUpOnce, NothingForgotten
<1>2. ASSUME NEW c \in Closers, Proceed(c) PROVE WorkInv'
  BY <1>1, <1>2, PassWork DEF Proceed
<1>3. ASSUME NEW c \in Closers, Collect(c) PROVE WorkInv'
  <2> DEFINE done == {r \in Busy : Ended(r)}
  <2>1. /\ registered' = (registered \ done) \cup Retried
        /\ withdrawn' = withdrawn \ Retried
        /\ succeeded' = succeeded \cup {r \in done : cleanup[r] = "returned"}
        /\ \A r \in Resources : cleanup'[r] = IF r \in done THEN "none" ELSE cleanup[r]
        /\ repeated' = repeated
    BY <1>3 DEF Collect
  <2>2. /\ \A r \in done : r \in Resources /\ r \notin succeeded
        /\ \A r \in done : cleanup[r] = "returned" \/ r \in Retried
        /\ \A r \in Retried : r \in done /\ cleanup[r] # "returned"
    BY DEF Busy, Ended, Retried, TaskEnds, WorkInv
  <2>3. \A r \in Busy' : r \in Busy /\ r \notin done
    BY <2>1 DEF Busy
  <2> HIDE DEF done
  <2>4. NothingForgotten'
    BY <2>1, <2>2 DEF WorkInv, NothingForgotten, TypeOK
  <2> QED
    BY <2>1, <2>2, <2>3, <2>4 DEF WorkInv, CleanedUpOnce
<1>4. ASSUME NEW r \in Resources, CleanupEnds(r) PROVE WorkInv'
  <2>1. Busy' = Busy
    BY <1>4 DEF CleanupEnds, Busy, TaskEnds, TypeOK
  <2> QED
    BY <1>4, <2>1 DEF CleanupEnds, WorkInv, CleanedUpOnce, NothingForgotten
<1>5. ASSUME NEW r \in Resources, Unregister(r) PROVE WorkInv'
  <2>1. Busy' = Busy
    BY <1>5 DEF Unregister, Busy
  <2> QED
    BY <1>5, <2>1 DEF Unregister, WorkInv, CleanedUpOnce, NothingForgotten
<1> QED
  BY <1>1, <1>2, <1>3, <1>4, <1>5
  DEF Next, Progress, CallFree, CallBusy, Acquire, GiveUp, Conclude, Cancel, Expire,
      LoopEnds, vars

LEMMA ReportStep == TypeOK /\ LockInv /\ ReportInv /\ [Next]_vars => ReportInv'
<1> SUFFICES ASSUME TypeOK, LockInv, ReportInv, [Next]_vars PROVE ReportInv'
  OBVIOUS
<1> USE DEF lockVars, callVars, resVars, taskVars
<1>1. ASSUME NEW c \in Closers, Proceed(c), closed', finished' = finished
      PROVE ReportInv'
  <2>1. CASE finished /\ Return(c, "complete") /\ UNCHANGED <<resVars, loop>>
    <3>1. /\ at' = [at EXCEPT ![c] = "idle"]
          /\ result' = [result EXCEPT ![c] = "complete"]
      BY <2>1 DEF Return
    <3>2. \A d \in Closers : at'[d] = at[d] \/ at'[d] = "idle"
      BY <3>1 DEF TypeOK
    <3>3. CompleteMeansClean'
      BY <1>1, <2>1 DEF ReportInv, CompleteMeansClean, Busy
    <3> QED
      BY <1>1, <3>2, <3>3 DEF ReportInv, Holding
  <2>2. CASE ~finished /\ result' = result
    BY <1>1, <2>2 DEF ReportInv, CompleteMeansClean
  <2> QED
    BY <1>1, <2>1, <2>2 DEF Proceed
<1>2. ASSUME NEW c \in Closers, UNCHANGED <<finished, loop, registered, cleanup>>, closed',
             closed => closed', \A d \in Closers : at'[d] \in Holding => at[d] \in Holding,
             \A d \in Closers : result'[d] = result[d] \/ result'[d] # "complete"
      PROVE ReportInv'
  BY <1>2 DEF ReportInv, CompleteMeansClean, Busy
<1>3. ASSUME NEW c \in Closers, CallFree(c) PROVE ReportInv'
  BY <1>1, <1>3 DEF CallFree, Call
<1>4. ASSUME NEW c \in Closers, CallBusy(c) PROVE ReportInv'
  <2>1. at' = [at EXCEPT ![c] = WaitsAs] /\ WaitsAs \notin Holding
    BY <1>4 DEF CallBusy, WaitsAs, Holding
  <2>2. \A d \in Closers : at'[d] \in Holding => at[d] \in Holding
    BY <2>1 DEF TypeOK
  <2> QED
    BY <1>2, <1>4, <2>2 DEF CallBusy, Call
<1>5. ASSUME NEW c \in Closers, Acquire(c) PROVE ReportInv'
  BY <1>1, <1>5 DEF Acquire, Queued, ReportInv
<1>6. ASSUME NEW c \in Closers, GiveUp(c) PROVE ReportInv'
  <2>1. closed' /\ \A d \in Closers : at'[d] \in Holding => at[d] \in Holding
    BY <1>6 DEF GiveUp, TypeOK, Holding, ReportInv
  <2>2. \A d \in Closers : result'[d] = result[d] \/ result'[d] # "complete"
    BY <1>6 DEF GiveUp, TypeOK
  <2> QED
    BY <1>2, <1>6, <2>1, <2>2 DEF GiveUp
<1>7. ASSUME NEW c \in Closers, Collect(c) PROVE ReportInv'
  <2>1. ~finished /\ closed /\ UNCHANGED <<finished, closed, result>>
    BY <1>7 DEF Collect, ReportInv, Holding
  <2> QED
    BY <2>1 DEF ReportInv, CompleteMeansClean
<1>8. ASSUME NEW c \in Closers, Conclude(c) PROVE ReportInv'
  <2>1. /\ ~finished /\ closed /\ closed' /\ finished' = Clean
        /\ at[c] \in Holding /\ at' = [at EXCEPT ![c] = "idle"]
        /\ result' = [result EXCEPT ![c] = Answer(c)]
        /\ UNCHANGED <<loop, registered, cleanup>>
    BY <1>8 DEF Conclude, Return, ReportInv, Holding
  <2>2. \A d \in Closers : at'[d] \notin Holding
    BY <2>1 DEF LockInv, TypeOK, Holding
  <2>3. \A d \in Closers : result'[d] = "complete" => Clean
    BY <2>1 DEF ReportInv, CompleteMeansClean, Answer, TypeOK
  <2> QED
    BY <2>1, <2>2, <2>3 DEF ReportInv, CompleteMeansClean, Clean, Busy
<1>9. ASSUME NEW c \in Closers, Cancel(c) PROVE ReportInv'
  <2>1. /\ at' = [at EXCEPT ![c] = "idle"] /\ closed' = closed /\ closed
        /\ result' = [result EXCEPT ![c] = "cancelled"]
        /\ UNCHANGED <<finished, loop, registered, cleanup>>
    BY <1>9 DEF Cancel, Return, ReportInv
  <2>2. /\ \A d \in Closers : at'[d] \in Holding => at[d] \in Holding
        /\ \A d \in Closers : result'[d] = result[d] \/ result'[d] # "complete"
    BY <2>1 DEF TypeOK, Holding
  <2> QED
    BY <1>2, <2>1, <2>2
<1>10. ASSUME NEW c \in Closers, Expire(c) PROVE ReportInv'
  BY <1>10 DEF Expire, ReportInv, CompleteMeansClean, Busy
<1>11. ASSUME NEW r \in Resources, CleanupEnds(r) PROVE ReportInv'
  <2>1. ~finished
    BY <1>11 DEF CleanupEnds, ReportInv, CompleteMeansClean, Busy
  <2> QED
    BY <1>11, <2>1 DEF CleanupEnds, ReportInv, CompleteMeansClean
<1>12. ASSUME NEW r \in Resources, Unregister(r) PROVE ReportInv'
  BY <1>12 DEF Unregister, ReportInv, CompleteMeansClean, Busy
<1>13. CASE LoopEnds
  BY <1>13 DEF LoopEnds, ReportInv, CompleteMeansClean, Busy
<1>14. CASE UNCHANGED vars
  BY <1>14 DEF vars, ReportInv, CompleteMeansClean, Busy
<1> QED
  BY <1>3, <1>4, <1>5, <1>6, <1>7, <1>8, <1>9, <1>10, <1>11, <1>12, <1>13, <1>14
  DEF Next, Progress

LEMMA CloseStep == CloseInv /\ [Next]_vars => CloseInv'
BY TypeStep, LockStep, WorkStep, ReportStep DEF CloseInv

(* Every reachable state satisfies the inductive invariant.                *)
THEOREM CloseInvariant == Spec => []CloseInv
BY CloseInit, CloseStep, PTL DEF Spec

(* The variables keep their types through any calls, cancellations and     *)
(* expired budgets of close.                                               *)
THEOREM TypeCorrect == Spec => []TypeOK
<1>1. CloseInv => TypeOK
  BY DEF CloseInv
<1> QED
  BY <1>1, CloseInvariant, PTL

(* _close_lock has one holder, who is in a call, and a task that is        *)
(* cancelled or gives up in line leaves neither a gap nor a stale entry.   *)
THEOREM LockHeldByOne == Spec => []LockInv
<1>1. CloseInv => LockInv
  BY DEF CloseInv
<1> QED
  BY <1>1, CloseInvariant, PTL

(* A close that reports completion tells the truth.                        *)
THEOREM CompletionTrue == Spec => []CompleteMeansClean
<1>1. CloseInv => CompleteMeansClean
  BY DEF CloseInv, ReportInv
<1> QED
  BY <1>1, CloseInvariant, PTL

(* No cleanup of a resource runs next to, or after, another that succeeds. *)
THEOREM NoSecondCleanup == Spec => []CleanedUpOnce
<1>1. CloseInv => CleanedUpOnce
  BY DEF CloseInv, WorkInv
<1> QED
  BY <1>1, CloseInvariant, PTL

(* A resource whose cleanup failed or was cancelled stays registered.      *)
THEOREM ResourcesKept == Spec => []NothingForgotten
<1>1. CloseInv => NothingForgotten
  BY DEF CloseInv, WorkInv
<1> QED
  BY <1>1, CloseInvariant, PTL

-----------------------------------------------------------------------------
(* ScopeClose implements ScopeLifetime                                     *)

lifePhase  == IF finished THEN "finished" ELSE IF closed THEN "closing" ELSE "open"
lifeInside == {c \in Closers : at[c] # "idle"}

LEMMA LifetimeInit == Init => Lifetime!LifetimeInit
BY DEF Init, Lifetime!LifetimeInit

(* A call that ends maps to Leave.                                         *)
LEMMA ReturnLeaves ==
    ASSUME TypeOK, NEW c \in Closers, NEW a \in Lifetime!Answers,
           at[c] # "idle" \/ finished, closed, closed',
           at' = [at EXCEPT ![c] = "idle"], result' = [result EXCEPT ![c] = a],
           finished => finished',
           a = "complete" => finished',
           finished' /\ ~finished => a \in {"complete", "error"}
    PROVE  Lifetime!Leave(c)
<1>1. lifeInside' = lifeInside \ {c}
  BY DEF lifeInside, TypeOK
<1>2. /\ c \in lifeInside \/ lifePhase = "finished"
      /\ lifePhase' \in {lifePhase, "finished"}
      /\ a = "complete" => lifePhase' = "finished"
      /\ lifePhase' # lifePhase => a \in {"complete", "error"}
  BY DEF lifeInside, lifePhase, TypeOK
<1> QED
  BY <1>1, <1>2 DEF lifeInside, lifePhase, Lifetime!Leave

(* A call that starts, and does not come back at once, maps to Enter or,   *)
(* where the scope is finished already, to Join.                           *)
LEMMA CallEnters ==
    ASSUME TypeOK, NEW c \in Closers, at[c] = "idle",
           closed', finished => closed, finished' = finished, result' = result,
           NEW p, p # "idle", at' = [at EXCEPT ![c] = p]
    PROVE  Lifetime!Enter(c) \/ Lifetime!Join(c)
<1>1. lifeInside' = lifeInside \cup {c} /\ c \notin lifeInside
  BY DEF lifeInside, TypeOK
<1>2. CASE finished
  <2>1. lifePhase = "finished" /\ lifePhase' = lifePhase
    BY <1>2 DEF lifePhase
  <2> QED
    BY <1>1, <2>1 DEF lifeInside, lifePhase, Lifetime!Join
<1>3. CASE ~finished
  <2>1. lifePhase # "finished" /\ lifePhase' = "closing"
    BY <1>3 DEF lifePhase
  <2> QED
    BY <1>1, <2>1 DEF lifeInside, lifePhase, Lifetime!Enter
<1> QED
  BY <1>2, <1>3

(* What happens inside the calls is not visible outside.                   *)
LEMMA InsideStutters ==
    ASSUME TypeOK, UNCHANGED <<closed, finished, result>>,
           \A c \in Closers : at'[c] = "idle" <=> at[c] = "idle"
    PROVE  UNCHANGED Lifetime!lifeVars
BY DEF Lifetime!lifeVars

LEMMA LifetimeStep ==
    CloseInv /\ [Next]_vars => [Lifetime!LifetimeNext]_(Lifetime!lifeVars)
<1> SUFFICES ASSUME CloseInv, [Next]_vars
             PROVE  Lifetime!LifetimeNext \/ UNCHANGED Lifetime!lifeVars
  OBVIOUS
<1> USE DEF lockVars, callVars, resVars, taskVars
<1>0. TypeOK /\ LockInv /\ ReportInv
  BY DEF CloseInv
<1>1. ASSUME NEW c \in Closers, CallFree(c)
      PROVE  Lifetime!Leave(c) \/ Lifetime!Enter(c) \/ Lifetime!Join(c)
  <2>1. CASE finished /\ Return(c, "complete")
    BY <1>0, <1>1, <2>1, ReturnLeaves
    DEF CallFree, Call, Return, ReportInv, Lifetime!Answers
  <2>2. ASSUME NEW p \in Holding, at' = [at EXCEPT ![c] = p], result' = result
        PROVE  Lifetime!Enter(c) \/ Lifetime!Join(c)
    <3>1. p # "idle"
      BY DEF Holding
    <3> QED
      BY <1>0, <1>1, <2>2, <3>1, CallEnters DEF CallFree, Call, ReportInv
  <2> QED
    BY <1>1, <2>1, <2>2 DEF CallFree, Proceed, Holding
<1>2. ASSUME NEW c \in Closers, CallBusy(c)
      PROVE  Lifetime!Enter(c) \/ Lifetime!Join(c)
  <2>1. WaitsAs # "idle"
    BY DEF WaitsAs
  <2> QED
    BY <1>0, <1>2, <2>1, CallEnters DEF CallBusy, Call, ReportInv
<1>3. ASSUME NEW c \in Closers, Acquire(c)
      PROVE  Lifetime!Leave(c) \/ UNCHANGED Lifetime!lifeVars
  <2>1. CASE finished /\ Return(c, "complete")
    BY <1>0, <1>3, <2>1, ReturnLeaves
    DEF Acquire, Return, ReportInv, Lifetime!Answers
  <2>2. ASSUME NEW p \in Holding, at' = [at EXCEPT ![c] = p], result' = result
        PROVE  UNCHANGED Lifetime!lifeVars
    <3>1. p # "idle" /\ at[c] # "idle"
      BY <1>3 DEF Acquire, Queued, Holding
    <3>2. \A d \in Closers : at'[d] = "idle" <=> at[d] = "idle"
      BY <1>0, <2>2, <3>1 DEF TypeOK
    <3> QED
      BY <1>0, <1>3, <2>2, <3>2, InsideStutters DEF Acquire
  <2> QED
    BY <1>3, <2>1, <2>2 DEF Acquire, Proceed, Holding
<1>4. ASSUME NEW c \in Closers, GiveUp(c) PROVE Lifetime!Leave(c)
  BY <1>0, <1>4, ReturnLeaves DEF GiveUp, ReportInv, Lifetime!Answers
<1>5. ASSUME NEW c \in Closers, Collect(c) PROVE UNCHANGED Lifetime!lifeVars
  <2>1. \A d \in Closers : at'[d] = "idle" <=> at[d] = "idle"
    BY <1>0, <1>5 DEF Collect, TypeOK
  <2> QED
    BY <1>0, <1>5, <2>1, InsideStutters DEF Collect
<1>6. ASSUME NEW c \in Closers, Conclude(c) PROVE Lifetime!Leave(c)
  <2>1. /\ at[c] # "idle" /\ closed /\ closed' /\ ~finished
        /\ Answer(c) \in Lifetime!Answers
        /\ Answer(c) = "complete" => Clean
        /\ Clean => Answer(c) \in {"complete", "error"}
        /\ finished' = Clean
    BY <1>0, <1>6 DEF Conclude, ReportInv, Answer, Lifetime!Answers, Holding
  <2>2. /\ at' = [at EXCEPT ![c] = "idle"]
        /\ result' = [result EXCEPT ![c] = Answer(c)]
    BY <1>6 DEF Conclude, Return
  <2> QED
    BY <1>0, <2>1, <2>2, ReturnLeaves
<1>7. ASSUME NEW c \in Closers, Cancel(c) PROVE Lifetime!Leave(c)
  BY <1>0, <1>7, ReturnLeaves DEF Cancel, Return, ReportInv, Lifetime!Answers
<1>8. CASE UNCHANGED <<closed, finished, result, at>>
  BY <1>0, <1>8, InsideStutters
<1> QED
  BY <1>1, <1>2, <1>3, <1>4, <1>5, <1>6, <1>7, <1>8
  DEF Next, Progress, Expire, CleanupEnds, Unregister, LoopEnds, vars, Lifetime!LifetimeNext

(* EventScope.close, with its lock, cleanup tasks and budgets, keeps the   *)
(* promises that the scope group and every other caller relies on.         *)
THEOREM ClosesAsPromised == Spec => ImplementsLifetime
BY LifetimeInit, LifetimeStep, CloseInvariant, PTL
DEF Spec, ImplementsLifetime, Lifetime!Spec
=============================================================================
