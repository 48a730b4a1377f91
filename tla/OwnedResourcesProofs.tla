------------------------ MODULE OwnedResourcesProofs ------------------------
(***************************************************************************)
(* Proofs about OwnedResources for any scopes, bridges, waiters and        *)
(* attachments and any number of messages.                                 *)
(***************************************************************************)
EXTENDS OwnedResources, SequenceTheorems, TLAPS

USE ResourceAssumption

(* Every attachment has a state.                                           *)
Shape == DOMAIN binding = Attachments

(* What a step makes of attachments: one is opened only where none is open *)
(* any more.                                                               *)
Lawful ==
    /\ Shape'
    /\ \/ \A a \in Attachments : binding'[a] = "open" => binding[a] = "open"
       \/ \E n \in Attachments : \A a \in Attachments : (binding'[a] = "open" /\ a # n) =>
             /\ binding[a] = "open"
             /\ ~(Home[a] = Home[n] /\ Session[a] = Session[n])

-----------------------------------------------------------------------------
LEMMA LawfulRelease == ASSUME Shape, NEW C, NEW ok, Release(C, ok) PROVE Lawful
<1>1. binding' = [a \in Attachments |->
                    IF a \in C \ Half(C, ok) THEN "closed" ELSE binding[a]]
  BY DEF Release
<1> QED
  BY <1>1 DEF Lawful, Shape

LEMMA LawfulAttach ==
    ASSUME Shape, NEW a \in Attachments, NEW ok, Attach(a, ok) PROVE Lawful
<1> DEFINE old == Open(Home[a], Session[a])
<1>1. Half(old, ok) = {}
  BY DEF Attach, MayAttach
<1>2. binding' = [x \in Attachments |-> IF x = a THEN "open" ELSE
                                        IF x \in old \ Half(old, ok) THEN "closed" ELSE binding[x]]
  BY DEF Attach
<1>3. ASSUME NEW x \in Attachments, binding'[x] = "open", x # a
      PROVE  binding[x] = "open" /\ ~(Home[x] = Home[a] /\ Session[x] = Session[a])
  <2>1. x \notin old /\ binding[x] = "open"
    BY <1>1, <1>2, <1>3
  <2> QED
    BY <2>1 DEF Open
<1>4. Shape'
  BY <1>1, <1>2 DEF Shape
<1> QED
  BY <1>1, <1>3, <1>4 DEF Lawful

LEMMA LawfulStep == Shape /\ [Next]_vars => Lawful
<1> SUFFICES ASSUME Shape, [Next]_vars PROVE Lawful
  OBVIOUS
<1>1. ASSUME UNCHANGED binding PROVE Lawful
  BY <1>1 DEF Lawful, Shape
<1>2. ASSUME NEW b \in Bridges, NEW ok, OpenBridge(b) \/ CloseBridge(b, ok) PROVE Lawful
  BY <1>1, <1>2, LawfulRelease DEF OpenBridge, CloseBridge
<1>3. ASSUME NEW s, NEW k, NEW ok, Detach(s, k, ok) PROVE Lawful
  BY <1>3, LawfulRelease DEF Detach
<1>4. ASSUME NEW a \in Attachments, NEW ok, Attach(a, ok) PROVE Lawful
  BY <1>4, LawfulAttach
<1>5. ASSUME NEW w \in Waiters, Expect(w) \/ CloseWaiter(w) \/ CancelAwait(w) \/ Expire(w)
      PROVE  Lawful
  BY <1>1, <1>5, LawfulRelease DEF Expect, CloseWaiter, CancelAwait, Expire, Ends
<1>6. ASSUME NEW w \in Waiters, AskPredicate(w) PROVE Lawful
  BY <1>1, <1>6 DEF AskPredicate, bound
<1>7. ASSUME NEW s, NEW W, EmitOn(s, W) \/ CallBackReturns(W) PROVE Lawful
  BY <1>1, <1>7 DEF EmitOn, CallBackReturns, Ends
<1>8. ASSUME NEW k, Receive(k) \/ CallBack \/ MessageDone PROVE Lawful
  BY <1>1, <1>8 DEF Receive, CallBack, MessageDone, bound
<1>9. ASSUME NEW s, NEW ok, BeginClose(s, ok) \/ FinishClose(s) PROVE Lawful
  BY <1>1, <1>9, LawfulRelease DEF BeginClose, FinishClose
<1>10. CASE UNCHANGED vars
  BY <1>1, <1>10 DEF vars, bound
<1>11. CASE PredicateAccepts \/ PredicateWithoutMatch
  BY <1>1, <1>11 DEF PredicateAccepts, PredicateWithoutMatch, Ends, bound
<1> QED
  BY <1>2, <1>3, <1>4, <1>5, <1>6, <1>7, <1>8, <1>9, <1>10, <1>11 DEF Next

-----------------------------------------------------------------------------
ListenerInv == Shape /\ OneListener

LEMMA ListenerInit == Init => ListenerInv
BY DEF Init, ListenerInv, Shape, OneListener

LEMMA ListenerStep == ListenerInv /\ [Next]_vars => ListenerInv'
<1> SUFFICES ASSUME ListenerInv, [Next]_vars PROVE ListenerInv'
  OBVIOUS
<1>1. Lawful
  BY LawfulStep DEF ListenerInv
<1>2. CASE \A a \in Attachments : binding'[a] = "open" => binding[a] = "open"
  BY <1>1, <1>2 DEF ListenerInv, OneListener, Lawful
<1>3. ASSUME NEW n \in Attachments,
             \A a \in Attachments : (binding'[a] = "open" /\ a # n) =>
                /\ binding[a] = "open"
                /\ ~(Home[a] = Home[n] /\ Session[a] = Session[n])
      PROVE  ListenerInv'
  BY <1>1, <1>3 DEF ListenerInv, OneListener, Lawful
<1> QED
  BY <1>1, <1>2, <1>3 DEF Lawful

(* A watchdog hears a scope and session once, however often it is attached *)
(* and whatever its detach left (_watchdog_registry.py:102-141).           *)
THEOREM OneListenerCorrect == Spec => []OneListener
<1>1. ListenerInv => OneListener
  BY DEF ListenerInv
<1> QED
  BY <1>1, ListenerInit, ListenerStep, PTL DEF Spec

-----------------------------------------------------------------------------
(* The client's list                                                       *)

(* What is taken off the list is gone, and the rest is still there.        *)
LEMMA TakenOffFacts ==
    ASSUME NEW q \in Seq(Bridges), NEW gone, NEW r \in TakenOff(q, gone)
    PROVE  r \in Seq(Bridges) /\ ToSet(r) = ToSet(q) \ gone
<1> DEFINE kept == ToSet(q) \ gone
<1>1. kept \subseteq Bridges
  BY DEF ToSet
<1>2. PICK n \in 0..Len(q) : r \in [1..n -> kept]
  BY DEF TakenOff
<1>3. r \in Seq(Bridges)
  BY <1>1, <1>2
<1> QED
  BY <1>3 DEF TakenOff

LEMMA AppendToSet ==
    ASSUME NEW q \in Seq(Bridges), NEW b \in Bridges
    PROVE  Append(q, b) \in Seq(Bridges) /\ ToSet(Append(q, b)) = ToSet(q) \cup {b}
<1>1. /\ Append(q, b) \in Seq(Bridges) /\ DOMAIN Append(q, b) = 1..(Len(q) + 1)
      /\ DOMAIN q = 1..Len(q) /\ Len(q) \in Nat
      /\ Append(q, b)[Len(q) + 1] = b
      /\ \A i \in 1..Len(q) : Append(q, b)[i] = q[i]
  OBVIOUS
<1>2. ASSUME NEW i \in 1..(Len(q) + 1) PROVE Append(q, b)[i] \in ToSet(q) \cup {b}
  BY <1>1 DEF ToSet
<1>3. ASSUME NEW x \in ToSet(q) \cup {b} PROVE x \in ToSet(Append(q, b))
  <2>1. CASE x = b
    <3>1. Len(q) + 1 \in 1..(Len(q) + 1)
      BY <1>1
    <3> QED
      BY <1>1, <2>1, <3>1 DEF ToSet
  <2>2. CASE x \in ToSet(q)
    <3>1. PICK i \in 1..Len(q) : q[i] = x
      BY <1>1, <2>2 DEF ToSet
    <3>2. i \in 1..(Len(q) + 1) /\ Append(q, b)[i] = x
      BY <1>1, <3>1
    <3> QED
      BY <1>1, <3>2 DEF ToSet
  <2> QED
    BY <2>1, <2>2
<1> QED
  BY <1>1, <1>2, <1>3 DEF ToSet

(* A bridge that closes with its attachment is a bridge.                   *)
LEMMA BridgesClosed ==
    ASSUME NEW C \in SUBSET Resources, NEW ok
    PROVE  /\ BridgesOf(C) \subseteq Bridges
           /\ \A b \in Bridges : b \in C => b \in BridgesOf(C)
           /\ Stuck(C, ok) \subseteq BridgesOf(C) /\ Stuck(C, ok) \subseteq ToSet(handlers)
           /\ Half(C, ok) \subseteq C \cap Attachments
           /\ \A b \in Bridges : b \in DoneWith(C, ok) => b \in BridgesOf(C) \ Stuck(C, ok)
           /\ \A a \in Attachments : a \in DoneWith(C, ok) => a \in C \ Half(C, ok)
           /\ \A w \in Waiters : w \in DoneWith(C, ok) => w \in C
<1>1. BridgesOf(C) \subseteq Bridges
  BY DEF BridgesOf
<1>2. \A b \in Bridges : b \in C => b \in BridgesOf(C)
  BY DEF BridgesOf
<1>3. Stuck(C, ok) \subseteq BridgesOf(C) /\ Stuck(C, ok) \subseteq ToSet(handlers)
  BY DEF Stuck
<1>4. Half(C, ok) \subseteq C \cap Attachments
  BY DEF Half
<1> QED
  BY <1>1, <1>2, <1>3, <1>4 DEF DoneWith

-----------------------------------------------------------------------------
(* Type correctness                                                        *)

Typed == TypeOK /\ (message # NoMessage => cursor >= 1)

LEMMA TypeInit == Init => Typed
BY EmptySeq DEF Init, Typed, TypeOK

LEMMA ReleaseType ==
    ASSUME TypeOK, NEW C \in SUBSET Resources, NEW ok, Release(C, ok),
           scope' \in [Scopes -> {"open", "closed", "finished"}], UNCHANGED dispatch
    PROVE  TypeOK'
<1>1. handlers' \in Seq(Bridges)
  BY TakenOffFacts DEF Release, TypeOK
<1>2. owned' \in [Scopes -> SUBSET Resources]
  BY DEF Release, TypeOK
<1>3. future' \in [Waiters -> {"none", "pending"} \cup Settled]
  BY DEF Release, Cancelled, Settled, TypeOK
<1>4. /\ bridge' \in [Bridges -> {"none", "open", "closed"}]
      /\ binding' \in [Attachments -> {"none", "open", "closed"}]
  BY DEF Release, TypeOK
<1> QED
  BY <1>1, <1>2, <1>3, <1>4 DEF Release, dispatch, TypeOK

LEMMA EndsType ==
    ASSUME TypeOK, NEW W \in SUBSET Waiters, NEW outcome \in Settled, Ends(W, outcome)
    PROVE  /\ owned' \in [Scopes -> SUBSET Resources]
           /\ future' \in [Waiters -> {"none", "pending"} \cup Settled]
           /\ linked' \subseteq linked /\ timers' \subseteq timers
           /\ UNCHANGED <<handlers, bridge, binding>>
<1>1. future' \in [Waiters -> {"none", "pending"} \cup Settled]
  BY DEF Ends, Outcome, TypeOK
<1> QED
  BY <1>1 DEF Ends, TypeOK

LEMMA AttachType ==
    ASSUME TypeOK, NEW a \in Attachments, NEW ok, Attach(a, ok)
    PROVE  TypeOK'
<1> DEFINE old == Open(Home[a], Session[a])
           own == {Carries[a]} \ {NoBridge}
<1>1. own \subseteq Bridges
  OBVIOUS
<1>2. PICK rest \in TakenOff(handlers, BridgesOf(old) \ Stuck(old, ok)) :
         handlers' = IF own = {} THEN rest ELSE Append(rest, Carries[a])
  BY DEF Attach
<1>3. handlers' \in Seq(Bridges)
  <2>1. rest \in Seq(Bridges)
    BY TakenOffFacts DEF TypeOK
  <2> QED
    BY <1>1, <1>2, <2>1, AppendToSet
<1>4. owned' \in [Scopes -> SUBSET Resources]
  <2>1. owned' = [owned EXCEPT ![Home[a]] = (@ \ DoneWith(old, ok)) \cup {a} \cup own]
    BY DEF Attach
  <2>2. a \in Resources /\ own \subseteq Resources
    BY <1>1 DEF Resources
  <2> QED
    BY <2>1, <2>2 DEF TypeOK
<1>5. /\ bridge' \in [Bridges -> {"none", "open", "closed"}]
      /\ binding' \in [Attachments -> {"none", "open", "closed"}]
      /\ linked' \subseteq Waiters \cup Attachments
  BY DEF Attach, TypeOK
<1> QED
  BY <1>3, <1>4, <1>5 DEF Attach, dispatch, TypeOK

LEMMA TypeStep == Typed /\ [Next]_vars => Typed'
<1> SUFFICES ASSUME TypeOK, message # NoMessage => cursor >= 1, [Next]_vars
             PROVE  TypeOK' /\ (message' # NoMessage => cursor' >= 1)
  BY DEF Typed
<1>0. UNCHANGED dispatch => (message' # NoMessage => cursor' >= 1)
  BY DEF dispatch
<1> USE DEF dispatch, bound
<1>1. ASSUME NEW b \in Bridges, OpenBridge(b) PROVE TypeOK' /\ UNCHANGED dispatch
  <2>1. handlers' \in Seq(Bridges)
    BY <1>1, AppendToSet DEF OpenBridge, TypeOK
  <2>2. owned' \in [Scopes -> SUBSET Resources]
    BY <1>1 DEF OpenBridge, TypeOK, Resources
  <2> QED
    BY <1>1, <2>1, <2>2 DEF OpenBridge, TypeOK
<1>2. ASSUME NEW b \in Bridges, NEW ok, CloseBridge(b, ok) PROVE TypeOK' /\ UNCHANGED dispatch
  <2>1. {b} \in SUBSET Resources
    BY DEF Resources
  <2> QED
    BY <1>2, <2>1, ReleaseType DEF CloseBridge, TypeOK
<1>3. ASSUME NEW s, NEW k, NEW ok, Detach(s, k, ok) PROVE TypeOK' /\ UNCHANGED dispatch
  <2>1. Open(s, k) \in SUBSET Resources
    BY DEF Open, Resources
  <2> QED
    BY <1>3, <2>1, ReleaseType DEF Detach, TypeOK
<1>4. ASSUME NEW a \in Attachments, NEW ok, Attach(a, ok) PROVE TypeOK' /\ UNCHANGED dispatch
  BY <1>4, AttachType DEF Attach
<1>5. ASSUME NEW w \in Waiters, Expect(w) PROVE TypeOK' /\ UNCHANGED dispatch
  <2>1. owned' \in [Scopes -> SUBSET Resources]
    BY <1>5 DEF Expect, TypeOK, Resources
  <2> QED
    BY <1>5, <2>1 DEF Expect, TypeOK
<1>6. ASSUME NEW w \in Waiters, CloseWaiter(w) PROVE TypeOK' /\ UNCHANGED dispatch
  <2>1. {w} \in SUBSET Resources
    BY DEF Resources
  <2> QED
    BY <1>6, <2>1, ReleaseType DEF CloseWaiter, TypeOK
<1>7. ASSUME NEW w \in Waiters, CancelAwait(w) PROVE TypeOK' /\ UNCHANGED dispatch
  BY <1>7 DEF CancelAwait, TypeOK, Settled
<1>8. ASSUME NEW w \in Waiters, Expire(w) PROVE TypeOK' /\ UNCHANGED dispatch
  <2>1. {w} \in SUBSET Waiters /\ "expired" \in Settled
    BY DEF Settled
  <2> QED
    BY <1>8, <2>1, EndsType DEF Expire, TypeOK
<1>9. ASSUME NEW s, NEW W \in SUBSET Waiters, EmitOn(s, W) PROVE TypeOK' /\ UNCHANGED dispatch
  <2>1. "matched" \in Settled
    BY DEF Settled
  <2> QED
    BY <1>9, <2>1, EndsType DEF EmitOn, TypeOK
<1>17. ASSUME NEW w \in Waiters, AskPredicate(w)
       PROVE  TypeOK' /\ (message' # NoMessage => cursor' >= 1)
  BY <1>17 DEF AskPredicate, TypeOK
<1>18. CASE PredicateAccepts
  <2>1. {asking} \in SUBSET Waiters /\ "matched" \in Settled
    BY <1>18 DEF PredicateAccepts, TypeOK, Settled
  <2> QED
    BY <1>18, <2>1, EndsType DEF PredicateAccepts, TypeOK
<1>19. CASE PredicateWithoutMatch
  BY <1>19 DEF PredicateWithoutMatch, TypeOK
<1>10. ASSUME NEW W \in SUBSET Waiters, CallBackReturns(W)
       PROVE  TypeOK' /\ (message' # NoMessage => cursor' >= 1)
  <2>1. "matched" \in Settled
    BY DEF Settled
  <2>2. /\ owned' \in [Scopes -> SUBSET Resources]
        /\ future' \in [Waiters -> {"none", "pending"} \cup Settled]
        /\ linked' \subseteq linked /\ timers' \subseteq timers
        /\ UNCHANGED <<handlers, bridge, binding>>
    BY <1>10, <2>1, EndsType DEF CallBackReturns
  <2>3. TypeOK'
    BY <1>10, <2>2 DEF CallBackReturns, TypeOK
  <2>4. cursor' = cursor + 1 /\ message' = message
    BY <1>10 DEF CallBackReturns
  <2> QED
    BY <2>3, <2>4 DEF TypeOK
<1>11. ASSUME NEW k \in Sessions, Receive(k)
       PROVE  TypeOK' /\ (message' # NoMessage => cursor' >= 1)
  BY <1>11 DEF Receive, TypeOK
<1>12. CASE CallBack
  <2>1. Current \in Bridges
    BY <1>12 DEF CallBack, Current, TypeOK
  <2> QED
    BY <1>12, <2>1 DEF CallBack, TypeOK
<1>13. CASE MessageDone
  BY <1>13 DEF MessageDone, TypeOK
<1>14. ASSUME NEW s \in Scopes, NEW ok, BeginClose(s, ok) PROVE TypeOK' /\ UNCHANGED dispatch
  <2>1. owned[s] \in SUBSET Resources /\ scope' \in [Scopes -> {"open", "closed", "finished"}]
    BY <1>14 DEF BeginClose, TypeOK
  <2> QED
    BY <1>14, <2>1, ReleaseType DEF BeginClose
<1>15. ASSUME NEW s \in Scopes, FinishClose(s) PROVE TypeOK' /\ UNCHANGED dispatch
  BY <1>15 DEF FinishClose, TypeOK
<1>16. CASE UNCHANGED vars
  BY <1>16 DEF vars, TypeOK
<1> QED
  BY <1>0, <1>1, <1>2, <1>3, <1>4, <1>5, <1>6, <1>7, <1>8, <1>9, <1>10, <1>11, <1>12, <1>13,
     <1>14, <1>15, <1>16, <1>17, <1>18, <1>19 DEF Next

(* The variables keep their types through any opening, closing and        *)
(* dispatching, reentrant or not.                                          *)
THEOREM TypeCorrect == Spec => []TypeOK
<1>1. Typed => TypeOK
  BY DEF Typed
<1> QED
  BY <1>1, TypeInit, TypeStep, PTL DEF Spec

-----------------------------------------------------------------------------
(* What scopes own                                                         *)

(* Also a waiter whose future is open is owned; a finished scope owns      *)
(* nothing and no connection of it is active.                              *)
FinishedOwnsNothing ==
    \A s \in Scopes : scope[s] = "finished" => owned[s] = {} /\ linked \cap In(s) = {}

OwnedInv ==
    /\ Typed
    /\ RetainedUntilReleased
    /\ \A w \in Waiters : future[w] = "pending" => w \in owned[Home[w]]
    /\ FinishedOwnsNothing

LEMMA OwnedInit == Init => OwnedInv
<1>1. Init => ToSet(handlers) = {}
  BY DEF Init, ToSet
<1> QED
  BY <1>1, TypeInit DEF Init, OwnedInv, RetainedUntilReleased, FinishedOwnsNothing

(* A scope lets go of what has been released, and of nothing else.         *)
Kept ==
    /\ RetainedUntilReleased'
    /\ \A w \in Waiters : future'[w] = "pending" => w \in owned'[Home[w]]

LEMMA ReleaseKeeps ==
    ASSUME OwnedInv, NEW C \in SUBSET Resources, NEW ok, Release(C, ok)
    PROVE  Kept /\ linked' \subseteq linked /\ \A s \in Scopes : owned'[s] \subseteq owned[s]
<1>0. TypeOK /\ RetainedUntilReleased
  BY DEF OwnedInv, Typed
<1>1. \A s \in Scopes : owned'[s] = owned[s] \ DoneWith(C, ok)
  BY DEF Release
<1>2. ASSUME NEW b \in ToSet(handlers') PROVE b \in owned'[Home[b]]
  <2>1. b \in ToSet(handlers) /\ b \notin BridgesOf(C) \ Stuck(C, ok)
    BY <1>0, TakenOffFacts DEF Release, TypeOK
  <2>2. b \in Bridges /\ Home[b] \in Scopes
    BY <1>0, <2>1 DEF TypeOK, ToSet, Resources
  <2>3. b \notin DoneWith(C, ok)
    BY <2>1, <2>2, BridgesClosed
  <2> QED
    BY <1>0, <1>1, <2>1, <2>2, <2>3 DEF RetainedUntilReleased
<1>3. ASSUME NEW a \in Attachments, binding'[a] = "open" PROVE a \in owned'[Home[a]]
  <2>1. binding[a] = "open" /\ a \notin C \ Half(C, ok)
    BY <1>3 DEF Release
  <2>2. a \notin DoneWith(C, ok) /\ Home[a] \in Scopes
    BY <2>1, BridgesClosed DEF Resources
  <2> QED
    BY <1>0, <1>1, <2>1, <2>2 DEF RetainedUntilReleased
<1>4. ASSUME NEW w \in Waiters, w \in linked' \cup timers' \/ future'[w] = "pending"
      PROVE  w \in owned'[Home[w]]
  <2>1. w \notin C /\ (w \in linked \cup timers \/ future[w] = "pending")
    BY <1>4 DEF Release, Cancelled
  <2>2. w \notin DoneWith(C, ok)
    BY <2>1, BridgesClosed
  <2>3. Home[w] \in Scopes
    BY DEF Resources
  <2> QED
    BY <1>0, <1>1, <2>1, <2>2, <2>3 DEF RetainedUntilReleased, OwnedInv
<1>5. linked' \subseteq linked
  BY DEF Release
<1>6. \A s \in Scopes : owned'[s] \subseteq owned[s]
  BY <1>1
<1> QED
  BY <1>2, <1>3, <1>4, <1>5, <1>6 DEF Kept, RetainedUntilReleased

LEMMA EndsKeeps ==
    ASSUME OwnedInv, NEW W \in SUBSET Waiters, NEW outcome \in Settled, Ends(W, outcome)
    PROVE  Kept /\ linked' \subseteq linked /\ \A s \in Scopes : owned'[s] \subseteq owned[s]
<1>0. TypeOK /\ RetainedUntilReleased
  BY DEF OwnedInv, Typed
<1>1. /\ \A s \in Scopes : owned'[s] = owned[s] \ W
      /\ linked' = linked \ W /\ timers' = timers \ W
      /\ UNCHANGED <<handlers, binding>>
  BY DEF Ends
<1>2. ASSUME NEW b \in ToSet(handlers') PROVE b \in owned'[Home[b]]
  <2>1. b \in ToSet(handlers) /\ b \in Bridges /\ Home[b] \in Scopes
    BY <1>0, <1>1 DEF TypeOK, ToSet, Resources
  <2> QED
    BY <1>0, <1>1, <2>1 DEF RetainedUntilReleased
<1>3. ASSUME NEW a \in Attachments, binding'[a] = "open" PROVE a \in owned'[Home[a]]
  <2>1. Home[a] \in Scopes /\ a \notin W
    BY DEF Resources
  <2> QED
    BY <1>0, <1>1, <1>3, <2>1 DEF RetainedUntilReleased
<1>4. ASSUME NEW w \in Waiters, w \in linked' \cup timers' \/ future'[w] = "pending"
      PROVE  w \in owned'[Home[w]]
  <2>1. w \notin W /\ (w \in linked \cup timers \/ future[w] = "pending")
    BY <1>1, <1>4 DEF Ends, Outcome, Settled
  <2>2. Home[w] \in Scopes
    BY DEF Resources
  <2> QED
    BY <1>0, <1>1, <2>1, <2>2 DEF RetainedUntilReleased, OwnedInv
<1> QED
  BY <1>1, <1>2, <1>3, <1>4 DEF Kept, RetainedUntilReleased

LEMMA AttachKeeps ==
    ASSUME OwnedInv, NEW a \in Attachments, NEW ok, Attach(a, ok)
    PROVE  /\ Kept /\ linked' \subseteq linked \cup {a}
           /\ \A s \in Scopes : s # Home[a] => owned'[s] = owned[s]
<1> DEFINE old == Open(Home[a], Session[a])
           own == {Carries[a]} \ {NoBridge}
<1>0. TypeOK /\ RetainedUntilReleased
  BY DEF OwnedInv, Typed
<1>1. /\ own \subseteq Bridges /\ \A b \in own : Home[b] = Home[a]
      /\ Home[a] \in Scopes /\ old \in SUBSET Resources /\ old \subseteq Attachments
  BY DEF Open, Resources
<1>2. \A s \in Scopes : owned'[s] = IF s = Home[a] THEN (owned[s] \ DoneWith(old, ok)) \cup {a} \cup own
                                   ELSE owned[s]
  BY <1>0, <1>1 DEF Attach, TypeOK
<1>3. PICK rest \in TakenOff(handlers, BridgesOf(old) \ Stuck(old, ok)) :
         handlers' = IF own = {} THEN rest ELSE Append(rest, Carries[a])
  BY DEF Attach
<1>4. /\ rest \in Seq(Bridges)
      /\ ToSet(rest) = ToSet(handlers) \ (BridgesOf(old) \ Stuck(old, ok))
  BY <1>0, TakenOffFacts DEF TypeOK
<1>5. ToSet(handlers') \subseteq ToSet(rest) \cup own
  BY <1>1, <1>3, <1>4, AppendToSet
<1>6. ASSUME NEW b \in ToSet(handlers') PROVE b \in owned'[Home[b]]
  <2>1. CASE b \in own
    BY <1>1, <1>2, <2>1
  <2>2. CASE b \in ToSet(rest)
    <3>1. b \in ToSet(handlers) /\ b \notin BridgesOf(old) \ Stuck(old, ok)
      BY <1>4, <2>2
    <3>2. b \in Bridges /\ Home[b] \in Scopes
      BY <1>0, <3>1 DEF TypeOK, ToSet, Resources
    <3>3. b \notin DoneWith(old, ok)
      BY <1>1, <3>1, <3>2, BridgesClosed
    <3> QED
      BY <1>0, <1>2, <3>1, <3>2, <3>3 DEF RetainedUntilReleased
  <2> QED
    BY <1>5, <2>1, <2>2
<1>7. ASSUME NEW x \in Attachments, binding'[x] = "open" PROVE x \in owned'[Home[x]]
  <2>1. binding' = [z \in Attachments |-> IF z = a THEN "open" ELSE
                                           IF z \in old \ Half(old, ok) THEN "closed" ELSE binding[z]]
    BY DEF Attach
  <2>2. Home[x] \in Scopes
    BY DEF Resources
  <2>3. CASE x = a
    BY <1>2, <2>2, <2>3
  <2>4. CASE x # a
    <3>1. binding[x] = "open" /\ x \notin old \ Half(old, ok)
      BY <1>7, <2>1, <2>4
    <3>2. x \notin DoneWith(old, ok)
      BY <1>1, <3>1, BridgesClosed
    <3> QED
      BY <1>0, <1>2, <2>2, <3>1, <3>2 DEF RetainedUntilReleased
  <2> QED
    BY <2>3, <2>4
<1>8. ASSUME NEW w \in Waiters, w \in linked' \cup timers' \/ future'[w] = "pending"
      PROVE  w \in owned'[Home[w]]
  <2>1. w \in linked \cup timers \/ future[w] = "pending"
    BY <1>8 DEF Attach
  <2>2. Home[w] \in Scopes /\ w \notin DoneWith(old, ok)
    BY <1>1, BridgesClosed DEF Resources
  <2> QED
    BY <1>0, <1>2, <2>1, <2>2 DEF RetainedUntilReleased, OwnedInv
<1>9. linked' \subseteq linked \cup {a}
  BY DEF Attach
<1> QED
  BY <1>2, <1>6, <1>7, <1>8, <1>9 DEF Kept, RetainedUntilReleased

(* Only an open scope takes on something new.                              *)
LEMMA FinishedShrinks ==
    ASSUME OwnedInv, NEW s \in Scopes, scope[s] = "finished",
           owned'[s] \subseteq owned[s], NEW r, r \notin In(s), linked' \subseteq linked \cup {r}
    PROVE  owned'[s] = {} /\ linked' \cap In(s) = {}
BY DEF OwnedInv, FinishedOwnsNothing

LEMMA OwnedStep == OwnedInv /\ [Next]_vars => Kept /\ FinishedOwnsNothing'
<1> SUFFICES ASSUME OwnedInv, [Next]_vars PROVE Kept /\ FinishedOwnsNothing'
  OBVIOUS
<1>0. TypeOK /\ RetainedUntilReleased
  BY DEF OwnedInv, Typed
<1>1. ASSUME Kept, linked' \subseteq linked, \A s \in Scopes : owned'[s] \subseteq owned[s],
             \A s \in Scopes : scope'[s] = "finished" => scope[s] = "finished"
      PROVE  Kept /\ FinishedOwnsNothing'
  BY <1>1 DEF FinishedOwnsNothing, OwnedInv, In
<1>2. ASSUME UNCHANGED <<scope, bound>> PROVE Kept /\ FinishedOwnsNothing'
  BY <1>2 DEF bound, Kept, RetainedUntilReleased, FinishedOwnsNothing, OwnedInv, In
<1>3. ASSUME NEW r \in Resources, scope[Home[r]] = "open", scope' = scope, Kept,
             linked' \subseteq linked \cup {r},
             \A s \in Scopes : s # Home[r] => owned'[s] = owned[s]
      PROVE  Kept /\ FinishedOwnsNothing'
  BY <1>3 DEF FinishedOwnsNothing, OwnedInv, In
<1>4. ASSUME NEW b \in Bridges, OpenBridge(b) PROVE Kept /\ FinishedOwnsNothing'
  <2>1. b \in Resources /\ Home[b] \in Scopes
    BY DEF Resources
  <2>2. /\ \A s \in Scopes : owned'[s] = IF s = Home[b] THEN owned[s] \cup {b} ELSE owned[s]
        /\ ToSet(handlers') = ToSet(handlers) \cup {b}
        /\ UNCHANGED <<scope, binding, linked, future, timers>>
    BY <1>0, <1>4, <2>1, AppendToSet DEF OpenBridge, TypeOK
  <2>3. Kept
    <3>1. \A r \in Resources : r \in owned[Home[r]] => r \in owned'[Home[r]]
      BY <2>2
    <3>2. \A c \in ToSet(handlers') : c \in owned'[Home[c]]
      <4>1. \A c \in ToSet(handlers) : c \in Resources
        BY <1>0 DEF ToSet, TypeOK, Resources
      <4> QED
        BY <1>0, <2>1, <2>2, <4>1 DEF RetainedUntilReleased
    <3> QED
      BY <1>0, <2>2, <3>1, <3>2 DEF Kept, RetainedUntilReleased, OwnedInv, Resources
  <2> QED
    BY <1>3, <1>4, <2>1, <2>2, <2>3 DEF OpenBridge
<1>5. ASSUME NEW w \in Waiters, Expect(w) PROVE Kept /\ FinishedOwnsNothing'
  <2>1. w \in Resources /\ Home[w] \in Scopes
    BY DEF Resources
  <2>2. /\ \A s \in Scopes : owned'[s] = IF s = Home[w] THEN owned[s] \cup {w} ELSE owned[s]
        /\ \A v \in Waiters : v # w => future'[v] = future[v]
        /\ linked' = linked \cup {w} /\ timers' \subseteq timers \cup {w}
        /\ UNCHANGED <<scope, binding, handlers>>
    BY <1>0, <1>5, <2>1 DEF Expect, TypeOK
  <2>3. Kept
    <3>1. \A r \in Resources : r \in owned[Home[r]] => r \in owned'[Home[r]]
      BY <2>2
    <3>2. \A c \in ToSet(handlers') : c \in owned'[Home[c]]
      <4>1. \A c \in ToSet(handlers) : c \in Resources
        BY <1>0 DEF ToSet, TypeOK, Resources
      <4> QED
        BY <1>0, <2>2, <3>1, <4>1 DEF RetainedUntilReleased
    <3>3. \A v \in Waiters : v \in linked' \cup timers' \/ future'[v] = "pending"
             => v \in owned'[Home[v]]
      <4> SUFFICES ASSUME NEW v \in Waiters, v # w, v \in Resources, v \in owned[Home[v]]
                   PROVE  v \in owned'[Home[v]]
        BY <1>0, <2>1, <2>2 DEF RetainedUntilReleased, OwnedInv, Resources
      <4> QED
        BY <3>1
    <3> QED
      BY <1>0, <2>2, <3>1, <3>2, <3>3 DEF Kept, RetainedUntilReleased, Resources
  <2> QED
    BY <1>3, <1>5, <2>1, <2>2, <2>3 DEF Expect
<1>6. ASSUME NEW a \in Attachments, NEW ok, Attach(a, ok) PROVE Kept /\ FinishedOwnsNothing'
  <2>1. a \in Resources
    BY DEF Resources
  <2>2. scope[Home[a]] = "open" /\ scope' = scope
    BY <1>6 DEF Attach
  <2> QED
    BY <1>3, <1>6, <2>1, <2>2, AttachKeeps
<1>7. ASSUME NEW C \in SUBSET Resources, NEW ok, Release(C, ok),
             \A s \in Scopes : scope'[s] = "finished" => scope[s] = "finished"
      PROVE  Kept /\ FinishedOwnsNothing'
  BY <1>1, <1>7, ReleaseKeeps
<1>8. ASSUME NEW W \in SUBSET Waiters, NEW outcome \in Settled, Ends(W, outcome), scope' = scope
      PROVE  Kept /\ FinishedOwnsNothing'
  BY <1>1, <1>8, EndsKeeps
<1>9. ASSUME NEW b \in Bridges, NEW ok, CloseBridge(b, ok) PROVE Kept /\ FinishedOwnsNothing'
  <2>1. {b} \in SUBSET Resources
    BY DEF Resources
  <2> QED
    BY <1>7, <1>9, <2>1 DEF CloseBridge
<1>10. ASSUME NEW s, NEW k, NEW ok, Detach(s, k, ok) PROVE Kept /\ FinishedOwnsNothing'
  <2>1. Open(s, k) \in SUBSET Resources
    BY DEF Open, Resources
  <2> QED
    BY <1>7, <1>10, <2>1 DEF Detach
<1>11. ASSUME NEW w \in Waiters, CloseWaiter(w) PROVE Kept /\ FinishedOwnsNothing'
  <2>1. {w} \in SUBSET Resources
    BY DEF Resources
  <2> QED
    BY <1>7, <1>11, <2>1 DEF CloseWaiter
<1>12. ASSUME NEW w \in Waiters, CancelAwait(w) PROVE Kept /\ FinishedOwnsNothing'
  <2>1. /\ \A v \in Waiters : future'[v] = "pending" => future[v] = "pending"
        /\ UNCHANGED <<scope, owned, handlers, binding, linked, timers>>
    BY <1>0, <1>12 DEF CancelAwait, TypeOK
  <2> QED
    BY <1>0, <1>1, <2>1 DEF Kept, RetainedUntilReleased, OwnedInv
<1>13. ASSUME NEW w \in Waiters, Expire(w) PROVE Kept /\ FinishedOwnsNothing'
  <2>1. {w} \in SUBSET Waiters /\ "expired" \in Settled
    BY DEF Settled
  <2> QED
    BY <1>8, <1>13, <2>1 DEF Expire
<1>14. ASSUME NEW s, NEW W \in SUBSET Waiters, EmitOn(s, W) \/ CallBackReturns(W)
       PROVE  Kept /\ FinishedOwnsNothing'
  <2>1. "matched" \in Settled
    BY DEF Settled
  <2> QED
    BY <1>8, <1>14, <2>1 DEF EmitOn, CallBackReturns
<1>15. ASSUME NEW k, Receive(k) \/ CallBack \/ MessageDone PROVE Kept /\ FinishedOwnsNothing'
  BY <1>2, <1>15 DEF Receive, CallBack, MessageDone
<1>16. ASSUME NEW s \in Scopes, NEW ok, BeginClose(s, ok) PROVE Kept /\ FinishedOwnsNothing'
  <2>1. /\ owned[s] \in SUBSET Resources
        /\ \A z \in Scopes : scope'[z] = "finished" => scope[z] = "finished"
    BY <1>0, <1>16 DEF BeginClose, TypeOK
  <2> QED
    BY <1>7, <1>16, <2>1 DEF BeginClose
<1>17. ASSUME NEW s \in Scopes, FinishClose(s) PROVE Kept /\ FinishedOwnsNothing'
  <2>1. /\ \A z \in Scopes : z # s => scope'[z] = scope[z]
        /\ owned[s] = {} /\ linked' = linked \ In(s)
        /\ UNCHANGED <<owned, handlers, binding, future, timers>>
    BY <1>0, <1>17 DEF FinishClose, NothingLeft, TypeOK
  <2>2. Kept
    BY <1>0, <2>1 DEF Kept, RetainedUntilReleased, OwnedInv
  <2> QED
    BY <2>1, <2>2 DEF FinishedOwnsNothing, OwnedInv, In
<1>18. CASE UNCHANGED vars
  BY <1>2, <1>18 DEF vars
<1>19. ASSUME NEW w, AskPredicate(w) \/ PredicateWithoutMatch PROVE Kept /\ FinishedOwnsNothing'
  BY <1>2, <1>19 DEF AskPredicate, PredicateWithoutMatch
<1>20. CASE PredicateAccepts
  <2>1. {asking} \in SUBSET Waiters /\ "matched" \in Settled
    BY <1>0, <1>20 DEF PredicateAccepts, TypeOK, Settled
  <2> QED
    BY <1>8, <1>20, <2>1 DEF PredicateAccepts
<1> QED
  BY <1>4, <1>5, <1>6, <1>9, <1>10, <1>11, <1>12, <1>13, <1>14, <1>15, <1>16, <1>17, <1>18,
     <1>19, <1>20 DEF Next

LEMMA OwnedInvariant == Spec => []OwnedInv
<1>1. OwnedInv /\ [Next]_vars => OwnedInv'
  BY TypeStep, OwnedStep DEF OwnedInv, Kept
<1> QED
  BY <1>1, OwnedInit, PTL DEF Spec

(* Nothing escapes its scope: a bridge whose client refused, an attachment *)
(* half detached and a waiter nobody has ended yet are found by its close. *)
THEOREM RetainedCorrect == Spec => []RetainedUntilReleased
<1>1. OwnedInv => RetainedUntilReleased
  BY DEF OwnedInv
<1> QED
  BY <1>1, OwnedInvariant, PTL

(* A close that completes leaves no callback, connection, timer, binding   *)
(* or open future of the scope behind.                                     *)
THEOREM FinishedCorrect == Spec => []FinishedHoldsNothing
<1>1. ASSUME OwnedInv, NEW s \in Scopes, scope[s] = "finished"
      PROVE  /\ ToSet(handlers) \cap In(s) = {}
             /\ (linked \cup timers) \cap In(s) = {}
             /\ \A w \in Waiters \cap In(s) : future[w] # "pending"
             /\ \A a \in Attachments \cap In(s) : binding[a] # "open"
  <2>1. /\ owned[s] = {} /\ linked \cap In(s) = {} /\ timers \subseteq Waiters
        /\ RetainedUntilReleased
    BY <1>1 DEF OwnedInv, FinishedOwnsNothing, Typed, TypeOK
  <2> QED
    BY <1>1, <2>1 DEF OwnedInv, RetainedUntilReleased, In
<1>2. OwnedInv => FinishedHoldsNothing
  BY <1>1 DEF FinishedHoldsNothing
<1> QED
  BY <1>2, OwnedInvariant, PTL

-----------------------------------------------------------------------------
(* Waiters                                                                 *)

ArmedInv == OwnedInv /\ ArmedWhilePending

(* A release disarms the waiters it names, an end those that end, and      *)
(* neither touches the others.                                             *)
LEMMA ReleaseArms ==
    ASSUME ArmedInv, NEW C \in SUBSET Resources, NEW ok, Release(C, ok)
    PROVE  ArmedWhilePending'
<1> SUFFICES ASSUME NEW w \in Waiters
             PROVE  /\ (w \in linked') <=> (w \in owned'[Home[w]])
                    /\ (w \in timers') <=> (w \in linked' /\ w \in Timed)
                    /\ future'[w] = "pending" => w \in linked'
                    /\ w \in linked' => future'[w] \in {"pending", "cancelled"}
  BY DEF ArmedWhilePending
<1>1. Home[w] \in Scopes /\ w \notin Bridges /\ w \notin Attachments
  BY DEF Resources
<1>2. (w \in DoneWith(C, ok)) <=> (w \in C)
  BY <1>1, BridgesClosed DEF DoneWith
<1>3. (w \in owned'[Home[w]]) <=> (w \in owned[Home[w]] /\ w \notin C)
  BY <1>1, <1>2 DEF Release
<1>4. /\ (w \in linked') <=> (w \in linked /\ w \notin C)
      /\ (w \in timers') <=> (w \in timers /\ w \notin C)
      /\ future'[w] = IF w \in C THEN Cancelled(w) ELSE future[w]
  BY DEF Release
<1>5. w \in C => future'[w] # "pending"
  BY <1>4 DEF Cancelled
<1> QED
  BY <1>3, <1>4, <1>5 DEF ArmedInv, ArmedWhilePending

LEMMA EndsArms ==
    ASSUME ArmedInv, NEW W \in SUBSET Waiters, NEW outcome \in Settled, Ends(W, outcome)
    PROVE  ArmedWhilePending'
<1> SUFFICES ASSUME NEW w \in Waiters
             PROVE  /\ (w \in linked') <=> (w \in owned'[Home[w]])
                    /\ (w \in timers') <=> (w \in linked' /\ w \in Timed)
                    /\ future'[w] = "pending" => w \in linked'
                    /\ w \in linked' => future'[w] \in {"pending", "cancelled"}
  BY DEF ArmedWhilePending
<1>1. Home[w] \in Scopes
  BY DEF Resources
<1>2. /\ (w \in owned'[Home[w]]) <=> (w \in owned[Home[w]] /\ w \notin W)
      /\ (w \in linked') <=> (w \in linked /\ w \notin W)
      /\ (w \in timers') <=> (w \in timers /\ w \notin W)
      /\ future'[w] = IF w \in W THEN Outcome(w, outcome) ELSE future[w]
  BY <1>1 DEF Ends
<1>3. w \in W => future'[w] # "pending"
  BY <1>2 DEF Outcome, Settled
<1> QED
  BY <1>2, <1>3 DEF ArmedInv, ArmedWhilePending

LEMMA ArmedStep == ArmedInv /\ [Next]_vars => ArmedWhilePending'
<1> SUFFICES ASSUME ArmedInv, [Next]_vars PROVE ArmedWhilePending'
  OBVIOUS
<1>0. TypeOK /\ ArmedWhilePending
  BY DEF ArmedInv, OwnedInv, Typed
<1>1. ASSUME UNCHANGED <<linked, timers, future>>,
             \A w \in Waiters : (w \in owned'[Home[w]]) <=> (w \in owned[Home[w]])
      PROVE  ArmedWhilePending'
  BY <1>0, <1>1 DEF ArmedWhilePending
<1>2. ASSUME UNCHANGED bound PROVE ArmedWhilePending'
  BY <1>1, <1>2 DEF bound
<1>3. ASSUME NEW b \in Bridges, OpenBridge(b) PROVE ArmedWhilePending'
  <2>1. \A s \in Scopes : owned'[s] = IF s = Home[b] THEN owned[s] \cup {b} ELSE owned[s]
    BY <1>0, <1>3 DEF OpenBridge, TypeOK
  <2>2. \A w \in Waiters : Home[w] \in Scopes /\ w # b
    BY DEF Resources
  <2> QED
    BY <1>1, <1>3, <2>1, <2>2 DEF OpenBridge
<1>4. ASSUME NEW C \in SUBSET Resources, NEW ok, Release(C, ok) PROVE ArmedWhilePending'
  BY <1>4, ReleaseArms
<1>5. ASSUME NEW b \in Bridges, NEW ok, CloseBridge(b, ok) PROVE ArmedWhilePending'
  <2>1. {b} \in SUBSET Resources
    BY DEF Resources
  <2> QED
    BY <1>4, <1>5, <2>1 DEF CloseBridge
<1>6. ASSUME NEW s, NEW k, NEW ok, Detach(s, k, ok) PROVE ArmedWhilePending'
  <2>1. Open(s, k) \in SUBSET Resources
    BY DEF Open, Resources
  <2> QED
    BY <1>4, <1>6, <2>1 DEF Detach
<1>7. ASSUME NEW a \in Attachments, NEW ok, Attach(a, ok) PROVE ArmedWhilePending'
  <2> DEFINE old == Open(Home[a], Session[a])
             own == {Carries[a]} \ {NoBridge}
  <2>1. /\ \A s \in Scopes : owned'[s] = IF s = Home[a]
              THEN (owned[s] \ DoneWith(old, ok)) \cup {a} \cup own ELSE owned[s]
        /\ linked' = (linked \ old) \cup {a}
        /\ UNCHANGED <<future, timers>>
    BY <1>0, <1>7 DEF Attach, TypeOK
  <2>2. old \in SUBSET Resources
    BY DEF Open, Resources
  <2>3. ASSUME NEW w \in Waiters
        PROVE  /\ (w \in linked') <=> (w \in linked)
               /\ (w \in owned'[Home[w]]) <=> (w \in owned[Home[w]])
    <3>1. Home[w] \in Scopes /\ w \notin old /\ w # a /\ w \notin own
      BY DEF Resources, Open
    <3>2. w \notin DoneWith(old, ok)
      BY <2>2, <3>1, BridgesClosed
    <3> HIDE DEF old, own
    <3>3. (w \in owned'[Home[w]]) <=> (w \in owned[Home[w]])
      BY <2>1, <3>1, <3>2
    <3>4. (w \in linked') <=> (w \in linked)
      BY <2>1, <3>1
    <3> QED
      BY <3>3, <3>4
  <2> QED
    BY <1>0, <2>1, <2>3 DEF ArmedWhilePending
<1>8. ASSUME NEW w \in Waiters, Expect(w) PROVE ArmedWhilePending'
  <2>1. Home[w] \in Scopes /\ future[w] = "none"
    BY <1>8 DEF Resources, Expect
  <2>2. /\ \A s \in Scopes : owned'[s] = IF s = Home[w] THEN owned[s] \cup {w} ELSE owned[s]
        /\ future' = [future EXCEPT ![w] = "pending"]
        /\ linked' = linked \cup {w} /\ timers' = timers \cup ({w} \cap Timed)
    BY <1>0, <1>8 DEF Expect, TypeOK
  <2>3. w \notin linked /\ w \notin timers
    BY <1>0, <2>1 DEF ArmedWhilePending
  <2>4. ASSUME NEW v \in Waiters
        PROVE  /\ (v \in owned'[Home[v]]) <=> (v = w \/ v \in owned[Home[v]])
               /\ future'[v] = IF v = w THEN "pending" ELSE future[v]
    <3>1. Home[v] \in Scopes
      BY DEF Resources
    <3>2. (v \in owned'[Home[v]]) <=> (v = w \/ v \in owned[Home[v]])
      <4>1. owned'[Home[v]] = IF Home[v] = Home[w] THEN owned[Home[v]] \cup {w} ELSE owned[Home[v]]
        BY <2>2, <3>1
      <4>2. v = w => Home[v] = Home[w]
        OBVIOUS
      <4> QED
        BY <4>1, <4>2
    <3>3. future'[v] = IF v = w THEN "pending" ELSE future[v]
      BY <1>0, <2>2 DEF TypeOK
    <3> QED
      BY <3>2, <3>3
  <2> QED
    BY <1>0, <2>2, <2>3, <2>4 DEF ArmedWhilePending
<1>9. ASSUME NEW w \in Waiters, CloseWaiter(w) PROVE ArmedWhilePending'
  <2>1. {w} \in SUBSET Resources
    BY DEF Resources
  <2> QED
    BY <1>4, <1>9, <2>1 DEF CloseWaiter
<1>10. ASSUME NEW w \in Waiters, CancelAwait(w) PROVE ArmedWhilePending'
  BY <1>0, <1>10 DEF CancelAwait, ArmedWhilePending, TypeOK
<1>11. ASSUME NEW W \in SUBSET Waiters, NEW o \in {"matched", "expired"}, Ends(W, o)
       PROVE  ArmedWhilePending'
  BY <1>11, EndsArms DEF Settled
<1>12. ASSUME NEW w \in Waiters, Expire(w) PROVE ArmedWhilePending'
  BY <1>11, <1>12 DEF Expire
<1>13. ASSUME NEW s, NEW W \in SUBSET Waiters, EmitOn(s, W) \/ CallBackReturns(W)
       PROVE  ArmedWhilePending'
  BY <1>11, <1>13 DEF EmitOn, CallBackReturns
<1>14. CASE PredicateAccepts
  BY <1>0, <1>11, <1>14 DEF PredicateAccepts, TypeOK
<1>15. ASSUME NEW w, NEW k, AskPredicate(w) \/ PredicateWithoutMatch
                            \/ Receive(k) \/ CallBack \/ MessageDone
       PROVE  ArmedWhilePending'
  BY <1>2, <1>15 DEF AskPredicate, PredicateWithoutMatch, Receive, CallBack, MessageDone
<1>16. ASSUME NEW s \in Scopes, NEW ok, BeginClose(s, ok) PROVE ArmedWhilePending'
  BY <1>0, <1>4, <1>16 DEF BeginClose, TypeOK
<1>17. ASSUME NEW s \in Scopes, FinishClose(s) PROVE ArmedWhilePending'
  <2>1. owned[s] = {} /\ linked' = linked \ In(s) /\ UNCHANGED <<owned, timers, future>>
    BY <1>17 DEF FinishClose, NothingLeft
  <2>2. \A w \in Waiters : (w \in linked') <=> (w \in linked)
    BY <1>0, <2>1 DEF ArmedWhilePending, In
  <2> QED
    BY <1>0, <2>1, <2>2 DEF ArmedWhilePending
<1>18. CASE UNCHANGED vars
  BY <1>2, <1>18 DEF vars
<1> QED
  BY <1>3, <1>5, <1>6, <1>7, <1>8, <1>9, <1>10, <1>12, <1>13, <1>14, <1>15, <1>16, <1>17, <1>18
  DEF Next

(* A waiter that may still be answered has all it needs for that, and one  *)
(* that is over keeps nothing, but for a cancelled awaiter's until its     *)
(* task runs, whatever predicates do in between (expect.py:48-112).        *)
THEOREM ArmedCorrect == Spec => []ArmedWhilePending
<1>1. Init => ArmedWhilePending
  BY DEF Init, ArmedWhilePending, Resources
<1>2. ArmedInv /\ [Next]_vars => ArmedInv'
  BY TypeStep, OwnedStep, ArmedStep DEF ArmedInv, OwnedInv, Kept
<1>3. Init => ArmedInv
  BY <1>1, OwnedInit DEF ArmedInv
<1>4. ArmedInv => ArmedWhilePending
  BY DEF ArmedInv
<1> QED
  BY <1>2, <1>3, <1>4, PTL DEF Spec
=============================================================================
