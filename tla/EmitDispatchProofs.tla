------------------------- MODULE EmitDispatchProofs -------------------------
(***************************************************************************)
(* Proofs about EmitDispatch for any scopes, connections, event types and  *)
(* events: the caches of a scope are never behind its connections.         *)
(*                                                                         *)
(* Only the numbers matter.  No cached answer has a number greater than    *)
(* the latest change of its scope, so a change, which takes the next       *)
(* number, outdates all of them; and one that has the latest number is     *)
(* what the storage says.  What Matches computes is never looked into.     *)
(***************************************************************************)
EXTENDS EmitDispatch, FiniteSetTheorems, SequenceTheorems, TLAPS

USE MatchAssumption

(* The tables have an entry for every scope and type, and the numbers of   *)
(* what is cached lie behind the latest change or on it.                   *)
Numbered ==
    /\ version \in [Scopes -> Nat]
    /\ negVersion \in [Scopes -> Nat]
    /\ DOMAIN negative = Scopes
    /\ DOMAIN remembered = Scopes
    /\ DOMAIN listed = Scopes
    /\ \A s \in Scopes : /\ negVersion[s] <= version[s]
                         /\ DOMAIN remembered[s] = Types
    /\ \A s \in Scopes, t \in Types : /\ remembered[s][t].version \in Int
                                      /\ remembered[s][t].version <= version[s]

(* What has the number of the latest change is what the storage says.      *)
LatestTrue ==
    \A s \in Scopes, t \in Types :
      /\ (negVersion[s] = version[s] /\ t \in negative[s]) => Matching(s, t) = {}
      /\ remembered[s][t].version = version[s]
           => remembered[s][t].conns = Matching(s, t)

CacheInv == Numbered /\ LatestTrue

-----------------------------------------------------------------------------
LEMMA CacheInit == Init => CacheInv
<1> SUFFICES ASSUME Init PROVE CacheInv
  OBVIOUS
<1>1. \A s \in Scopes : negative[s] = {} /\ version[s] = 0
  BY DEF Init, MatchInit
<1>2. \A s \in Scopes, t \in Types : remembered[s][t] = [version |-> -1, conns |-> {}]
  BY DEF Init, MatchInit, Nothing
<1>3. Numbered
  BY <1>1, <1>2 DEF Init, MatchInit, Numbered
<1>4. LatestTrue
  BY <1>1, <1>2 DEF LatestTrue
<1> QED
  BY <1>3, <1>4 DEF CacheInv

(* Nothing a look-up reads has changed.                                    *)
LEMMA CacheStutter == CacheInv /\ UNCHANGED matchVars => CacheInv'
BY DEF CacheInv, Numbered, LatestTrue, Matching, matchVars, storeVars, cacheVars

(* A scope whose lists are the same is answered the same.                  *)
LEMMA SameLists ==
    ASSUME NEW s \in Scopes, NEW t \in Types, listed'[s] = listed[s]
    PROVE  Matching(s, t)' = Matching(s, t)
BY DEF Matching

LEMMA CacheConnect ==
    ASSUME CacheInv, NEW c \in Conns, AddConnection(c)
    PROVE  CacheInv'
<1> DEFINE s0 == Source[c]
<1>1. s0 \in Scopes
  OBVIOUS
<1>2. /\ version' = [version EXCEPT ![s0] = version[s0] + 1]
      /\ UNCHANGED cacheVars
  BY DEF AddConnection, Bumped
<1>3. DOMAIN listed' = DOMAIN listed /\ \A s \in Scopes : s # s0 => listed'[s] = listed[s]
  BY DEF AddConnection, CacheInv, Numbered
<1> HIDE DEF s0
<1>4. Numbered'
  BY <1>1, <1>2, <1>3 DEF CacheInv, Numbered, cacheVars
<1>5. ASSUME NEW s \in Scopes, NEW t \in Types
      PROVE  /\ (negVersion'[s] = version'[s] /\ t \in negative'[s]) => Matching(s, t)' = {}
             /\ remembered'[s][t].version = version'[s]
                  => remembered'[s][t].conns = Matching(s, t)'
  <2>1. CASE s = s0
    <3>1. negVersion[s] < version'[s] /\ remembered[s][t].version < version'[s]
      BY <1>2, <2>1 DEF CacheInv, Numbered
    <3> QED
      BY <1>2, <3>1 DEF CacheInv, Numbered, cacheVars
  <2>2. CASE s # s0
    <3>1. version'[s] = version[s] /\ Matching(s, t)' = Matching(s, t)
      BY <1>2, <1>3, <2>2, SameLists DEF CacheInv, Numbered
    <3> QED
      BY <1>2, <3>1 DEF CacheInv, LatestTrue, cacheVars
  <2> QED
    BY <2>1, <2>2
<1> QED
  BY <1>4, <1>5 DEF CacheInv, LatestTrue

(* Connections are removed and the answers of their sources forgotten,     *)
(* those of other scopes kept or forgotten.                                *)
LEMMA CacheRemove ==
    ASSUME CacheInv, NEW cs, RemoveConnections(cs),
           UNCHANGED negVersion,
           DOMAIN negative' = Scopes,
           \A s \in Scopes : negative'[s] \in {negative[s], {}},
           DOMAIN remembered' = Scopes,
           \A s \in Scopes :
             \/ remembered'[s] = [t \in Types |-> Nothing]
             \/ s \notin Touched(cs) /\ remembered'[s] = remembered[s]
    PROVE  CacheInv'
<1>1. version' = [s \in Scopes |-> IF s \in Touched(cs) THEN version[s] + 1 ELSE version[s]]
  BY DEF RemoveConnections, Bumped
<1>2. DOMAIN listed' = Scopes /\ \A s \in Scopes : s \notin Touched(cs) => listed'[s] = listed[s]
  BY DEF RemoveConnections
<1>3. Nothing.version = -1
  BY DEF Nothing
<1>4. \A s \in Scopes : /\ version'[s] \in Nat /\ version[s] <= version'[s]
                        /\ s \in Touched(cs) => version[s] < version'[s]
                        /\ s \notin Touched(cs) => version'[s] = version[s]
  BY <1>1 DEF CacheInv, Numbered
<1>5. ASSUME NEW s \in Scopes, NEW t \in Types
      PROVE  /\ remembered'[s][t].version \in Int
             /\ remembered'[s][t].version <= version'[s]
             /\ remembered'[s][t].version = version'[s]
                  => s \notin Touched(cs) /\ remembered'[s] = remembered[s]
  <2>1. CASE remembered'[s] = [u \in Types |-> Nothing]
    BY <1>3, <1>4, <2>1
  <2>2. CASE s \notin Touched(cs) /\ remembered'[s] = remembered[s]
    BY <1>4, <2>2 DEF CacheInv, Numbered
  <2> QED
    BY <2>1, <2>2
<1>6. \A s \in Scopes : DOMAIN remembered'[s] = Types
  BY DEF CacheInv, Numbered
<1>7. Numbered'
  <2>1. version' \in [Scopes -> Nat]
    BY <1>1, <1>4
  <2>2. \A s \in Scopes : negVersion'[s] <= version'[s]
    BY <1>4 DEF CacheInv, Numbered
  <2> QED
    BY <1>2, <1>5, <1>6, <2>1, <2>2 DEF CacheInv, Numbered
<1>8. ASSUME NEW s \in Scopes, NEW t \in Types
      PROVE  /\ (negVersion'[s] = version'[s] /\ t \in negative'[s]) => Matching(s, t)' = {}
             /\ remembered'[s][t].version = version'[s]
                  => remembered'[s][t].conns = Matching(s, t)'
  <2>1. CASE s \in Touched(cs)
    <3>1. negVersion'[s] < version'[s]
      BY <1>4, <2>1 DEF CacheInv, Numbered
    <3> QED
      BY <1>5, <2>1, <3>1, <1>4 DEF CacheInv, Numbered
  <2>2. CASE s \notin Touched(cs)
    <3>1. version'[s] = version[s] /\ Matching(s, t)' = Matching(s, t)
      BY <1>2, <1>4, <2>2, SameLists
    <3>2. negative'[s] \subseteq negative[s] /\ negVersion'[s] = negVersion[s]
      OBVIOUS
    <3>3. (negVersion'[s] = version'[s] /\ t \in negative'[s]) => Matching(s, t) = {}
      BY <3>1, <3>2 DEF CacheInv, LatestTrue
    <3>4. remembered'[s][t].version = version'[s]
            => remembered'[s][t].conns = Matching(s, t)
      BY <1>5, <3>1 DEF CacheInv, LatestTrue
    <3> QED
      BY <3>1, <3>3, <3>4
  <2> QED
    BY <2>1, <2>2
<1> QED
  BY <1>7, <1>8 DEF CacheInv, LatestTrue

LEMMA CacheLookUp ==
    ASSUME CacheInv, NEW s0 \in Scopes, NEW t0 \in Types,
           Remember(s0, t0), UNCHANGED <<storeVars, version>>
    PROVE  CacheInv'
<1> DEFINE entry == [version |-> version[s0], conns |-> Matching(s0, t0)]
<1>0. entry.version = version[s0] /\ entry.conns = Matching(s0, t0)
  OBVIOUS
<1>1. negVersion' = [negVersion EXCEPT ![s0] = version[s0]]
  BY DEF Remember
<1>2. DOMAIN negative' = Scopes /\ \A s \in Scopes : s # s0 => negative'[s] = negative[s]
  BY DEF Remember, CacheInv, Numbered
<1>3. \A t \in negative'[s0] : \/ NegHit(s0, t)
                               \/ t = t0 /\ Matching(s0, t0) = {}
  BY DEF Remember, Kept, NegHit, Fresh, CacheInv, Numbered
<1>4. /\ DOMAIN remembered' = Scopes
      /\ \A s \in Scopes : DOMAIN remembered'[s] = Types
      /\ \A s \in Scopes, t \in Types :
           \/ remembered'[s][t] = remembered[s][t]
           \/ s = s0 /\ t = t0 /\ remembered'[s][t] = entry
  BY DEF Remember, CacheInv, Numbered
<1> HIDE DEF entry
<1>5. version' = version /\ listed' = listed
  BY DEF storeVars
<1>6. \A s \in Scopes, t \in Types : Matching(s, t)' = Matching(s, t)
  BY <1>5, SameLists
<1>7. Numbered'
  <2>1. \A s \in Scopes : version[s] \in Nat /\ negVersion[s] <= version[s]
    BY DEF CacheInv, Numbered
  <2>2. negVersion' \in [Scopes -> Nat] /\ \A s \in Scopes : negVersion'[s] <= version'[s]
    BY <1>1, <1>5, <2>1 DEF CacheInv, Numbered
  <2>3. ASSUME NEW s \in Scopes, NEW t \in Types
        PROVE  remembered'[s][t].version \in Int /\ remembered'[s][t].version <= version'[s]
    <3>1. CASE remembered'[s][t] = remembered[s][t]
      BY <1>5, <3>1 DEF CacheInv, Numbered
    <3>2. CASE s = s0 /\ remembered'[s][t] = entry
      BY <1>0, <1>5, <2>1, <3>2
    <3> QED
      BY <1>4, <3>1, <3>2
  <2> QED
    BY <1>2, <1>4, <1>5, <2>2, <2>3 DEF CacheInv, Numbered
<1>8. ASSUME NEW s \in Scopes, NEW t \in Types
      PROVE  (negVersion'[s] = version'[s] /\ t \in negative'[s]) => Matching(s, t)' = {}
  <2>1. CASE s = s0
    <3>1. \A x \in Types : NegHit(s0, x) => Matching(s0, x) = {}
      BY DEF NegHit, Fresh, CacheInv, LatestTrue
    <3>2. t \in negative'[s0] => Matching(s0, t) = {}
      BY <1>3, <3>1
    <3> QED
      BY <1>6, <2>1, <3>2
  <2>2. CASE s # s0
    BY <1>1, <1>2, <1>5, <1>6, <2>2 DEF CacheInv, LatestTrue, Numbered
  <2> QED
    BY <2>1, <2>2
<1>9. ASSUME NEW s \in Scopes, NEW t \in Types
      PROVE  remembered'[s][t].version = version'[s]
               => remembered'[s][t].conns = Matching(s, t)'
  <2>1. CASE remembered'[s][t] = remembered[s][t]
    BY <1>5, <1>6, <2>1 DEF CacheInv, LatestTrue
  <2>2. CASE s = s0 /\ t = t0 /\ remembered'[s][t] = entry
    BY <1>0, <1>6, <2>2
  <2> QED
    BY <1>4, <2>1, <2>2
<1> QED
  BY <1>7, <1>8, <1>9 DEF CacheInv, LatestTrue

-----------------------------------------------------------------------------
LEMMA CacheStep == CacheInv /\ [Next]_vars => CacheInv'
<1> SUFFICES ASSUME CacheInv, [Next]_vars PROVE CacheInv'
  OBVIOUS
<1>1. ASSUME NEW c \in Conns, Connect(c) PROVE CacheInv'
  BY <1>1, CacheConnect DEF Connect
<1>2. ASSUME NEW c \in Conns, Disconnect(c) PROVE CacheInv'
  <2>1. RemoveConnections({c}) /\ remembered' = Forgotten({c}) /\ UNCHANGED <<negVersion, negative>>
    BY <1>2 DEF Disconnect
  <2> QED
    BY <2>1, CacheRemove DEF Forgotten, CacheInv, Numbered
<1>3. ASSUME NEW s \in Scopes, NEW e \in Events, Emit(s, e) PROVE CacheInv'
  <2>1. TypeOf[e] \in Types
    BY EmitAssumption
  <2> QED
    BY <1>3, <2>1, CacheLookUp DEF Emit
<1>4. ASSUME NEW s \in Scopes, FinishClose(s) PROVE CacheInv'
  <2> DEFINE L == LinkedTo(s)
  <2>1. /\ RemoveConnections(L)
        /\ remembered' = [Forgotten(L) EXCEPT ![s] = [t \in Types |-> Nothing]]
        /\ negative' = [negative EXCEPT ![s] = {}]
        /\ UNCHANGED negVersion
    BY <1>4 DEF FinishClose
  <2> HIDE DEF L
  <2>2. DOMAIN remembered' = Scopes
    BY <2>1 DEF Forgotten
  <2>3. \A x \in Scopes : \/ remembered'[x] = [t \in Types |-> Nothing]
                          \/ x \notin Touched(L) /\ remembered'[x] = remembered[x]
    BY <2>1 DEF Forgotten
  <2>4. DOMAIN negative' = Scopes /\ \A x \in Scopes : negative'[x] \in {negative[x], {}}
    BY <2>1 DEF CacheInv, Numbered
  <2> QED
    BY <2>1, <2>2, <2>3, <2>4, CacheRemove
<1>5. ASSUME UNCHANGED matchVars PROVE CacheInv'
  BY <1>5, CacheStutter
<1>6. CASE UNCHANGED vars
  BY <1>5, <1>6 DEF vars
<1>7. CASE User
  <2>1. ASSUME NEW e \in Events, Consume(e) \/ CancelExecution(e) PROVE CacheInv'
    BY <1>5, <2>1 DEF Consume, CancelExecution
  <2> QED
    BY <1>1, <1>2, <1>3, <1>7, <2>1 DEF User
<1>8. CASE CallDirect \/ DirectReturns \/ Enqueue \/ Leave \/ Back
  BY <1>5, <1>8 DEF CallDirect, DirectReturns, Enqueue, Leave, Back
<1>9. CASE Loops
  BY <1>5, <1>9 DEF Loops, LoopStarts, LoopSettles
<1>10. CASE Close
  <2>1. ASSUME NEW s \in Scopes, BeginClose(s) PROVE CacheInv'
    BY <1>5, <2>1 DEF BeginClose
  <2> QED
    BY <1>4, <1>10, <2>1 DEF Close
<1> QED
  BY <1>6, <1>7, <1>8, <1>9, <1>10 DEF Next

LEMMA CacheInvCorrect == Spec => []CacheInv
BY CacheInit, CacheStep, PTL DEF Spec

(* Whatever is connected, disconnected, closed and looked up, in any order *)
(* and also from inside a dispatch, a look-up that is answered by a cache  *)
(* finds the connections that the storage has (scope.py:377-419).          *)
THEOREM CacheCorrect == Spec => []CacheCurrent
<1>1. CacheInv => CacheCurrent
  BY DEF CacheInv, LatestTrue, CacheCurrent, LookUp, NegHit, PosHit, Fresh
<1> QED
  BY <1>1, CacheInvCorrect, PTL

-----------------------------------------------------------------------------
(***************************************************************************)
(* Links: the lists of a scope and its incoming connections name exactly   *)
(* the active connections that start and end there, and a scope that has   *)
(* finished closing has none.                                              *)
(***************************************************************************)
LinkInv ==
    /\ \A s \in Scopes, k \in Keys, c \in Conns :
         c \in listed[s][k] <=> c \in active /\ Source[c] = s /\ ListensTo[c] = k
    /\ \A s \in Scopes, c \in Conns : c \in incoming[s] <=> c \in active /\ Target[c] = s
    /\ \A s \in finished, c \in active : Source[c] # s /\ Target[c] # s

(***************************************************************************)
(* Dispatch loops.  A loop names each of its receivers once; those it has  *)
(* not come past are ahead of it, and it holds them until it ends.         *)
(***************************************************************************)
Receivers(f) == {f.conns[i] : i \in DOMAIN f.conns}
Ahead(f)     == {f.conns[i] : i \in f.done + 1 .. Len(f.conns)}
Working(f)   == f.at \notin {"returned", "raised"}
Holds(f, c)  == Working(f) /\ c \in Ahead(f)

Open == {"pending", "queued", "running"}

(* All the loops but the innermost are inside a DIRECT receiver, and one   *)
(* that has returned had nothing to raise.                                 *)
FrameOK(f) ==
    /\ \A i, j \in DOMAIN f.conns : f.conns[i] = f.conns[j] => i = j
    /\ f.done <= Len(f.conns)
    /\ f.at = "calling" => f.done < Len(f.conns) /\ f.conns[f.done + 1] \in Direct
    /\ f.at = "returned" => ~Raises(f)

FrameInv ==
    \A i \in DOMAIN stack : FrameOK(stack[i]) /\ (i # Len(stack) => stack[i].at = "calling")

(* What a loop has selected has a record, no two loops of an event share a *)
(* receiver, and a loop knows when one of its deliveries was refused.      *)
RecordInv ==
    /\ \A i \in DOMAIN stack : \A c \in Receivers(stack[i]) :
         /\ record[stack[i].ev][c] # "none"
         /\ record[stack[i].ev][c] = "rejected" => stack[i].rejected
    /\ \A i, j \in DOMAIN stack :
         stack[i].ev = stack[j].ev /\ i # j
           => Receivers(stack[i]) \cap Receivers(stack[j]) = {}

(* A delivery a loop holds is open and in no event loop; one that is not   *)
(* DIRECT has not begun.                                                   *)
HeldInv ==
    \A i \in DOMAIN stack, c \in Conns :
      Holds(stack[i], c) =>
        /\ record[stack[i].ev][c] \in Open /\ c \notin inLoop[stack[i].ev]
        /\ c \notin Direct => record[stack[i].ev][c] = "queued"

(* What an event loop has is open; what is open is held by either.         *)
OpenInv ==
    \A e \in Events, c \in Conns :
      /\ c \in inLoop[e] => record[e][c] \in {"queued", "running"}
      /\ record[e][c] \in Open
           => c \in inLoop[e] \/ \E i \in DOMAIN stack : stack[i].ev = e /\ Holds(stack[i], c)

DispatchInv == FrameInv /\ RecordInv /\ HeldInv /\ OpenInv

-----------------------------------------------------------------------------
(* Types                                                                   *)

LEMMA MatchingType ==
    ASSUME MatchTypeOK, NEW s \in Scopes, NEW t \in Types
    PROVE  Matching(s, t) \subseteq Conns /\ Answer(s, t) \subseteq Conns
<1>1. \A k \in Keys : listed[s][k] \subseteq Conns
  BY DEF MatchTypeOK
<1>2. \A i \in DOMAIN MRO[t] : MRO[t][i] \in Keys
  <2>1. MRO[t] \in Seq(Types)
    OBVIOUS
  <2> QED
    BY <2>1 DEF Keys
<1>3. CatchAll \in Keys
  BY DEF Keys
<1>4. Matching(s, t) \subseteq Conns
  <2> DEFINE typed == UNION {listed[s][MRO[t][i]] : i \in DOMAIN MRO[t]}
  <2>1. \A i \in DOMAIN MRO[t] : listed[s][MRO[t][i]] \subseteq Conns
    BY <1>1, <1>2
  <2>2. typed \subseteq Conns
    BY <2>1
  <2>3. listed[s][CatchAll] \subseteq Conns
    BY <1>1, <1>3
  <2>4. Matching(s, t) = listed[s][CatchAll] \cup typed
    BY Zenon DEF Matching, Matches
  <2> HIDE DEF typed
  <2> QED
    BY <2>2, <2>3, <2>4
<1>5. active \subseteq Conns
  BY DEF MatchTypeOK
<1> QED
  BY <1>4, <1>5 DEF Answer

(* A receiver order names every receiver once.                             *)
LEMMA ArrangedOnce ==
    ASSUME NEW t, NEW S \in SUBSET Conns, NEW q \in Arranged(t, S)
    PROVE  /\ q \in Seq(Conns)
           /\ \A i, j \in DOMAIN q : q[i] = q[j] => i = j
           /\ {q[i] : i \in DOMAIN q} = S
<1> DEFINE n == Cardinality(S)
<1>1. IsFiniteSet(S) /\ n \in Nat
  BY FS_Subset, FS_CardinalityType
<1>2. q \in [1..n -> S] /\ \A i, j \in 1..n : i # j => q[i] # q[j]
  BY DEF Arranged, SetToSeqs
<1>3. IsFiniteSet(1..n) /\ Cardinality(1..n) = n
  BY <1>1, FS_Interval
<1>4. q \in Injection(1..n, S)
  BY <1>2 DEF Injection, IsInjective
<1>5. q \in Surjection(1..n, S)
  BY <1>1, <1>3, <1>4, FS_Injection
<1> HIDE DEF n
<1>6. \A c \in S : \E i \in 1..n : q[i] = c
  BY <1>5 DEF Surjection
<1>7. DOMAIN q = 1..n /\ q \in Seq(Conns)
  BY <1>1, <1>2
<1> QED
  BY <1>2, <1>6, <1>7

LEMMA MatchTypeConnect ==
    ASSUME MatchTypeOK, NEW c \in Conns, AddConnection(c)
    PROVE  MatchTypeOK'
<1>1. Source[c] \in Scopes /\ ListensTo[c] \in Keys
  BY DEF Keys
<1>2. created' \subseteq Conns /\ active' \subseteq created'
  BY DEF MatchTypeOK, AddConnection
<1>3. listed' \in [Scopes -> [Keys -> SUBSET Conns]]
  BY <1>1 DEF MatchTypeOK, AddConnection
<1>4. incoming' \in [Scopes -> SUBSET Conns]
  BY DEF MatchTypeOK, AddConnection, Targeting
<1>5. version' \in [Scopes -> Nat]
  BY <1>1 DEF MatchTypeOK, AddConnection, Bumped
<1> QED
  BY <1>2, <1>3, <1>4, <1>5 DEF MatchTypeOK, AddConnection, cacheVars

LEMMA MatchTypeRemove ==
    ASSUME MatchTypeOK, NEW cs, RemoveConnections(cs)
    PROVE  /\ created' \subseteq Conns /\ active' \subseteq created'
           /\ listed' \in [Scopes -> [Keys -> SUBSET Conns]]
           /\ incoming' \in [Scopes -> SUBSET Conns]
           /\ version' \in [Scopes -> Nat]
           /\ Forgotten(cs) \in [Scopes -> [Types -> [version : Nat \cup {-1}, conns : SUBSET Conns]]]
<1>1. created' \subseteq Conns /\ active' \subseteq created'
  BY DEF MatchTypeOK, RemoveConnections
<1>2. listed' \in [Scopes -> [Keys -> SUBSET Conns]]
  <2>1. \A s \in Scopes : listed[s] \in [Keys -> SUBSET Conns]
    BY DEF MatchTypeOK
  <2>2. \A s \in Scopes : [k \in Keys |-> listed[s][k] \ cs] \in [Keys -> SUBSET Conns]
    BY <2>1
  <2> QED
    BY <2>1, <2>2 DEF RemoveConnections
<1>3. incoming' \in [Scopes -> SUBSET Conns]
  BY DEF MatchTypeOK, RemoveConnections
<1>4. version' \in [Scopes -> Nat]
  BY DEF MatchTypeOK, RemoveConnections, Bumped
<1>5. Nothing \in [version : Nat \cup {-1}, conns : SUBSET Conns]
  BY DEF Nothing
<1>6. Forgotten(cs) \in [Scopes -> [Types -> [version : Nat \cup {-1}, conns : SUBSET Conns]]]
  <2> DEFINE Entries == [version : Nat \cup {-1}, conns : SUBSET Conns]
  <2>1. Nothing \in Entries /\ \A s \in Scopes : remembered[s] \in [Types -> Entries]
    BY <1>5 DEF MatchTypeOK
  <2> HIDE DEF Entries
  <2>2. Forgotten(cs) \in [Scopes -> [Types -> Entries]]
    BY <2>1 DEF Forgotten
  <2> QED
    BY <2>2 DEF Entries
<1> QED
  BY <1>1, <1>2, <1>3, <1>4, <1>6

LEMMA MatchTypeLookUp ==
    ASSUME MatchTypeOK, NEW s0 \in Scopes, NEW t0 \in Types,
           Remember(s0, t0), UNCHANGED <<storeVars, version>>
    PROVE  MatchTypeOK'
<1> DEFINE Entries == [version : Nat \cup {-1}, conns : SUBSET Conns]
           entry == [version |-> version[s0], conns |-> Matching(s0, t0)]
<1>1. entry \in Entries
  BY MatchingType DEF MatchTypeOK
<1>2. remembered \in [Scopes -> [Types -> Entries]]
  BY DEF MatchTypeOK
<1>3. remembered' = [remembered EXCEPT ![s0][t0] = entry] \/ remembered' = remembered
  BY DEF Remember
<1> HIDE DEF Entries, entry
<1>4. remembered' \in [Scopes -> [Types -> Entries]]
  <2>1. CASE remembered' = [remembered EXCEPT ![s0][t0] = entry]
    <3>1. [remembered[s0] EXCEPT ![t0] = entry] \in [Types -> Entries]
      BY <1>1, <1>2
    <3>2. remembered' = [remembered EXCEPT ![s0] = [remembered[s0] EXCEPT ![t0] = entry]]
      BY <2>1
    <3> QED
      BY <1>2, <3>1, <3>2
  <2> QED
    BY <1>2, <1>3, <2>1
<1>5. negVersion' \in [Scopes -> Nat] /\ negative' \in [Scopes -> SUBSET Types]
  BY DEF MatchTypeOK, Remember, Kept
<1> QED
  BY <1>4, <1>5 DEF MatchTypeOK, storeVars, Entries

-----------------------------------------------------------------------------
(* Links                                                                   *)

LEMMA LinkConnect ==
    ASSUME MatchTypeOK, LinkInv, finished \subseteq stopped,
           stopped \subseteq Scopes,
           NEW c \in Conns, c \notin created, OpenEnds(c), AddConnection(c),
           UNCHANGED finished
    PROVE  LinkInv'
<1>1. Source[c] \in Scopes /\ ListensTo[c] \in Keys /\ Target[c] \in Scopes \cup {NoScope}
  BY DEF Keys
<1>2. active' = active \cup {c} /\ c \notin active
  BY DEF AddConnection, MatchTypeOK
<1>3. ASSUME NEW s \in Scopes, NEW k \in Keys, NEW d \in Conns
      PROVE  d \in listed'[s][k] <=> d \in active' /\ Source[d] = s /\ ListensTo[d] = k
  <2>1. listed'[s][k] = IF s = Source[c] /\ k = ListensTo[c]
                        THEN listed[s][k] \cup {c} ELSE listed[s][k]
    BY <1>1 DEF AddConnection, MatchTypeOK
  <2> QED
    BY <1>2, <2>1 DEF LinkInv
<1>4. ASSUME NEW s \in Scopes, NEW d \in Conns
      PROVE  d \in incoming'[s] <=> d \in active' /\ Target[d] = s
  <2>1. incoming'[s] = IF s = Target[c] THEN incoming[s] \cup {c} ELSE incoming[s]
    BY <1>1 DEF AddConnection, MatchTypeOK, Targeting
  <2> QED
    BY <1>2, <2>1 DEF LinkInv
<1>5. ASSUME NEW s \in finished', NEW d \in active' PROVE Source[d] # s /\ Target[d] # s
  <2>1. s \in finished /\ s \in stopped
    OBVIOUS
  <2>2. CASE d = c
    <3>1. Target[c] = s => Targeting(c)
      BY <1>1, <2>1, <2>2 DEF OpenEnds, Targeting
    <3> QED
      BY <2>1, <2>2, <3>1 DEF OpenEnds
  <2>3. CASE d # c
    BY <1>2, <2>1, <2>3 DEF LinkInv
  <2> QED
    BY <2>2, <2>3
<1> QED
  BY <1>3, <1>4, <1>5 DEF LinkInv

LEMMA LinkRemove ==
    ASSUME MatchTypeOK, LinkInv, NEW cs, RemoveConnections(cs)
    PROVE  /\ \A s \in Scopes, k \in Keys, c \in Conns :
                c \in listed'[s][k] <=> c \in active' /\ Source[c] = s /\ ListensTo[c] = k
           /\ \A s \in Scopes, c \in Conns :
                c \in incoming'[s] <=> c \in active' /\ Target[c] = s
<1>1. active' = active \ cs
  BY DEF RemoveConnections
<1>2. ASSUME NEW s \in Scopes, NEW k \in Keys, NEW c \in Conns
      PROVE  c \in listed'[s][k] <=> c \in active' /\ Source[c] = s /\ ListensTo[c] = k
  <2>1. listed'[s][k] = IF s \in Touched(cs) THEN listed[s][k] \ cs ELSE listed[s][k]
    BY DEF RemoveConnections
  <2>2. c \in listed[s][k] /\ c \in cs => s \in Touched(cs)
    BY DEF LinkInv, Touched
  <2> QED
    BY <1>1, <2>1, <2>2 DEF LinkInv
<1>3. ASSUME NEW s \in Scopes, NEW c \in Conns
      PROVE  c \in incoming'[s] <=> c \in active' /\ Target[c] = s
  BY <1>1 DEF RemoveConnections, LinkInv
<1> QED
  BY <1>2, <1>3

LEMMA LinkFinish ==
    ASSUME MatchTypeOK, LinkInv, NEW s0 \in Scopes, RemoveConnections(LinkedTo(s0)),
           finished \subseteq Scopes, finished' = finished \cup {s0}
    PROVE  LinkInv'
<1>1. active' = active \ LinkedTo(s0)
  BY DEF RemoveConnections
<1>2. ASSUME NEW s \in finished', NEW c \in active' PROVE Source[c] # s /\ Target[c] # s
  <2>1. c \in Conns /\ c \in active /\ ListensTo[c] \in Keys
    BY <1>1 DEF MatchTypeOK, Keys
  <2>2. CASE s = s0
    <3>1. c \notin LinkedTo(s0)
      BY <1>1
    <3>2. c \notin listed[s0][ListensTo[c]] /\ c \notin incoming[s0]
      <4> DEFINE all == UNION {listed[s0][k] : k \in Keys}
      <4>1. LinkedTo(s0) = incoming[s0] \cup all
        BY Zenon DEF LinkedTo
      <4>2. listed[s0][ListensTo[c]] \subseteq all
        BY <2>1
      <4> HIDE DEF all
      <4> QED
        BY <3>1, <4>1, <4>2
    <3> QED
      BY <2>1, <2>2, <3>2 DEF LinkInv
  <2>3. CASE s \in finished
    BY <2>1, <2>3 DEF LinkInv
  <2> QED
    BY <2>2, <2>3
<1> QED
  BY <1>2, LinkRemove DEF LinkInv

-----------------------------------------------------------------------------
(* Dispatch loops                                                          *)

LEMMA TopTyped ==
    ASSUME TypeOK, ~Idle
    PROVE  /\ Len(stack) \in Nat /\ Len(stack) \in DOMAIN stack
           /\ DOMAIN stack = 1 .. Len(stack)
           /\ Top \in Frames /\ Top = stack[Len(stack)]
BY DEF TypeOK, Idle, Top

LEMMA TopReplaced ==
    ASSUME TypeOK, ~Idle, NEW g \in Frames, SetTop(g)
    PROVE  /\ stack' \in Seq(Frames) /\ Len(stack') = Len(stack)
           /\ DOMAIN stack' = DOMAIN stack
           /\ \A i \in DOMAIN stack : stack'[i] = IF i = Len(stack) THEN g ELSE stack[i]
<1>1. stack \in Seq(Frames) /\ Len(stack) \in DOMAIN stack
  BY TopTyped DEF TypeOK
<1> QED
  BY <1>1 DEF SetTop

(* Who goes one receiver further leaves exactly that one behind.           *)
LEMMA OneFurther ==
    ASSUME NEW f \in Frames, NEW g \in Frames, FrameOK(f), f.done < Len(f.conns),
           g.conns = f.conns, g.done = f.done + 1
    PROVE  /\ f.conns[f.done + 1] \in Ahead(f) /\ f.conns[f.done + 1] \in Conns
           /\ Ahead(g) = Ahead(f) \ {f.conns[f.done + 1]}
<1> DEFINE n == Len(f.conns)  d == f.done  c == f.conns[d + 1]
<1>1. f.conns \in Seq(Conns) /\ d \in Nat /\ n \in Nat /\ DOMAIN f.conns = 1..n /\ d < n
  BY DEF Frames
<1>2. \A i, j \in 1..n : f.conns[i] = f.conns[j] => i = j
  BY <1>1 DEF FrameOK
<1>3. Ahead(f) = {f.conns[i] : i \in d + 1 .. n} /\ Ahead(g) = {f.conns[i] : i \in d + 2 .. n}
  <2>1. g.done + 1 = d + 2
    BY <1>1
  <2> QED
    BY <2>1 DEF Ahead
<1> HIDE DEF n, d
<1>4. d + 1 \in d + 1 .. n /\ d + 1 \in 1..n
  BY <1>1
<1>5. \A i \in d + 1 .. n : i \in 1..n /\ (i # d + 1 => i \in d + 2 .. n)
  BY <1>1
<1>6. \A i \in d + 2 .. n : i \in d + 1 .. n /\ i # d + 1
  BY <1>1
<1>7. c \in Ahead(f) /\ c \in Conns
  BY <1>1, <1>3, <1>4
<1>8. Ahead(g) \subseteq Ahead(f) \ {c}
  BY <1>2, <1>3, <1>4, <1>5, <1>6
<1>9. Ahead(f) \ {c} \subseteq Ahead(g)
  BY <1>3, <1>5
<1> QED
  BY <1>7, <1>8, <1>9 DEF d

LEMMA AheadIsReceived ==
    ASSUME NEW f \in Frames
    PROVE  Ahead(f) \subseteq Receivers(f) /\ Receivers(f) \subseteq Conns
<1>1. f.conns \in Seq(Conns) /\ f.done \in Nat
  BY DEF Frames
<1>2. \A i \in f.done + 1 .. Len(f.conns) : i \in DOMAIN f.conns
  BY <1>1
<1>3. \A i \in DOMAIN f.conns : f.conns[i] \in Conns
  BY <1>1
<1> QED
  BY <1>2, <1>3 DEF Ahead, Receivers

(***************************************************************************)
(* A step of the innermost loop.  It turns the loop's frame from Top to g  *)
(* and touches only deliveries that Top holds; what it has to show is what *)
(* it does to each of those.                                               *)
(***************************************************************************)
Settles(g, c) ==
    LET now == record'[g.ev][c]
    IN /\ now # "none"
       /\ now = "rejected" => g.rejected
       /\ c \in inLoop'[g.ev] => now \in {"queued", "running"}
       /\ Holds(g, c) => /\ now \in Open /\ c \notin inLoop'[g.ev]
                         /\ c \notin Direct => now = "queued"
       /\ now \in Open => c \in inLoop'[g.ev] \/ Holds(g, c)

LEMMA TopStep ==
    ASSUME TypeOK, DispatchInv, ~Idle, Working(Top),
           NEW g \in Frames, SetTop(g), FrameOK(g),
           g.ev = Top.ev, g.conns = Top.conns, Ahead(g) \subseteq Ahead(Top),
           Top.rejected => g.rejected,
           \A e \in Events, c \in Conns :
             e # Top.ev \/ c \notin Ahead(Top)
               => record'[e][c] = record[e][c] /\ (c \in inLoop'[e] <=> c \in inLoop[e]),
           \A c \in Ahead(Top) : Settles(g, c)
    PROVE  DispatchInv'
<1> DEFINE n == Len(stack)
<1>1. n \in DOMAIN stack /\ stack[n] = Top /\ Top \in Frames /\ Top.ev \in Events
  BY TopTyped DEF Frames
<1>2. /\ Len(stack') = n /\ DOMAIN stack' = DOMAIN stack
      /\ stack'[n] = g
      /\ \A i \in DOMAIN stack : i # n => stack'[i] = stack[i]
  BY <1>1, TopReplaced
<1>3. \A i \in DOMAIN stack : stack[i] \in Frames /\ stack[i].ev \in Events
  <2>1. \A i \in DOMAIN stack : stack[i] \in Frames
    BY DEF TypeOK
  <2>2. \A f \in Frames : f.ev \in Events
    BY DEF Frames
  <2> QED
    BY <2>1, <2>2
<1> HIDE DEF n
<1>4. Receivers(g) = Receivers(Top) /\ Receivers(Top) \subseteq Conns /\ Ahead(Top) \subseteq Receivers(Top)
  BY <1>1, AheadIsReceived DEF Receivers
<1>5. \A i \in DOMAIN stack : Receivers(stack[i]) \subseteq Conns /\ Ahead(stack[i]) \subseteq Receivers(stack[i])
  BY <1>3, AheadIsReceived
(* The frames of other loops and their deliveries are as they were.        *)
<1>6. ASSUME NEW i \in DOMAIN stack, i # n, NEW c \in Receivers(stack[i])
      PROVE  /\ record'[stack[i].ev][c] = record[stack[i].ev][c]
             /\ c \in inLoop'[stack[i].ev] <=> c \in inLoop[stack[i].ev]
  <2>1. stack[i].ev # Top.ev \/ c \notin Ahead(Top)
    BY <1>1, <1>4, <1>6 DEF DispatchInv, RecordInv
  <2> QED
    BY <1>3, <1>5, <2>1
<1>7. FrameInv'
  BY <1>1, <1>2 DEF DispatchInv, FrameInv
<1>8. RecordInv'
  <2>1. ASSUME NEW i \in DOMAIN stack, NEW c \in Receivers(stack'[i])
        PROVE  /\ record'[stack'[i].ev][c] # "none"
               /\ record'[stack'[i].ev][c] = "rejected" => stack'[i].rejected
    <3>1. CASE i = n /\ c \in Ahead(Top)
      BY <1>2, <3>1 DEF Settles
    <3>2. CASE i = n /\ c \notin Ahead(Top)
      <4>1. c \in Receivers(Top) /\ c \in Conns
        BY <1>2, <1>4, <2>1, <3>2
      <4>2. record'[Top.ev][c] = record[Top.ev][c]
        BY <1>1, <3>2, <4>1
      <4> QED
        BY <1>1, <1>2, <3>2, <4>1, <4>2 DEF DispatchInv, RecordInv
    <3>3. CASE i # n
      <4>1. stack'[i] = stack[i] /\ c \in Receivers(stack[i])
        BY <1>2, <2>1, <3>3
      <4>2. record'[stack[i].ev][c] = record[stack[i].ev][c]
        BY <1>6, <3>3, <4>1
      <4> QED
        BY <4>1, <4>2 DEF DispatchInv, RecordInv
    <3> QED
      BY <3>1, <3>2, <3>3
  <2>2. \A i \in DOMAIN stack :
          stack'[i].ev = stack[i].ev /\ Receivers(stack'[i]) = Receivers(stack[i])
    BY <1>1, <1>2, <1>4
  <2>3. ASSUME NEW i \in DOMAIN stack, NEW j \in DOMAIN stack,
               stack'[i].ev = stack'[j].ev, i # j
        PROVE  Receivers(stack'[i]) \cap Receivers(stack'[j]) = {}
    BY <2>2, <2>3 DEF DispatchInv, RecordInv
  <2> QED
    BY <1>2, <2>1, <2>3 DEF RecordInv
<1>9. HeldInv'
  <2>1. ASSUME NEW i \in DOMAIN stack, NEW c \in Conns, Holds(stack'[i], c)
        PROVE  /\ record'[stack'[i].ev][c] \in Open /\ c \notin inLoop'[stack'[i].ev]
               /\ c \notin Direct => record'[stack'[i].ev][c] = "queued"
    <3>1. CASE i = n
      <4>1. Holds(g, c) /\ c \in Ahead(Top)
        BY <1>2, <2>1, <3>1 DEF Holds
      <4> QED
        BY <1>2, <3>1, <4>1 DEF Settles
    <3>2. CASE i # n
      <4>1. Holds(stack[i], c) /\ c \in Receivers(stack[i]) /\ stack'[i] = stack[i]
        BY <1>2, <1>5, <2>1, <3>2 DEF Holds
      <4> QED
        BY <1>6, <3>2, <4>1 DEF DispatchInv, HeldInv
    <3> QED
      BY <3>1, <3>2
  <2> QED
    BY <1>2, <2>1 DEF HeldInv
<1>10. OpenInv'
  <2>1. ASSUME NEW e \in Events, NEW c \in Conns, e = Top.ev, c \in Ahead(Top)
        PROVE  /\ c \in inLoop'[e] => record'[e][c] \in {"queued", "running"}
               /\ record'[e][c] \in Open
                    => c \in inLoop'[e] \/ \E i \in DOMAIN stack : stack'[i].ev = e /\ Holds(stack'[i], c)
    BY <1>1, <1>2, <2>1 DEF Settles
  <2>2. ASSUME NEW e \in Events, NEW c \in Conns, e # Top.ev \/ c \notin Ahead(Top)
        PROVE  /\ c \in inLoop'[e] => record'[e][c] \in {"queued", "running"}
               /\ record'[e][c] \in Open
                    => c \in inLoop'[e] \/ \E i \in DOMAIN stack : stack'[i].ev = e /\ Holds(stack'[i], c)
    <3>1. record'[e][c] = record[e][c] /\ (c \in inLoop'[e] <=> c \in inLoop[e])
      BY <2>2
    <3>2. ASSUME NEW i \in DOMAIN stack, stack[i].ev = e, Holds(stack[i], c)
          PROVE  stack'[i].ev = e /\ Holds(stack'[i], c)
      <4>1. i # n
        BY <1>1, <2>2, <3>2 DEF Holds
      <4> QED
        BY <1>2, <3>2, <4>1
    <3>3. record[e][c] \in Open
            => c \in inLoop[e] \/ \E i \in DOMAIN stack : stack[i].ev = e /\ Holds(stack[i], c)
      BY DEF DispatchInv, OpenInv
    <3>4. c \in inLoop[e] => record[e][c] \in {"queued", "running"}
      BY DEF DispatchInv, OpenInv
    <3> QED
      BY <3>1, <3>2, <3>3, <3>4
  <2> QED
    BY <1>2, <2>1, <2>2 DEF OpenInv
<1> QED
  BY <1>7, <1>8, <1>9, <1>10 DEF DispatchInv

-----------------------------------------------------------------------------
(* The actions of the loop                                                 *)

LEMMA CurrentHeld ==
    ASSUME TypeOK, FrameInv, ~Idle, Top.done < Len(Top.conns)
    PROVE  /\ Top \in Frames /\ FrameOK(Top)
           /\ Current \in Ahead(Top) /\ Current \in Conns /\ Top.ev \in Events
<1>1. Top \in Frames /\ Len(stack) \in DOMAIN stack /\ Top = stack[Len(stack)]
  BY TopTyped
<1>2. FrameOK(Top)
  BY <1>1 DEF FrameInv
<1>3. Ahead(Top) \subseteq Conns
  BY <1>1, AheadIsReceived
<1>4. /\ Top.conns \in Seq(Conns) /\ Top.done \in Nat /\ Top.ev \in Events
      /\ Top.done + 1 \in Top.done + 1 .. Len(Top.conns)
  BY <1>1 DEF Frames
<1>5. Current \in Ahead(Top)
  BY <1>4 DEF Current, Ahead
<1> QED
  BY <1>1, <1>2, <1>3, <1>4, <1>5

LEMMA DispatchCall ==
    ASSUME TypeOK, DispatchInv, CallDirect
    PROVE  TypeOK' /\ DispatchInv'
<1> DEFINE g == [Top EXCEPT !.at = "calling"]
<1>1. ~Idle /\ Top.at = "loop" /\ Top.done < Len(Top.conns) /\ Current \in Direct
  BY DEF CallDirect, Dispatching
<1>2. /\ Top \in Frames /\ FrameOK(Top) /\ Top.ev \in Events
      /\ Current \in Ahead(Top) /\ Current \in Conns
  BY <1>1, CurrentHeld DEF DispatchInv
<1>3. /\ g \in Frames /\ g.ev = Top.ev /\ g.conns = Top.conns /\ g.done = Top.done
      /\ g.at = "calling" /\ g.rejected = Top.rejected
  BY <1>2 DEF Frames
<1>4. SetTop(g) /\ inLoop' = inLoop /\ record' = [record EXCEPT ![Top.ev][Current] = "running"]
  BY DEF CallDirect
<1> HIDE DEF g
<1>5. FrameOK(g)
  BY <1>1, <1>2, <1>3 DEF FrameOK, Current
<1>6. Ahead(g) = Ahead(Top)
  BY <1>3 DEF Ahead
<1>7. \A e \in Events, c \in Conns :
        record'[e][c] = IF e = Top.ev /\ c = Current THEN "running" ELSE record[e][c]
  BY <1>2, <1>4 DEF TypeOK
<1>8. ASSUME NEW c \in Ahead(Top) PROVE Settles(g, c)
  <2>1. c \in Conns /\ Len(stack) \in DOMAIN stack /\ Top = stack[Len(stack)]
    BY <1>1, <1>2, AheadIsReceived, TopTyped
  <2>2. Holds(stack[Len(stack)], c) /\ Holds(g, c)
    BY <1>1, <1>3, <1>6, <2>1 DEF Holds, Working
  <2>3. /\ record[Top.ev][c] \in Open /\ c \notin inLoop[Top.ev]
        /\ c \notin Direct => record[Top.ev][c] = "queued"
    BY <2>1, <2>2 DEF DispatchInv, HeldInv
  <2>4. CASE c = Current
    <3>1. record'[g.ev][c] = "running" /\ c \in Direct /\ c \notin inLoop'[g.ev]
      BY <1>1, <1>2, <1>3, <1>4, <1>7, <2>3, <2>4
    <3> QED
      BY <2>2, <3>1 DEF Settles, Open
  <2>5. CASE c # Current
    <3>1. record'[g.ev][c] = record[Top.ev][c] /\ c \notin inLoop'[g.ev]
      BY <1>2, <1>3, <1>4, <1>7, <2>1, <2>3, <2>5
    <3> QED
      BY <2>2, <2>3, <3>1 DEF Settles, Open
  <2> QED
    BY <2>4, <2>5
<1>9. DispatchInv'
  <2>1. \A e \in Events, c \in Conns :
          e # Top.ev \/ c \notin Ahead(Top)
            => record'[e][c] = record[e][c] /\ (c \in inLoop'[e] <=> c \in inLoop[e])
    BY <1>2, <1>4, <1>7
  <2>2. Working(Top)
    BY <1>1 DEF Working
  <2> QED
    BY <1>1, <1>3, <1>4, <1>5, <1>6, <1>8, <2>1, <2>2, TopStep
<1>10. TypeOK'
  <2>1. stack' \in Seq(Frames) /\ Len(stack') = Len(stack)
    BY <1>1, <1>3, <1>4, TopReplaced
  <2>2. record' \in [Events -> [Conns -> Statuses]]
    BY <1>4 DEF TypeOK, Statuses
  <2>3. UNCHANGED <<matchVars, runVars, inLoop, consumed>>
    BY DEF CallDirect
  <2>4. MatchTypeOK'
    BY <2>3 DEF TypeOK, MatchTypeOK, matchVars, storeVars, cacheVars
  <2> QED
    BY <2>1, <2>2, <2>3, <2>4 DEF TypeOK, runVars
<1> QED
  BY <1>9, <1>10

(* The frame after a dispatch.                                             *)
LEMMA OnwardFrame ==
    ASSUME NEW f \in Frames, FrameOK(f), f.at # "returned", f.done < Len(f.conns), NEW g,
           \/ g = Onward(f)
           \/ g = [f EXCEPT !.done = @ + 1, !.at = "leaving", !.raised = TRUE]
    PROVE  /\ g \in Frames /\ FrameOK(g) /\ Working(g)
           /\ g.ev = f.ev /\ g.conns = f.conns /\ g.rejected = f.rejected
           /\ g.done = f.done + 1
<1>0. f.done + 1 \in Nat
  BY DEF Frames
<1>1. /\ g \in Frames /\ g.ev = f.ev /\ g.conns = f.conns /\ g.rejected = f.rejected
      /\ g.done = f.done + 1 /\ g.at \in {"loop", "leaving"}
  <2>1. \E at \in {"loop", "leaving"}, raised \in BOOLEAN :
          g = [f EXCEPT !.done = f.done + 1, !.at = at, !.raised = raised]
    <3>1. CASE g = Onward(f)
      <4> DEFINE next == IF f.ev \in consumed THEN "leaving" ELSE "loop"
      <4>1. next \in {"loop", "leaving"} /\ f.raised \in BOOLEAN
        BY DEF Frames
      <4>2. g = [f EXCEPT !.done = f.done + 1, !.at = next]
        BY <3>1 DEF Onward
      <4> HIDE DEF next
      <4>3. g = [f EXCEPT !.done = f.done + 1, !.at = next, !.raised = f.raised]
        BY <4>2 DEF Frames
      <4> QED
        BY <4>1, <4>3
    <3>2. CASE g = [f EXCEPT !.done = @ + 1, !.at = "leaving", !.raised = TRUE]
      BY <3>2
    <3> QED
      BY <3>1, <3>2
  <2>2. ASSUME NEW d \in Nat, NEW at \in {"loop", "leaving"}, NEW raised \in BOOLEAN,
               g = [f EXCEPT !.done = d, !.at = at, !.raised = raised]
        PROVE  /\ g \in Frames /\ g.ev = f.ev /\ g.conns = f.conns
               /\ g.rejected = f.rejected /\ g.done = d /\ g.at = at
    BY <2>2 DEF Frames
  <2> QED
    BY <1>0, <2>1, <2>2
<1>2. f.done \in Nat /\ f.conns \in Seq(Conns)
  BY DEF Frames
<1> QED
  BY <1>1, <1>2 DEF FrameOK, Working

LEMMA DispatchReturns ==
    ASSUME TypeOK, DispatchInv, DirectReturns
    PROVE  TypeOK' /\ DispatchInv'
<1>1. ~Idle /\ Top.at = "calling"
  BY DEF DirectReturns
<1>2. Top \in Frames /\ Len(stack) \in DOMAIN stack /\ Top = stack[Len(stack)]
  BY <1>1, TopTyped
<1>3. FrameOK(Top) /\ Top.done < Len(Top.conns)
  BY <1>1, <1>2 DEF DispatchInv, FrameInv, FrameOK
<1>4. Current \in Ahead(Top) /\ Current \in Conns /\ Top.ev \in Events
  BY <1>1, <1>3, CurrentHeld DEF DispatchInv
<1>5. PICK g : /\ SetTop(g)
               /\ \/ g = Onward(Top)
                  \/ g = [Top EXCEPT !.done = @ + 1, !.at = "leaving", !.raised = TRUE]
  BY DEF DirectReturns
<1>6. /\ g \in Frames /\ FrameOK(g) /\ Working(g) /\ g.ev = Top.ev /\ g.conns = Top.conns
      /\ g.rejected = Top.rejected /\ g.done = Top.done + 1
  BY <1>1, <1>2, <1>3, <1>5, OnwardFrame
<1>7. Ahead(g) = Ahead(Top) \ {Current}
  BY <1>2, <1>3, <1>6, OneFurther DEF Current
<1>8. inLoop' = inLoop /\ record' = [record EXCEPT ![Top.ev][Current] = "settled"]
  BY DEF DirectReturns
<1>9. \A e \in Events, c \in Conns :
        record'[e][c] = IF e = Top.ev /\ c = Current THEN "settled" ELSE record[e][c]
  BY <1>4, <1>8 DEF TypeOK
<1>10. ASSUME NEW c \in Ahead(Top) PROVE Settles(g, c)
  <2>1. c \in Conns
    BY <1>2, AheadIsReceived
  <2>2. Holds(stack[Len(stack)], c)
    BY <1>1, <1>2, <2>1 DEF Holds, Working
  <2>3. /\ record[Top.ev][c] \in Open /\ c \notin inLoop[Top.ev]
        /\ c \notin Direct => record[Top.ev][c] = "queued"
    BY <1>2, <2>1, <2>2 DEF DispatchInv, HeldInv
  <2>4. CASE c = Current
    <3>1. record'[g.ev][c] = "settled" /\ c \notin inLoop'[g.ev] /\ ~Holds(g, c)
      BY <1>4, <1>6, <1>7, <1>8, <1>9, <2>3, <2>4 DEF Holds
    <3> QED
      BY <3>1 DEF Settles, Open
  <2>5. CASE c # Current
    <3>1. record'[g.ev][c] = record[Top.ev][c] /\ c \notin inLoop'[g.ev] /\ Holds(g, c)
      BY <1>4, <1>6, <1>7, <1>8, <1>9, <2>1, <2>3, <2>5 DEF Holds
    <3> QED
      BY <2>3, <3>1 DEF Settles, Open
  <2> QED
    BY <2>4, <2>5
<1>11. DispatchInv'
  <2>1. \A e \in Events, c \in Conns :
          e # Top.ev \/ c \notin Ahead(Top)
            => record'[e][c] = record[e][c] /\ (c \in inLoop'[e] <=> c \in inLoop[e])
    BY <1>4, <1>8, <1>9
  <2>2. Working(Top) /\ Ahead(g) \subseteq Ahead(Top)
    BY <1>1, <1>7 DEF Working
  <2> QED
    BY <1>1, <1>5, <1>6, <1>10, <2>1, <2>2, TopStep
<1>12. TypeOK'
  <2>1. stack' \in Seq(Frames) /\ Len(stack') = Len(stack)
    BY <1>1, <1>5, <1>6, TopReplaced
  <2>2. record' \in [Events -> [Conns -> Statuses]]
    BY <1>8 DEF TypeOK, Statuses, Final
  <2>3. UNCHANGED <<matchVars, runVars, inLoop, consumed>>
    BY DEF DirectReturns
  <2>4. MatchTypeOK'
    BY <2>3 DEF TypeOK, MatchTypeOK, matchVars, storeVars, cacheVars
  <2> QED
    BY <2>1, <2>2, <2>3, <2>4 DEF TypeOK, runVars
<1> QED
  BY <1>11, <1>12

LEMMA DispatchEnqueue ==
    ASSUME TypeOK, DispatchInv, Enqueue
    PROVE  TypeOK' /\ DispatchInv'
<1>1. ~Idle /\ Top.at = "loop" /\ Top.done < Len(Top.conns) /\ Current \notin Direct
  BY DEF Enqueue, Dispatching
<1>2. Top \in Frames /\ Len(stack) \in DOMAIN stack /\ Top = stack[Len(stack)]
  BY <1>1, TopTyped
<1>3. FrameOK(Top) /\ Current \in Ahead(Top) /\ Current \in Conns /\ Top.ev \in Events
  BY <1>1, CurrentHeld DEF DispatchInv
<1>4. PICK full \in BOOLEAN :
        /\ IF full
           THEN record' = [record EXCEPT ![Top.ev][Current] = "rejected"] /\ inLoop' = inLoop
           ELSE inLoop' = [inLoop EXCEPT ![Top.ev] = @ \cup {Current}] /\ record' = record
        /\ SetTop(Onward([Top EXCEPT !.rejected = RefusedAny(@, full)]))
  BY DEF Enqueue
<1> DEFINE h == [Top EXCEPT !.rejected = RefusedAny(@, full)]
           g == Onward(h)
<1>5. /\ h \in Frames /\ h.ev = Top.ev /\ h.conns = Top.conns /\ h.done = Top.done
      /\ h.at = "loop" /\ (Top.rejected => h.rejected) /\ (full => h.rejected)
  BY <1>1, <1>2 DEF RefusedAny, Frames
<1>6. SetTop(g) /\ g = Onward(h)
  BY <1>4
<1> HIDE DEF g, h
<1>7. FrameOK(h) /\ h.at # "returned" /\ h.done < Len(h.conns)
  BY <1>1, <1>3, <1>5 DEF FrameOK
<1>8. /\ g \in Frames /\ FrameOK(g) /\ Working(g) /\ g.ev = Top.ev /\ g.conns = Top.conns
      /\ g.rejected = h.rejected /\ g.done = Top.done + 1
  <2>1. /\ g \in Frames /\ FrameOK(g) /\ Working(g) /\ g.ev = h.ev /\ g.conns = h.conns
        /\ g.rejected = h.rejected /\ g.done = h.done + 1
    <3>1. h \in Frames
      BY <1>5
    <3> QED
      BY <1>6, <1>7, <3>1, OnwardFrame
  <2> QED
    BY <1>5, <2>1
<1>9. Ahead(g) = Ahead(Top) \ {Current}
  BY <1>1, <1>2, <1>3, <1>8, OneFurther DEF Current
<1>10. \A e \in Events, c \in Conns :
         /\ record'[e][c] = IF e = Top.ev /\ c = Current /\ full THEN "rejected" ELSE record[e][c]
         /\ c \in inLoop'[e] <=> c \in inLoop[e] \/ (e = Top.ev /\ c = Current /\ ~full)
  <2>1. CASE full
    <3>1. record' = [record EXCEPT ![Top.ev][Current] = "rejected"] /\ inLoop' = inLoop
      BY <1>4, <2>1
    <3> QED
      BY <1>3, <2>1, <3>1 DEF TypeOK
  <2>2. CASE ~full
    <3>1. inLoop' = [inLoop EXCEPT ![Top.ev] = @ \cup {Current}] /\ record' = record
      BY <1>4, <2>2
    <3> QED
      BY <1>3, <2>2, <3>1 DEF TypeOK
  <2> QED
    BY <2>1, <2>2
<1>11. ASSUME NEW c \in Ahead(Top) PROVE Settles(g, c)
  <2>1. c \in Conns
    BY <1>2, AheadIsReceived
  <2>2. Holds(stack[Len(stack)], c)
    BY <1>1, <1>2, <2>1 DEF Holds, Working
  <2>3. /\ record[Top.ev][c] \in Open /\ c \notin inLoop[Top.ev]
        /\ c \notin Direct => record[Top.ev][c] = "queued"
    BY <1>2, <2>1, <2>2 DEF DispatchInv, HeldInv
  <2>4. CASE c = Current /\ full
    <3>1. record'[g.ev][c] = "rejected" /\ c \notin inLoop'[g.ev] /\ ~Holds(g, c) /\ g.rejected
      BY <1>3, <1>5, <1>8, <1>9, <1>10, <2>3, <2>4 DEF Holds
    <3> QED
      BY <3>1 DEF Settles, Open
  <2>5. CASE c = Current /\ ~full
    <3>1. record'[g.ev][c] = "queued" /\ c \in inLoop'[g.ev] /\ ~Holds(g, c)
      BY <1>1, <1>3, <1>8, <1>9, <1>10, <2>3, <2>5 DEF Holds
    <3> QED
      BY <3>1 DEF Settles, Open
  <2>6. CASE c # Current
    <3>1. record'[g.ev][c] = record[Top.ev][c] /\ c \notin inLoop'[g.ev] /\ Holds(g, c)
      BY <1>3, <1>8, <1>9, <1>10, <2>1, <2>3, <2>6 DEF Holds
    <3> QED
      BY <2>3, <3>1 DEF Settles, Open
  <2> QED
    BY <2>4, <2>5, <2>6
<1>12. DispatchInv'
  <2>1. \A e \in Events, c \in Conns :
          e # Top.ev \/ c \notin Ahead(Top)
            => record'[e][c] = record[e][c] /\ (c \in inLoop'[e] <=> c \in inLoop[e])
    BY <1>3, <1>10
  <2>2. Working(Top) /\ Ahead(g) \subseteq Ahead(Top) /\ (Top.rejected => g.rejected)
    BY <1>1, <1>5, <1>8, <1>9 DEF Working
  <2> QED
    BY <1>1, <1>6, <1>8, <1>11, <2>1, <2>2, TopStep
<1>13. TypeOK'
  <2>1. stack' \in Seq(Frames) /\ Len(stack') = Len(stack)
    BY <1>1, <1>6, <1>8, TopReplaced
  <2>2. record' \in [Events -> [Conns -> Statuses]] /\ inLoop' \in [Events -> SUBSET Conns]
    <3>1. "rejected" \in Statuses
      BY DEF Statuses, Final
    <3>2. CASE full
      <4>1. record' = [record EXCEPT ![Top.ev][Current] = "rejected"] /\ inLoop' = inLoop
        BY <1>4, <3>2
      <4> QED
        BY <3>1, <4>1 DEF TypeOK
    <3>3. CASE ~full
      BY <1>3, <1>4, <3>3 DEF TypeOK
    <3> QED
      BY <3>2, <3>3
  <2>3. UNCHANGED <<matchVars, runVars, consumed>>
    BY DEF Enqueue
  <2>4. MatchTypeOK'
    BY <2>3 DEF TypeOK, MatchTypeOK, matchVars, storeVars, cacheVars
  <2> QED
    BY <2>1, <2>2, <2>3, <2>4 DEF TypeOK, runVars
<1> QED
  BY <1>12, <1>13

LEMMA DispatchLeave ==
    ASSUME TypeOK, DispatchInv, Leave
    PROVE  TypeOK' /\ DispatchInv'
<1> DEFINE end == IF Raises(Top) THEN "raised" ELSE "returned"
           g == [Top EXCEPT !.at = end]
<1>1. ~Idle /\ Top.at \in {"loop", "leaving"}
  BY DEF Leave
<1>2. /\ Top \in Frames /\ Top.ev \in Events
      /\ Len(stack) \in DOMAIN stack /\ Top = stack[Len(stack)]
  BY <1>1, TopTyped DEF Frames
<1>3. FrameOK(Top)
  BY <1>2 DEF DispatchInv, FrameInv
<1>4. end \in {"raised", "returned"} /\ (end = "returned" => ~Raises(Top))
  OBVIOUS
<1>5. SetTop(g)
  BY DEF Leave
<1> HIDE DEF end
<1>6. /\ g \in Frames /\ g.ev = Top.ev /\ g.conns = Top.conns /\ g.done = Top.done
      /\ g.at = end /\ g.rejected = Top.rejected /\ g.raised = Top.raised
  BY <1>2, <1>4 DEF Frames
<1> HIDE DEF g
<1>7. FrameOK(g) /\ ~Working(g) /\ Ahead(g) = Ahead(Top)
  BY <1>3, <1>4, <1>6 DEF FrameOK, Working, Ahead, Raises
<1>8. Skipped(Top) = Ahead(Top)
  BY DEF Skipped, Ahead
<1>9. /\ inLoop' = inLoop
      /\ record' = [record EXCEPT ![Top.ev] =
             [c \in Conns |-> IF c \in Ahead(Top) /\ record[Top.ev][c] \notin Final
                              THEN "settled" ELSE record[Top.ev][c]]]
  BY <1>8 DEF Leave
<1>10. \A e \in Events, c \in Conns :
         record'[e][c] = IF e = Top.ev /\ c \in Ahead(Top) /\ record[e][c] \notin Final
                         THEN "settled" ELSE record[e][c]
  BY <1>2, <1>9 DEF TypeOK
<1>11. ASSUME NEW c \in Ahead(Top) PROVE Settles(g, c)
  <2>1. c \in Conns
    BY <1>2, AheadIsReceived
  <2>2. Holds(stack[Len(stack)], c)
    BY <1>1, <1>2, <2>1 DEF Holds, Working
  <2>3. record[Top.ev][c] \in Open /\ c \notin inLoop[Top.ev]
    BY <1>2, <2>1, <2>2 DEF DispatchInv, HeldInv
  <2>4. record'[g.ev][c] = "settled" /\ c \notin inLoop'[g.ev] /\ ~Holds(g, c)
    BY <1>2, <1>6, <1>7, <1>9, <1>10, <2>1, <2>3 DEF Holds, Open, Final
  <2> QED
    BY <2>4 DEF Settles, Open
<1>12. DispatchInv'
  <2>1. \A e \in Events, c \in Conns :
          e # Top.ev \/ c \notin Ahead(Top)
            => record'[e][c] = record[e][c] /\ (c \in inLoop'[e] <=> c \in inLoop[e])
    BY <1>9, <1>10
  <2>2. Working(Top)
    BY <1>1 DEF Working
  <2> QED
    BY <1>1, <1>5, <1>6, <1>7, <1>11, <2>1, <2>2, TopStep
<1>13. TypeOK'
  <2>1. stack' \in Seq(Frames) /\ Len(stack') = Len(stack)
    BY <1>1, <1>5, <1>6, TopReplaced
  <2>2. record' \in [Events -> [Conns -> Statuses]]
    <3>1. \A c \in Conns : record[Top.ev][c] \in Statuses /\ "settled" \in Statuses
      BY <1>2 DEF TypeOK, Statuses, Final
    <3> QED
      BY <1>9, <3>1 DEF TypeOK
  <2>3. UNCHANGED <<matchVars, runVars, inLoop, consumed>>
    BY DEF Leave
  <2>4. MatchTypeOK'
    BY <2>3 DEF TypeOK, MatchTypeOK, matchVars, storeVars, cacheVars
  <2> QED
    BY <2>1, <2>2, <2>3, <2>4 DEF TypeOK, runVars
<1> QED
  BY <1>12, <1>13

(* A loop that has ended holds nothing: its caller goes on.                *)
LEMMA DispatchBack ==
    ASSUME TypeOK, DispatchInv, Back
    PROVE  TypeOK' /\ DispatchInv'
<1> DEFINE n == Len(stack)
<1>1. /\ ~Idle /\ Top.at \in {"returned", "raised"} /\ stack' = Front(stack)
      /\ UNCHANGED <<matchVars, runVars, factVars, consumed>>
  BY DEF Back
<1>2. n \in DOMAIN stack /\ n \in Nat /\ DOMAIN stack = 1..n /\ Top = stack[n] /\ n > 0
  BY <1>1, TopTyped
<1>3. stack \in Seq(Frames) /\ \A i \in DOMAIN stack : stack[i] \in Frames
  BY DEF TypeOK
<1>4. stack' = SubSeq(stack, 1, n - 1)
  BY <1>1 DEF Front
<1> HIDE DEF n
<1>5. /\ stack' \in Seq(Frames) /\ Len(stack') = n - 1
      /\ \A i \in 1..(n - 1) : stack'[i] = stack[i]
  BY <1>2, <1>3, <1>4, SubSeqProperties
<1>6. DOMAIN stack' = 1..(n - 1)
  BY <1>5
<1>7. \A i \in DOMAIN stack' : i \in DOMAIN stack /\ i # n /\ stack'[i] = stack[i]
  BY <1>2, <1>5, <1>6
<1>8. \A i \in DOMAIN stack : i # n => i \in DOMAIN stack'
  BY <1>2, <1>6
<1>9. record' = record /\ inLoop' = inLoop
  BY <1>1 DEF factVars
<1>10. FrameInv'
  BY <1>2, <1>7 DEF DispatchInv, FrameInv, n
<1>11. RecordInv'
  BY <1>7, <1>9 DEF DispatchInv, RecordInv
<1>12. HeldInv'
  BY <1>7, <1>9 DEF DispatchInv, HeldInv
<1>13. OpenInv'
  <2>1. ASSUME NEW c \in Conns, NEW i \in DOMAIN stack, Holds(stack[i], c)
        PROVE  i \in DOMAIN stack' /\ stack'[i] = stack[i]
    BY <1>1, <1>2, <1>7, <1>8, <2>1 DEF Holds, Working
  <2> QED
    BY <1>9, <2>1 DEF DispatchInv, OpenInv
<1>14. TypeOK'
  <2>1. MatchTypeOK'
    BY <1>1 DEF TypeOK, MatchTypeOK, matchVars, storeVars, cacheVars
  <2>2. Len(stack') <= MaxDepth
    BY <1>2, <1>5, EmitAssumption DEF TypeOK, n
  <2> QED
    BY <1>1, <1>5, <2>1, <2>2 DEF TypeOK, runVars, factVars
<1> QED
  BY <1>10, <1>11, <1>12, <1>13, <1>14 DEF DispatchInv

(* What a dispatch loop and its deliveries depend on has not changed.      *)
LEMMA DispatchStutter ==
    ASSUME DispatchInv, UNCHANGED <<stack, record, inLoop>>
    PROVE  DispatchInv'
BY DEF DispatchInv, FrameInv, RecordInv, HeldInv, OpenInv

LEMMA DispatchEmit ==
    ASSUME TypeOK, DispatchInv, NEW s \in Scopes, NEW e \in Events, Emit(s, e)
    PROVE  TypeOK' /\ DispatchInv'
<1>1. TypeOf[e] \in Types /\ MaxDepth \in Nat
  BY EmitAssumption
<1>2. /\ UserRuns /\ Len(stack) < MaxDepth /\ Remember(s, TypeOf[e])
      /\ UNCHANGED <<storeVars, version, runVars, inLoop, consumed>>
  BY DEF Emit
<1>3. MatchTypeOK'
  BY <1>1, <1>2, MatchTypeLookUp DEF TypeOK
<1>4. stack \in Seq(Frames) /\ \A i \in DOMAIN stack : stack[i] \in Frames
  BY DEF TypeOK
<1>5. CASE UNCHANGED <<stack, record>>
  BY <1>2, <1>3, <1>5, DispatchStutter DEF TypeOK, runVars
<1>6. ASSUME NEW passed, ~Repeated(e, Selected(s, e, passed)),
             record' = [record EXCEPT ![e] = Prepared(e, Selected(s, e, passed))],
             NEW q \in Arranged(TypeOf[e], Selected(s, e, passed)),
             stack' = Append(stack, [ev |-> e, conns |-> q, done |-> 0, rejected |-> FALSE,
                                     at |-> "loop", raised |-> FALSE])
      PROVE  TypeOK' /\ DispatchInv'
  <2> DEFINE S == Selected(s, e, passed)
             n == Len(stack)
             f == [ev |-> e, conns |-> q, done |-> 0, rejected |-> FALSE,
                   at |-> "loop", raised |-> FALSE]
  <2>1. S \in SUBSET Conns
    BY <1>1, MatchingType DEF TypeOK, Selected
  <2>2. \A c \in S : record[e][c] = "none"
    BY <1>6 DEF Repeated
  <2>3. record' = [record EXCEPT ![e] = Prepared(e, S)] /\ q \in Arranged(TypeOf[e], S)
    BY <1>6
  <2> HIDE DEF S
  <2>4. /\ q \in Seq(Conns) /\ {q[i] : i \in DOMAIN q} = S
        /\ \A i, j \in DOMAIN q : q[i] = q[j] => i = j
    BY <2>1, <2>3, ArrangedOnce
  <2>5. /\ f \in Frames /\ f.ev = e /\ f.conns = q /\ f.done = 0 /\ f.at = "loop"
        /\ f.rejected = FALSE
    BY <2>4 DEF Frames
  <2>6. stack' = Append(stack, f)
    BY <1>6
  <2> HIDE DEF f
  <2>7. FrameOK(f) /\ Working(f) /\ Receivers(f) = S /\ Ahead(f) = S
    <3>1. DOMAIN q = 1..Len(q) /\ 0 + 1 = 1 /\ 0 <= Len(q)
      BY <2>4
    <3>2. Receivers(f) = S /\ Ahead(f) = S
      <4>1. f.done + 1 .. Len(f.conns) = DOMAIN q
        BY <2>5, <3>1
      <4>2. Receivers(f) = {q[i] : i \in DOMAIN q} /\ Ahead(f) = {q[i] : i \in DOMAIN q}
        BY <2>5, <4>1 DEF Receivers, Ahead
      <4> QED
        BY <2>4, <4>2
    <3> QED
      BY <2>4, <2>5, <3>1, <3>2 DEF FrameOK, Working
  <2>8. /\ n \in Nat /\ DOMAIN stack = 1..n
        /\ stack' \in Seq(Frames) /\ Len(stack') = n + 1 /\ DOMAIN stack' = 1..(n + 1)
        /\ \A i \in 1..n : stack'[i] = stack[i]
        /\ stack'[n + 1] = f
    BY <1>4, <2>5, <2>6, AppendProperties
  <2>9. \A x \in Events, c \in Conns :
          record'[x][c] = IF x = e /\ c \in S
                          THEN (IF c \in Direct THEN "pending" ELSE "queued")
                          ELSE record[x][c]
    BY <2>3 DEF TypeOK, Prepared
  <2> HIDE DEF n
  <2>10. \A i \in DOMAIN stack' : \/ i = n + 1 /\ stack'[i] = f
                                  \/ i \in DOMAIN stack /\ i # n + 1 /\ stack'[i] = stack[i]
    BY <2>8
  <2>11. DOMAIN stack \subseteq DOMAIN stack' /\ n + 1 \in DOMAIN stack'
    BY <2>8
  <2>12. \A i \in DOMAIN stack : stack[i] \in Frames /\ stack[i].ev \in Events
    <3>1. \A g \in Frames : g.ev \in Events
      BY DEF Frames
    <3> QED
      BY <1>4, <3>1
  (* The receivers of a loop of the same event have records already.       *)
  <2>13. ASSUME NEW i \in DOMAIN stack, NEW c \in Receivers(stack[i])
         PROVE  /\ c \in Conns /\ (stack[i].ev = e => c \notin S)
                /\ record'[stack[i].ev][c] = record[stack[i].ev][c]
    <3>1. c \in Conns /\ record[stack[i].ev][c] # "none"
      BY <2>12, <2>13, AheadIsReceived DEF DispatchInv, RecordInv
    <3>2. stack[i].ev = e => c \notin S
      BY <2>2, <3>1
    <3> QED
      BY <2>9, <2>12, <3>1, <3>2
  <2>14. FrameInv'
    <3>1. ASSUME NEW i \in DOMAIN stack PROVE stack[i].at = "calling"
      <4>1. CASE i = n
        <5>1. ~Idle /\ Top = stack[n]
          BY <1>4, <3>1, <2>8 DEF Idle, Top, n
        <5> QED
          BY <1>2, <4>1, <5>1 DEF UserRuns
      <4>2. CASE i # n
        BY <4>2 DEF DispatchInv, FrameInv, n
      <4> QED
        BY <4>1, <4>2
    <3>2. ASSUME NEW i \in DOMAIN stack'
          PROVE  FrameOK(stack'[i]) /\ (i # n + 1 => stack'[i].at = "calling")
      BY <2>7, <2>10, <3>1 DEF DispatchInv, FrameInv
    <3>3. Len(stack') = n + 1
      BY <2>8
    <3>4. \A i \in DOMAIN stack' :
             FrameOK(stack'[i]) /\ (i # Len(stack') => stack'[i].at = "calling")
      BY <3>2, <3>3
    <3> QED
      BY <3>4 DEF FrameInv
  <2>15. RecordInv'
    <3>1. ASSUME NEW i \in DOMAIN stack', NEW c \in Receivers(stack'[i])
          PROVE  /\ record'[stack'[i].ev][c] # "none"
                 /\ record'[stack'[i].ev][c] = "rejected" => stack'[i].rejected
      <4>1. CASE i = n + 1
        <5>1. c \in S /\ stack'[i].ev = e /\ c \in Conns
          BY <2>1, <2>5, <2>7, <2>8, <3>1, <4>1
        <5> QED
          BY <2>9, <5>1
      <4>2. CASE i # n + 1
        <5>1. i \in DOMAIN stack /\ stack'[i] = stack[i]
          BY <2>10, <4>2
        <5> QED
          BY <2>13, <3>1, <5>1 DEF DispatchInv, RecordInv
      <4> QED
        BY <4>1, <4>2
    <3>2. ASSUME NEW i \in DOMAIN stack', NEW j \in DOMAIN stack',
                 stack'[i].ev = stack'[j].ev, i # j
          PROVE  Receivers(stack'[i]) \cap Receivers(stack'[j]) = {}
      <4>1. CASE i = n + 1
        <5>1. j \in DOMAIN stack /\ stack'[j] = stack[j] /\ stack'[i] = f
          BY <2>10, <3>2, <4>1
        <5> QED
          BY <2>5, <2>7, <2>13, <3>2, <5>1
      <4>2. CASE j = n + 1
        <5>1. i \in DOMAIN stack /\ stack'[i] = stack[i] /\ stack'[j] = f
          BY <2>10, <3>2, <4>2
        <5> QED
          BY <2>5, <2>7, <2>13, <3>2, <5>1
      <4>3. CASE i # n + 1 /\ j # n + 1
        <5>1. i \in DOMAIN stack /\ j \in DOMAIN stack /\ stack'[i] = stack[i] /\ stack'[j] = stack[j]
          BY <2>10, <4>3
        <5> QED
          BY <3>2, <5>1 DEF DispatchInv, RecordInv
      <4> QED
        BY <4>1, <4>2, <4>3
    <3> QED
      BY <3>1, <3>2 DEF RecordInv
  <2>16. inLoop' = inLoop /\ \A c \in S : c \notin inLoop[e]
    <3>1. \A c \in S : c \in Conns /\ record[e][c] = "none"
      BY <2>1, <2>2
    <3>2. \A c \in Conns : c \in inLoop[e] => record[e][c] # "none"
      BY DEF DispatchInv, OpenInv
    <3> QED
      BY <1>2, <3>1, <3>2
  <2>17. HeldInv'
    <3>1. ASSUME NEW i \in DOMAIN stack', NEW c \in Conns, Holds(stack'[i], c)
          PROVE  /\ record'[stack'[i].ev][c] \in Open /\ c \notin inLoop'[stack'[i].ev]
                 /\ c \notin Direct => record'[stack'[i].ev][c] = "queued"
      <4>1. CASE i = n + 1
        <5>1. c \in S /\ stack'[i].ev = e
          BY <2>5, <2>7, <2>8, <3>1, <4>1 DEF Holds
        <5> QED
          BY <2>9, <2>16, <5>1 DEF Open
      <4>2. CASE i # n + 1
        <5>1. i \in DOMAIN stack /\ stack'[i] = stack[i]
          BY <2>10, <4>2
        <5>2. c \in Receivers(stack[i])
          BY <2>12, <3>1, <5>1, AheadIsReceived DEF Holds
        <5> QED
          BY <2>13, <2>16, <3>1, <5>1, <5>2 DEF DispatchInv, HeldInv
      <4> QED
        BY <4>1, <4>2
    <3> QED
      BY <3>1 DEF HeldInv
  <2>18. OpenInv'
    <3>1. ASSUME NEW x \in Events, NEW c \in Conns
          PROVE  /\ c \in inLoop'[x] => record'[x][c] \in {"queued", "running"}
                 /\ record'[x][c] \in Open
                      => c \in inLoop'[x] \/ \E i \in DOMAIN stack' : stack'[i].ev = x /\ Holds(stack'[i], c)
      <4>1. CASE x = e /\ c \in S
        <5>1. Holds(f, c)
          BY <2>7, <4>1 DEF Holds
        <5> QED
          BY <2>5, <2>8, <2>11, <2>16, <4>1, <5>1
      <4>2. CASE ~(x = e /\ c \in S)
        <5>1. record'[x][c] = record[x][c] /\ inLoop'[x] = inLoop[x]
          BY <2>9, <2>16, <4>2
        <5>2. ASSUME NEW i \in DOMAIN stack, stack[i].ev = x, Holds(stack[i], c)
              PROVE  \E j \in DOMAIN stack' : stack'[j].ev = x /\ Holds(stack'[j], c)
          BY <2>8, <2>11, <5>2
        <5> QED
          BY <5>1, <5>2 DEF DispatchInv, OpenInv
      <4> QED
        BY <4>1, <4>2
    <3> QED
      BY <3>1 DEF OpenInv
  <2>19. TypeOK'
    <3>1. Prepared(e, S) \in [Conns -> Statuses]
      BY DEF Prepared, TypeOK, Statuses
    <3>2. record' \in [Events -> [Conns -> Statuses]]
      BY <2>3, <3>1 DEF TypeOK
    <3>3. Len(stack') <= MaxDepth
      BY <1>1, <1>2, <2>8 DEF n
    <3> QED
      BY <1>2, <1>3, <2>8, <3>2, <3>3 DEF TypeOK, runVars
  <2> QED
    BY <2>14, <2>15, <2>17, <2>18, <2>19 DEF DispatchInv
<1> QED
  BY <1>5, <1>6, Zenon DEF Emit

(* Cancelling an event reaches only what an event loop has and has not     *)
(* begun.                                                                  *)
LEMMA DispatchCancel ==
    ASSUME TypeOK, DispatchInv, NEW e \in Events, CancelExecution(e)
    PROVE  TypeOK' /\ DispatchInv'
<1> DEFINE W == Withdrawn(e)
<1>1. /\ record' = [record EXCEPT ![e] =
             [c \in Conns |-> IF c \in W THEN "settled" ELSE record[e][c]]]
      /\ inLoop' = [inLoop EXCEPT ![e] = inLoop[e] \ W]
      /\ UNCHANGED <<matchVars, runVars, stack, consumed>>
  BY DEF CancelExecution
<1>2. W \subseteq inLoop[e] /\ inLoop[e] \subseteq Conns
  BY DEF Withdrawn, TypeOK
<1> HIDE DEF W
<1>3. \A x \in Events, c \in Conns :
        /\ record'[x][c] = IF x = e /\ c \in W THEN "settled" ELSE record[x][c]
        /\ c \in inLoop'[x] <=> c \in inLoop[x] /\ ~(x = e /\ c \in W)
  BY <1>1 DEF TypeOK
<1>4. \A i \in DOMAIN stack : stack[i] \in Frames /\ stack[i].ev \in Events
  <2>1. \A i \in DOMAIN stack : stack[i] \in Frames
    BY DEF TypeOK
  <2>2. \A f \in Frames : f.ev \in Events
    BY DEF Frames
  <2> QED
    BY <2>1, <2>2
<1>5. FrameInv'
  BY <1>1 DEF DispatchInv, FrameInv
<1>6. RecordInv'
  <2>1. ASSUME NEW i \in DOMAIN stack, NEW c \in Receivers(stack[i])
        PROVE  /\ record'[stack[i].ev][c] # "none"
               /\ record'[stack[i].ev][c] = "rejected" => stack[i].rejected
    <3>1. c \in Conns
      BY <1>4, <2>1, AheadIsReceived
    <3> QED
      BY <1>3, <1>4, <2>1, <3>1 DEF DispatchInv, RecordInv
  <2> QED
    BY <1>1, <2>1 DEF DispatchInv, RecordInv
<1>7. HeldInv'
  <2>1. ASSUME NEW i \in DOMAIN stack, NEW c \in Conns, Holds(stack[i], c)
        PROVE  /\ record'[stack[i].ev][c] \in Open /\ c \notin inLoop'[stack[i].ev]
               /\ c \notin Direct => record'[stack[i].ev][c] = "queued"
    <3>1. /\ record[stack[i].ev][c] \in Open /\ c \notin inLoop[stack[i].ev]
          /\ c \notin Direct => record[stack[i].ev][c] = "queued"
      BY <2>1 DEF DispatchInv, HeldInv
    <3>2. ~(stack[i].ev = e /\ c \in W)
      BY <1>2, <3>1
    <3> QED
      BY <1>3, <1>4, <3>1, <3>2
  <2> QED
    BY <1>1, <2>1 DEF HeldInv
<1>8. OpenInv'
  <2>1. ASSUME NEW x \in Events, NEW c \in Conns
        PROVE  /\ c \in inLoop'[x] => record'[x][c] \in {"queued", "running"}
               /\ record'[x][c] \in Open
                    => c \in inLoop'[x] \/ \E i \in DOMAIN stack : stack[i].ev = x /\ Holds(stack[i], c)
    <3>1. /\ c \in inLoop[x] => record[x][c] \in {"queued", "running"}
          /\ record[x][c] \in Open
               => c \in inLoop[x] \/ \E i \in DOMAIN stack : stack[i].ev = x /\ Holds(stack[i], c)
      BY DEF DispatchInv, OpenInv
    <3>2. "settled" \notin Open
      BY DEF Open
    <3> QED
      BY <1>3, <3>1, <3>2
  <2> QED
    BY <1>1, <2>1 DEF OpenInv
<1>9. TypeOK'
  <2>1. MatchTypeOK'
    BY <1>1 DEF TypeOK, MatchTypeOK, matchVars, storeVars, cacheVars
  <2>2. inLoop' \in [Events -> SUBSET Conns]
    BY <1>1 DEF TypeOK
  <2>3. [c \in Conns |-> IF c \in W THEN "settled" ELSE record[e][c]] \in [Conns -> Statuses]
    BY DEF TypeOK, Statuses, Final
  <2>4. record' \in [Events -> [Conns -> Statuses]]
    BY <1>1, <2>3 DEF TypeOK
  <2> QED
    BY <1>1, <2>1, <2>2, <2>4 DEF TypeOK, runVars
<1> QED
  BY <1>5, <1>6, <1>7, <1>8, <1>9 DEF DispatchInv

(* An event loop begins or ends a delivery, while nothing is dispatched.   *)
LEMMA DispatchLoop ==
    ASSUME TypeOK, DispatchInv, NEW e \in Events, NEW c \in Conns,
           LoopStarts(e, c) \/ LoopSettles(e, c)
    PROVE  TypeOK' /\ DispatchInv'
<1>1. /\ Idle /\ c \in inLoop[e]
      /\ UNCHANGED <<matchVars, runVars, stack, consumed>>
  BY DEF LoopStarts, LoopSettles
<1>2. DOMAIN stack = {} /\ stack' = stack
  BY <1>1 DEF Idle
<1>3. FrameInv' /\ RecordInv' /\ HeldInv'
  BY <1>2 DEF FrameInv, RecordInv, HeldInv
<1>4. /\ record' \in [Events -> [Conns -> Statuses]]
      /\ inLoop' \in [Events -> SUBSET Conns]
  <2>1. "running" \in Statuses /\ "settled" \in Statuses
    BY DEF Statuses, Final
  <2>2. CASE LoopStarts(e, c)
    BY <2>1, <2>2 DEF LoopStarts, TypeOK
  <2>3. CASE LoopSettles(e, c)
    BY <2>1, <2>3 DEF LoopSettles, TypeOK
  <2> QED
    BY <2>2, <2>3
<1>5. OpenInv'
  <2>1. ASSUME NEW x \in Events, NEW d \in Conns
        PROVE  /\ d \in inLoop'[x] => record'[x][d] \in {"queued", "running"}
               /\ record'[x][d] \in Open => d \in inLoop'[x]
    <3>1. /\ d \in inLoop[x] => record[x][d] \in {"queued", "running"}
          /\ record[x][d] \in Open => d \in inLoop[x]
      BY <1>2 DEF DispatchInv, OpenInv
    <3>2. CASE LoopStarts(e, c)
      <4>1. /\ inLoop' = inLoop
            /\ record'[x][d] = IF x = e /\ d = c THEN "running" ELSE record[x][d]
        BY <3>2 DEF LoopStarts, TypeOK
      <4> QED
        BY <1>1, <3>1, <4>1
    <3>3. CASE LoopSettles(e, c)
      <4>1. /\ record'[x][d] = IF x = e /\ d = c THEN "settled" ELSE record[x][d]
            /\ d \in inLoop'[x] <=> d \in inLoop[x] /\ ~(x = e /\ d = c)
        BY <3>3 DEF LoopSettles, TypeOK
      <4> QED
        BY <3>1, <4>1 DEF Open
    <3> QED
      BY <3>2, <3>3
  <2> QED
    BY <2>1 DEF OpenInv
<1>6. TypeOK'
  <2>1. MatchTypeOK'
    BY <1>1 DEF TypeOK, MatchTypeOK, matchVars, storeVars, cacheVars
  <2> QED
    BY <1>1, <1>4, <2>1 DEF TypeOK, runVars
<1> QED
  BY <1>3, <1>5, <1>6 DEF DispatchInv

-----------------------------------------------------------------------------
(* All together                                                            *)

EmitInv == TypeOK /\ LinkInv /\ DispatchInv

LEMMA EmitInit == Init => EmitInv
<1> SUFFICES ASSUME Init PROVE EmitInv
  OBVIOUS
<1>1. \A s \in Scopes, k \in Keys : listed[s][k] = {}
  BY DEF Init, MatchInit
<1>2. MatchTypeOK
  <2>1. Nothing \in [version : Nat \cup {-1}, conns : SUBSET Conns]
    BY DEF Nothing
  <2> DEFINE Entries == [version : Nat \cup {-1}, conns : SUBSET Conns]
  <2>2. remembered = [s \in Scopes |-> [t \in Types |-> Nothing]] /\ Nothing \in Entries
    BY <2>1 DEF Init, MatchInit
  <2> HIDE DEF Entries
  <2>3. remembered \in [Scopes -> [Types -> Entries]]
    BY <2>2
  <2>4. listed \in [Scopes -> [Keys -> SUBSET Conns]]
    BY DEF Init, MatchInit
  <2> QED
    BY <2>3, <2>4 DEF Init, MatchInit, MatchTypeOK, Entries
<1>3. TypeOK
  <2>1. stack \in Seq(Frames) /\ Len(stack) <= MaxDepth
    BY EmitAssumption DEF Init
  <2>2. record \in [Events -> [Conns -> Statuses]]
    BY DEF Init, Statuses
  <2> QED
    BY <1>2, <2>1, <2>2 DEF Init, TypeOK
<1>4. LinkInv
  BY <1>1 DEF Init, MatchInit, LinkInv
<1>5. DispatchInv
  <2>1. DOMAIN stack = {}
    BY DEF Init
  <2>2. \A e \in Events, c \in Conns : record[e][c] = "none" /\ c \notin inLoop[e]
    BY DEF Init
  <2> QED
    BY <2>1, <2>2 DEF DispatchInv, FrameInv, RecordInv, HeldInv, OpenInv, Open
<1> QED
  BY <1>3, <1>4, <1>5 DEF EmitInv

(* What neither connects nor disconnects nor closes leaves the links.      *)
LEMMA LinkStutter ==
    ASSUME LinkInv, UNCHANGED <<storeVars, finished>>
    PROVE  LinkInv'
BY DEF LinkInv, storeVars

LEMMA EmitStep == EmitInv /\ [Next]_vars => EmitInv'
<1> SUFFICES ASSUME EmitInv, [Next]_vars PROVE EmitInv'
  OBVIOUS
<1>0. TypeOK /\ LinkInv /\ DispatchInv /\ MatchTypeOK
  BY DEF EmitInv, TypeOK
<1>1. ASSUME NEW c \in Conns, Connect(c) PROVE EmitInv'
  <2>1. /\ c \notin created /\ OpenEnds(c) /\ AddConnection(c)
        /\ UNCHANGED <<runVars, stack, factVars, consumed>>
    BY <1>1 DEF Connect
  <2>2. MatchTypeOK'
    BY <1>0, <2>1, MatchTypeConnect
  <2>3. LinkInv'
    BY <1>0, <2>1, LinkConnect DEF TypeOK, runVars
  <2>4. DispatchInv'
    BY <1>0, <2>1, DispatchStutter DEF factVars
  <2> QED
    BY <1>0, <2>1, <2>2, <2>3, <2>4 DEF EmitInv, TypeOK, runVars, factVars
<1>2. ASSUME NEW c \in Conns, Disconnect(c) PROVE EmitInv'
  <2>1. /\ RemoveConnections({c}) /\ remembered' = Forgotten({c})
        /\ UNCHANGED <<negVersion, negative, runVars, stack, factVars, consumed>>
    BY <1>2 DEF Disconnect
  <2>2. MatchTypeOK'
    BY <1>0, <2>1, MatchTypeRemove DEF MatchTypeOK
  <2>3. LinkInv'
    <3>1. active' \subseteq active /\ finished' = finished
      BY <2>1 DEF RemoveConnections, runVars
    <3> QED
      BY <1>0, <2>1, <3>1, LinkRemove DEF LinkInv
  <2>4. DispatchInv'
    BY <1>0, <2>1, DispatchStutter DEF factVars
  <2> QED
    BY <1>0, <2>1, <2>2, <2>3, <2>4 DEF EmitInv, TypeOK, runVars, factVars
<1>3. ASSUME NEW s \in Scopes, FinishClose(s) PROVE EmitInv'
  <2> DEFINE L == LinkedTo(s)
  <2>1. /\ s \in stopped /\ RemoveConnections(L)
        /\ remembered' = [Forgotten(L) EXCEPT ![s] = [t \in Types |-> Nothing]]
        /\ negative' = [negative EXCEPT ![s] = {}]
        /\ finished' = finished \cup {s}
        /\ UNCHANGED <<negVersion, stopped, stack, factVars, consumed>>
    BY <1>3 DEF FinishClose
  <2>2. LinkInv'
    BY <1>0, <2>1, LinkFinish DEF TypeOK
  <2> HIDE DEF L
  <2>3. MatchTypeOK'
    <3> DEFINE Entries == [version : Nat \cup {-1}, conns : SUBSET Conns]
    <3>1. Forgotten(L) \in [Scopes -> [Types -> Entries]] /\ Nothing \in Entries
      BY <1>0, <2>1, MatchTypeRemove DEF Nothing
    <3> HIDE DEF Entries
    <3>2. [t \in Types |-> Nothing] \in [Types -> Entries]
      BY <3>1
    <3>3. remembered' \in [Scopes -> [Types -> Entries]]
      BY <2>1, <3>1, <3>2
    <3>4. negative' \in [Scopes -> SUBSET Types]
      BY <1>0, <2>1 DEF MatchTypeOK
    <3> QED
      BY <1>0, <2>1, <3>3, <3>4, MatchTypeRemove DEF MatchTypeOK, Entries
  <2>4. DispatchInv'
    BY <1>0, <2>1, DispatchStutter DEF factVars
  <2> QED
    BY <1>0, <2>1, <2>2, <2>3, <2>4 DEF EmitInv, TypeOK, factVars
<1>4. ASSUME NEW s \in Scopes, NEW e \in Events, Emit(s, e) PROVE EmitInv'
  <2>1. UNCHANGED <<storeVars, finished>>
    BY <1>4 DEF Emit, runVars
  <2> QED
    BY <1>0, <1>4, <2>1, DispatchEmit, LinkStutter DEF EmitInv
<1>5. ASSUME TypeOK', DispatchInv', UNCHANGED <<matchVars, runVars>> PROVE EmitInv'
  BY <1>0, <1>5, LinkStutter DEF EmitInv, matchVars, runVars
<1>6. ASSUME NEW e \in Events, Consume(e) PROVE EmitInv'
  <2>1. consumed' = consumed \cup {e} /\ UNCHANGED <<matchVars, runVars, stack, factVars>>
    BY <1>6 DEF Consume
  <2>2. DispatchInv'
    BY <1>0, <2>1, DispatchStutter DEF factVars
  <2>3. MatchTypeOK'
    BY <1>0, <2>1 DEF MatchTypeOK, matchVars, storeVars, cacheVars
  <2>4. TypeOK'
    BY <1>0, <2>1, <2>3 DEF TypeOK, runVars, factVars
  <2> QED
    BY <1>5, <2>1, <2>2, <2>4
<1>7. ASSUME NEW e \in Events, CancelExecution(e) PROVE EmitInv'
  BY <1>0, <1>5, <1>7, DispatchCancel DEF CancelExecution
<1>8. CASE User
  BY <1>1, <1>2, <1>4, <1>6, <1>7, <1>8 DEF User
<1>9. CASE CallDirect
  BY <1>0, <1>5, <1>9, DispatchCall DEF CallDirect
<1>10. CASE DirectReturns
  BY <1>0, <1>5, <1>10, DispatchReturns DEF DirectReturns
<1>11. CASE Enqueue
  BY <1>0, <1>5, <1>11, DispatchEnqueue DEF Enqueue
<1>12. CASE Leave
  BY <1>0, <1>5, <1>12, DispatchLeave DEF Leave
<1>13. CASE Back
  BY <1>0, <1>5, <1>13, DispatchBack DEF Back
<1>14. CASE Loops
  <2>1. PICK e \in Events, c \in Conns : LoopStarts(e, c) \/ LoopSettles(e, c)
    BY <1>14 DEF Loops
  <2>2. TypeOK' /\ DispatchInv'
    BY <1>0, <2>1, DispatchLoop
  <2>3. UNCHANGED <<matchVars, runVars>>
    BY <2>1 DEF LoopStarts, LoopSettles
  <2> QED
    BY <1>5, <2>2, <2>3
<1>15. CASE Close
  <2>1. ASSUME NEW s \in Scopes, BeginClose(s) PROVE EmitInv'
    <3>1. stopped' = stopped \cup {s} /\ UNCHANGED <<matchVars, finished, stack, factVars, consumed>>
      BY <2>1 DEF BeginClose
    <3>2. DispatchInv' /\ LinkInv'
      BY <1>0, <3>1, DispatchStutter, LinkStutter DEF factVars, matchVars
    <3>3. MatchTypeOK'
      BY <1>0, <3>1 DEF MatchTypeOK, matchVars, storeVars, cacheVars
    <3> QED
      BY <1>0, <3>1, <3>2, <3>3 DEF EmitInv, TypeOK, factVars
  <2> QED
    BY <1>3, <1>15, <2>1 DEF Close
<1>16. CASE UNCHANGED vars
  <2>1. UNCHANGED <<matchVars, runVars, stack, factVars, consumed>>
    BY <1>16 DEF vars
  <2>2. DispatchInv' /\ LinkInv'
    BY <1>0, <2>1, DispatchStutter, LinkStutter DEF factVars, matchVars, runVars
  <2>3. MatchTypeOK'
    BY <1>0, <2>1 DEF MatchTypeOK, matchVars, storeVars, cacheVars
  <2> QED
    BY <1>0, <2>1, <2>2, <2>3 DEF EmitInv, TypeOK, factVars, runVars
<1> QED
  BY <1>8, <1>9, <1>10, <1>11, <1>12, <1>13, <1>14, <1>15, <1>16 DEF Next

LEMMA EmitInvCorrect == Spec => []EmitInv
BY EmitInit, EmitStep, PTL DEF Spec

(* Whatever nests, raises or is refused, every variable keeps its type,    *)
(* and emits nest no deeper than _MAX_DIRECT_DEPTH (scope.py:191-196).     *)
THEOREM TypeCorrect == Spec => []TypeOK
<1>1. EmitInv => TypeOK
  BY DEF EmitInv
<1> QED
  BY <1>1, EmitInvCorrect, PTL

(* Every delivery that has a record and no final status is held by exactly *)
(* one dispatch loop or by an event loop, and no other is held by any: the *)
(* finally clause of emit (scope.py:253-261) leaves none behind, however   *)
(* deep the emits nest and whatever their receivers do.                    *)
THEOREM ReceiversHeldOnce == Spec => []ReceiversAccounted
<1>1. ASSUME EmitInv, NEW e \in Events, NEW c \in Conns
      PROVE  IF record[e][c] \in Final \cup {"none"}
             THEN c \notin inLoop[e] /\ Holders(e, c) = {}
             ELSE Cardinality(Holders(e, c)) + (IF c \in inLoop[e] THEN 1 ELSE 0) = 1
  <2>1. \A i : i \in Holders(e, c) <=> i \in DOMAIN stack /\ stack[i].ev = e /\ Holds(stack[i], c)
    BY DEF Holders, Holds, Working, Ahead
  <2>2. record[e][c] \in Statuses /\ \A i \in DOMAIN stack : stack[i] \in Frames
    BY <1>1 DEF EmitInv, TypeOK
  <2>3. Holders(e, c) # {} => record[e][c] \in Open /\ c \notin inLoop[e]
    BY <1>1, <2>1 DEF EmitInv, DispatchInv, HeldInv
  <2>4. ASSUME NEW i \in Holders(e, c), NEW j \in Holders(e, c) PROVE i = j
    <3>1. /\ i \in DOMAIN stack /\ j \in DOMAIN stack /\ stack[i].ev = stack[j].ev
          /\ c \in Ahead(stack[i]) /\ c \in Ahead(stack[j])
      BY <2>1 DEF Holds
    <3>2. c \in Receivers(stack[i]) \cap Receivers(stack[j])
      BY <2>2, <3>1, AheadIsReceived
    <3> QED
      BY <1>1, <3>1, <3>2 DEF EmitInv, DispatchInv, RecordInv
  <2>5. CASE record[e][c] \in Final \cup {"none"}
    <3>1. record[e][c] \notin Open
      BY <2>5 DEF Final, Open
    <3>2. c \notin inLoop[e]
      BY <1>1, <2>5 DEF EmitInv, DispatchInv, OpenInv, Final
    <3> QED
      BY <2>3, <2>5, <3>1, <3>2
  <2>6. CASE record[e][c] \notin Final \cup {"none"}
    <3>1. record[e][c] \in Open
      BY <2>2, <2>6 DEF Statuses, Open
    <3>2. c \in inLoop[e] \/ Holders(e, c) # {}
      BY <1>1, <2>1, <3>1 DEF EmitInv, DispatchInv, OpenInv
    <3>3. CASE Holders(e, c) = {}
      BY <2>6, <3>2, <3>3, FS_EmptySet
    <3>4. CASE Holders(e, c) # {}
      <4>1. PICK i : Holders(e, c) = {i}
        <5>1. PICK i : i \in Holders(e, c)
          BY <3>4
        <5>2. \A j \in Holders(e, c) : j = i
          BY <2>4, <5>1
        <5>3. Holders(e, c) = {i}
          BY <5>1, <5>2, Zenon
        <5> QED
          BY <5>3
      <4>2. Cardinality(Holders(e, c)) = 1
        BY <4>1, FS_Singleton
      <4> QED
        BY <2>3, <2>6, <3>4, <4>2
    <3> QED
      BY <3>3, <3>4
  <2> QED
    BY <2>5, <2>6
<1>2. EmitInv => ReceiversAccounted
  BY <1>1 DEF ReceiversAccounted
<1> QED
  BY <1>2, EmitInvCorrect, PTL

(* An emit of a non-droppable event that returns to its caller has had no  *)
(* delivery refused by an event loop (scope.py:243-247 and 262-263).       *)
THEOREM NothingDropped == Spec => []NoSilentDrop
<1>1. ASSUME EmitInv, NEW i \in DOMAIN stack, stack[i].at = "returned",
             stack[i].ev \in NonDroppable, NEW c \in ToSet(stack[i].conns)
      PROVE  record[stack[i].ev][c] # "rejected"
  <2>1. c \in Receivers(stack[i])
    BY DEF ToSet, Receivers
  <2>2. ~Raises(stack[i])
    BY <1>1 DEF EmitInv, DispatchInv, FrameInv, FrameOK
  <2> QED
    BY <1>1, <2>1, <2>2 DEF EmitInv, DispatchInv, RecordInv, Raises
<1>2. EmitInv => NoSilentDrop
  BY <1>1 DEF NoSilentDrop
<1> QED
  BY <1>2, EmitInvCorrect, PTL

(* A scope that has finished closing is in no list and on no active        *)
(* connection, at either end: close disconnects both ends, and no connect  *)
(* to a closed scope is let in after (scope.py:148-151, connection.py).    *)
THEOREM FinishedScopeUnlinked == Spec => []FinishedUnlinked
<1>1. ASSUME EmitInv, NEW s \in finished
      PROVE  LinkedTo(s) = {} /\ \A c \in active : Source[c] # s /\ Target[c] # s
  <2>1. s \in Scopes /\ \A c \in active : Source[c] # s /\ Target[c] # s
    BY <1>1 DEF EmitInv, TypeOK, LinkInv
  <2>2. incoming[s] = {}
    BY <1>1, <2>1 DEF EmitInv, TypeOK, MatchTypeOK, LinkInv
  <2>3. \A k \in Keys : listed[s][k] = {}
    BY <1>1, <2>1 DEF EmitInv, TypeOK, MatchTypeOK, LinkInv
  <2>4. UNION {listed[s][k] : k \in Keys} = {}
    BY <2>3
  <2>5. LinkedTo(s) = {}
    BY <2>2, <2>4, Zenon DEF LinkedTo
  <2> QED
    BY <2>1, <2>5
<1>2. EmitInv => FinishedUnlinked
  BY <1>1 DEF FinishedUnlinked
<1> QED
  BY <1>2, EmitInvCorrect, PTL
=============================================================================
