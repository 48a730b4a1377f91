-------------------------- MODULE ScopeGroupProofs --------------------------
(***************************************************************************)
(* Proofs about ScopeGroup for any ids, scopes and tasks: which scopes the *)
(* table holds while tasks create and close them in any order.             *)
(***************************************************************************)
EXTENDS ScopeGroup, TLAPS

USE GroupAssumption

Answers == {"complete", "incomplete", "error", "cancelled"}

-----------------------------------------------------------------------------
(* Type correctness                                                        *)

Calls == [at : {"idle", "spawned", "closing"},
          id : Ids \cup {NoScope}, scope : Scopes \cup {NoScope}]

(* A task that has been given an id has one of the group.                  *)
Targets ==
    \A t \in Tasks :
        /\ call[t].at # "idle" => call[t].id \in Ids
        /\ call[t].at = "closing" => call[t].scope \in Scopes

Typed == TypeOK /\ Targets

LEMMA TypeInit == Init => Typed
<1> SUFFICES ASSUME Init PROVE Typed
  OBVIOUS
<1>1. call \in [Tasks -> Calls] /\ \A t \in Tasks : call[t].at = "idle"
  BY DEF Init, Idle, Calls
<1> QED
  BY <1>1 DEF Init, Typed, TypeOK, Targets, Calls

LEMMA EnterType ==
    ASSUME Typed, NEW t \in Tasks, NEW id \in Ids, Enter(t, id)
    PROVE  Typed'
<1>1. table[id] \in Scopes
  BY DEF Enter, Found, Typed, TypeOK
<1>2. phase' \in [Scopes -> {"new", "open", "closing", "finished"}]
  BY DEF Enter, Typed, TypeOK
<1>3. [at |-> "closing", id |-> id, scope |-> table[id]] \in Calls
  BY <1>1 DEF Calls
<1>4. call' \in [Tasks -> Calls]
  BY <1>3 DEF Enter, Typed, TypeOK, Calls
<1>5. \A u \in Tasks : call'[u] = IF u = t
         THEN [at |-> "closing", id |-> id, scope |-> table[id]] ELSE call[u]
  BY DEF Enter, Typed, TypeOK
<1> QED
  BY <1>1, <1>2, <1>4, <1>5 DEF Enter, Typed, TypeOK, Targets, Calls

(* A task that is done has no target.                                      *)
LEMMA IdleType ==
    ASSUME Typed, NEW t \in Tasks, call' = [call EXCEPT ![t] = Idle]
    PROVE  /\ call' \in [Tasks -> Calls]
           /\ Targets'
           /\ \A u \in Tasks : call'[u].at = "closing" => u # t /\ call'[u] = call[u]
<1>1. Idle \in Calls /\ Idle.at = "idle"
  BY DEF Idle, Calls
<1>2. \A u \in Tasks : call'[u] = IF u = t THEN Idle ELSE call[u]
  BY DEF Typed, TypeOK
<1> QED
  BY <1>1, <1>2 DEF Typed, TypeOK, Targets, Calls

(* close_all gives each of its tasks one id of the table.                  *)
LEMMA CloseAllCalls ==
    ASSUME Typed, CloseAll
    PROVE  \A t \in Tasks :
              \/ call'[t] = call[t]
              \/ \E id \in Members :
                    call'[t] = [at |-> "spawned", scope |-> NoScope, id |-> id]
<1>1. PICK by \in [Members -> {t \in Tasks : call[t].at = "idle"}] :
         call' = [t \in Tasks |->
                IF \E id \in Members : by[id] = t
                THEN [at |-> "spawned", scope |-> NoScope,
                      id |-> CHOOSE id \in Members : by[id] = t]
                ELSE call[t]]
  BY DEF CloseAll
<1> SUFFICES ASSUME NEW t \in Tasks, \E id \in Members : by[id] = t
             PROVE  \E id \in Members :
                       call'[t] = [at |-> "spawned", scope |-> NoScope, id |-> id]
  BY <1>1
<1>2. (CHOOSE id \in Members : by[id] = t) \in Members
  OBVIOUS
<1> QED
  BY <1>1, <1>2

LEMMA CloseAllKeeps ==
    ASSUME Typed, CloseAll
    PROVE  \A t \in Tasks : call'[t].at = "closing" => call'[t] = call[t]
<1> SUFFICES ASSUME NEW t \in Tasks, NEW id,
                    call'[t] = [at |-> "spawned", scope |-> NoScope, id |-> id]
             PROVE  call'[t].at # "closing"
  BY CloseAllCalls
<1> QED
  OBVIOUS

LEMMA TypeStep == Typed /\ [Next]_vars => Typed'
<1> SUFFICES ASSUME Typed, [Next]_vars PROVE Typed'
  OBVIOUS
<1>1. ASSUME NEW id \in Ids, NEW s \in Scopes, Create(id, s) PROVE Typed'
  BY <1>1 DEF Create, Typed, TypeOK, Targets
<1>2. ASSUME NEW t \in Tasks, NEW id \in Ids, CloseScope(t, id) PROVE Typed'
  BY <1>2, EnterType DEF CloseScope
<1>3. CASE CloseAll
  <2>1. DOMAIN call' = Tasks /\ call' = [t \in Tasks |-> call'[t]]
    BY <1>3 DEF CloseAll
  <2>2. ASSUME NEW t \in Tasks
        PROVE  /\ call'[t] \in Calls
               /\ call'[t].at # "idle" => call'[t].id \in Ids
               /\ call'[t].at = "closing" => call'[t].scope \in Scopes
    <3>1. CASE call'[t] = call[t]
      BY <3>1 DEF Typed, TypeOK, Targets, Calls
    <3>2. ASSUME NEW id \in Members,
                 call'[t] = [at |-> "spawned", scope |-> NoScope, id |-> id]
          PROVE  /\ call'[t] \in Calls
                 /\ call'[t].at # "idle" => call'[t].id \in Ids
                 /\ call'[t].at = "closing" => call'[t].scope \in Scopes
      BY <3>2 DEF Members, Calls
    <3> QED
      BY <1>3, <3>1, <3>2, CloseAllCalls
  <2>3. call' \in [Tasks -> Calls]
    BY <2>1, <2>2
  <2> QED
    BY <1>3, <2>2, <2>3 DEF CloseAll, Typed, TypeOK, Targets, Calls
<1>4. ASSUME NEW t \in Tasks, SpawnedEnters(t) PROVE Typed'
  BY <1>4, EnterType DEF SpawnedEnters, Typed, Targets
<1>5. ASSUME NEW t \in Tasks, SpawnedMisses(t) PROVE Typed'
  BY <1>5, IdleType DEF SpawnedMisses, Typed, TypeOK, Targets, Calls
<1>6. ASSUME NEW t \in Tasks, NEW a \in Answers, Leave(t, a) PROVE Typed'
  <2>1. phase' \in [Scopes -> {"new", "open", "closing", "finished"}]
    BY <1>6 DEF Leave, Typed, TypeOK
  <2>2. table' \in [Ids -> Scopes \cup {NoScope}]
    BY <1>6 DEF Leave, Typed, TypeOK
  <2>3. call' = [call EXCEPT ![t] = Idle] /\ UNCHANGED <<used, apart>>
    BY <1>6 DEF Leave
  <2>4. call' \in [Tasks -> Calls] /\ Targets'
    BY <2>3, IdleType
  <2> QED
    BY <2>1, <2>2, <2>3, <2>4 DEF Typed, TypeOK, Targets, Calls
<1>7. ASSUME NEW s \in Scopes, CloseApart(s) PROVE Typed'
  BY <1>7 DEF CloseApart, Typed, TypeOK, Targets
<1>8. CASE UNCHANGED vars
  BY <1>8 DEF vars, Typed, TypeOK, Targets
<1> QED
  BY <1>1, <1>2, <1>3, <1>4, <1>5, <1>6, <1>7, <1>8 DEF Next, Answers

(* Whatever tasks do with the group, its table holds scopes, and a task in *)
(* close_scope has a scope in its hands.                                   *)
THEOREM TypeCorrect == Spec => []TypeOK
<1>1. Typed => TypeOK
  BY DEF Typed
<1> QED
  BY <1>1, TypeInit, TypeStep, PTL DEF Spec

-----------------------------------------------------------------------------
(* The table                                                               *)

(* A scope in the table exists and is there under one id, and the one that *)
(* a task closes is there at most under the id the task has asked for.     *)
TableInv ==
    /\ \A i \in Ids : table[i] # NoScope => Exists(table[i])
    /\ \A i, j \in Ids : table[i] # NoScope /\ table[i] = table[j] => i = j
    /\ \A t \in Tasks : call[t].at = "closing" =>
          /\ Exists(call[t].scope)
          /\ \A j \in Ids : table[j] = call[t].scope => j = call[t].id

GroupInv == Typed /\ TableInv /\ FinishedLeaves

(* What the end of a close_scope does, in terms of its scope and id.       *)
LEMMA LeaveEffect ==
    ASSUME Typed, NEW t \in Tasks, NEW a \in Answers, Leave(t, a)
    PROVE  /\ call[t].at = "closing" /\ call[t].scope \in Scopes /\ call[t].id \in Ids
           /\ \A u \in Tasks : call'[u].at = "closing" => call'[u] = call[u]
           /\ \A s \in Scopes : s # call[t].scope => phase'[s] = phase[s]
           /\ phase'[call[t].scope] \in {phase[call[t].scope], "finished"}
           /\ \A i \in Ids : table'[i] = IF phase'[call[t].scope] = "finished" /\ i = call[t].id
                                        THEN NoScope ELSE table[i]
           /\ UNCHANGED <<used, apart>>
<1>1. /\ call[t].at = "closing" /\ call[t].scope \in Scopes /\ call[t].id \in Ids
  BY DEF Leave, Typed, Targets
<1>2. /\ \A s \in Scopes : s # call[t].scope => phase'[s] = phase[s]
      /\ phase'[call[t].scope] \in {phase[call[t].scope], "finished"}
  BY <1>1 DEF Leave, Typed, TypeOK
<1>3. \A i \in Ids : table'[i] = IF phase'[call[t].scope] = "finished" /\ i = call[t].id
                               THEN NoScope ELSE table[i]
  BY <1>1 DEF Leave, Pop, Typed, TypeOK
<1>4. call' = [call EXCEPT ![t] = Idle] /\ UNCHANGED <<used, apart>>
  BY DEF Leave
<1>5. \A u \in Tasks : call'[u].at = "closing" => call'[u] = call[u]
  BY <1>4, IdleType
<1> QED
  BY <1>1, <1>2, <1>3, <1>4, <1>5

LEMMA EnterEffect ==
    ASSUME Typed, NEW t \in Tasks, NEW id \in Ids, Enter(t, id)
    PROVE  /\ table[id] \in Scopes
           /\ \A s \in Scopes : phase'[s] = IF s = table[id] /\ phase[s] = "open"
                                          THEN "closing" ELSE phase[s]
           /\ \A u \in Tasks : u # t => call'[u] = call[u]
           /\ call'[t].at = "closing" /\ call'[t].id = id /\ call'[t].scope = table[id]
           /\ UNCHANGED <<table, used, apart>>
<1>1. table[id] \in Scopes
  BY DEF Enter, Found, Typed, TypeOK
<1> QED
  BY <1>1 DEF Enter, Typed, TypeOK

LEMMA GroupInit == Init => GroupInv
BY TypeInit DEF Init, Idle, GroupInv, TableInv, FinishedLeaves, Members

LEMMA TableStep == Typed /\ TableInv /\ [Next]_vars => TableInv'
<1> SUFFICES ASSUME Typed, TableInv, [Next]_vars PROVE TableInv'
  OBVIOUS
<1>1. ASSUME NEW id \in Ids, NEW s \in Scopes, Create(id, s) PROVE TableInv'
  <2>1. /\ \A i \in Ids : table'[i] = IF i = id THEN s ELSE table[i]
        /\ \A z \in Scopes : phase'[z] = IF z = s THEN "open" ELSE phase[z]
        /\ ~Exists(s) /\ call' = call
    BY <1>1 DEF Create, Typed, TypeOK
  <2>2. \A i \in Ids : table[i] # s
    BY <2>1 DEF TableInv
  <2>3. \A t \in Tasks : call[t].at = "closing" => call[t].scope # s /\ call[t].scope \in Scopes
    BY <2>1 DEF TableInv, Typed, Targets
  <2> QED
    BY <2>1, <2>2, <2>3 DEF TableInv, Exists, Typed, TypeOK
<1>2. ASSUME NEW t \in Tasks, NEW id \in Ids, Enter(t, id) PROVE TableInv'
  <2>1. \A s \in Scopes : phase'[s] = "new" <=> phase[s] = "new"
    BY <1>2, EnterEffect
  <2>2. ASSUME NEW u \in Tasks, call'[u].at = "closing"
        PROVE  /\ phase'[call'[u].scope] # "new"
               /\ \A j \in Ids : table'[j] = call'[u].scope => j = call'[u].id
    <3>1. CASE u = t
      BY <1>2, <2>1, <3>1, EnterEffect DEF TableInv, Exists, Typed, TypeOK
    <3>2. CASE u # t
      BY <1>2, <2>1, <2>2, <3>2, EnterEffect DEF TableInv, Exists, Typed, Targets
    <3> QED
      BY <3>1, <3>2
  <2>3. table' = table
    BY <1>2, EnterEffect
  <2> QED
    BY <2>1, <2>2, <2>3 DEF TableInv, Exists, Typed, TypeOK
<1>3. CASE CloseAll
  <2>1. \A t \in Tasks : call'[t].at = "closing" => call'[t] = call[t]
    BY <1>3, CloseAllKeeps
  <2> QED
    BY <1>3, <2>1 DEF CloseAll, TableInv, Exists
<1>4. ASSUME NEW t \in Tasks, SpawnedMisses(t) PROVE TableInv'
  BY <1>4, IdleType DEF SpawnedMisses, TableInv, Exists
<1>5. ASSUME NEW t \in Tasks, NEW a \in Answers, Leave(t, a) PROVE TableInv'
  <2>1. \A s \in Scopes : Exists(s) => Exists(s)'
    BY <1>5, LeaveEffect DEF Exists
  <2>2. \A i \in Ids : table'[i] \in {table[i], NoScope}
    BY <1>5, LeaveEffect
  <2>3. \A u \in Tasks : call'[u].at = "closing" => call'[u] = call[u] /\ call[u].scope \in Scopes
    BY <1>5, LeaveEffect DEF Typed, Targets
  <2> QED
    BY <2>1, <2>2, <2>3 DEF TableInv, Typed, TypeOK
<1>6. ASSUME NEW s \in Scopes, CloseApart(s) PROVE TableInv'
  <2>1. \A z \in Scopes : Exists(z) => Exists(z)'
    BY <1>6 DEF CloseApart, Exists, Typed, TypeOK
  <2> QED
    BY <1>6, <2>1 DEF CloseApart, TableInv, Typed, TypeOK, Targets
<1>7. CASE UNCHANGED vars
  BY <1>7 DEF vars, TableInv, Exists
<1> QED
  BY <1>1, <1>2, <1>3, <1>4, <1>5, <1>6, <1>7
  DEF Next, Answers, CloseScope, SpawnedEnters, Typed, Targets

LEMMA FinishedStep == GroupInv /\ [Next]_vars => FinishedLeaves'
<1> SUFFICES ASSUME GroupInv, [Next]_vars,
                    NEW i \in Ids, table'[i] # NoScope, phase'[table'[i]] = "finished"
             PROVE  table'[i] \in apart'
  BY DEF FinishedLeaves, Members
<1>0. Typed /\ TableInv /\ FinishedLeaves
  BY DEF GroupInv
<1>1. ASSUME NEW id \in Ids, NEW s \in Scopes, Create(id, s) PROVE table'[i] \in apart'
  <2>1. table'[i] # s /\ table'[i] = table[i] /\ apart' = apart
    BY <1>0, <1>1 DEF Create, Typed, TypeOK
  <2> QED
    BY <1>0, <1>1, <2>1 DEF Create, FinishedLeaves, Members, Typed, TypeOK
<1>2. ASSUME NEW t \in Tasks, NEW id \in Ids, Enter(t, id) PROVE table'[i] \in apart'
  BY <1>0, <1>2, EnterEffect DEF FinishedLeaves, Members, Typed, TypeOK
<1>3. ASSUME UNCHANGED <<table, phase, apart>> PROVE table'[i] \in apart'
  BY <1>0, <1>3 DEF FinishedLeaves, Members
<1>4. ASSUME NEW t \in Tasks, NEW a \in Answers, Leave(t, a) PROVE table'[i] \in apart'
  <2>1. table'[i] = table[i] /\ table[i] \in Scopes
    BY <1>0, <1>4, LeaveEffect DEF Typed, TypeOK
  <2>2. table[i] # call[t].scope
    BY <1>0, <1>4, <2>1, LeaveEffect DEF TableInv
  <2> QED
    BY <1>0, <1>4, <2>1, <2>2, LeaveEffect DEF FinishedLeaves, Members
<1>5. ASSUME NEW s \in Scopes, CloseApart(s) PROVE table'[i] \in apart'
  <2>1. table'[i] = table[i] /\ apart' = apart \cup {s} /\ table[i] \in Scopes
    BY <1>0, <1>5 DEF CloseApart, Typed, TypeOK
  <2>2. table[i] # s => phase'[table[i]] = phase[table[i]]
    BY <1>0, <1>5, <2>1 DEF CloseApart, Typed, TypeOK
  <2> QED
    BY <1>0, <2>1, <2>2 DEF FinishedLeaves, Members
<1> QED
  BY <1>0, <1>1, <1>2, <1>3, <1>4, <1>5
  DEF Next, Answers, CloseScope, CloseAll, SpawnedEnters, SpawnedMisses, vars, Typed, Targets

LEMMA GroupStep == GroupInv /\ [Next]_vars => GroupInv'
BY TypeStep, TableStep, FinishedStep DEF GroupInv

(* The scope that a close_scope has finished leaves the table with that    *)
(* call, whatever other tasks do under the same or another id.             *)
THEOREM FinishedScopeLeaves == Spec => []FinishedLeaves
<1>1. GroupInv => FinishedLeaves
  BY DEF GroupInv
<1> QED
  BY <1>1, GroupInit, GroupStep, PTL DEF Spec

-----------------------------------------------------------------------------
(* Unfinished scopes                                                       *)

(* Where no id is used twice, a call of close_scope never meets another    *)
(* scope than its own under its id.                                        *)
OwnName ==
    /\ \A i \in Ids : table[i] # NoScope => i \in used
    /\ \A t \in Tasks : call[t].at = "closing" =>
          /\ call[t].id \in used
          /\ table[call[t].id] \in {call[t].scope, NoScope}

ReachInv == Typed /\ OwnName /\ UnfinishedReachable

LEMMA ReachInit == Init => ReachInv
BY TypeInit DEF Init, Idle, ReachInv, OwnName, UnfinishedReachable

LEMMA OwnNameStep == ReuseIds = FALSE /\ Typed /\ OwnName /\ [Next]_vars => OwnName'
<1> SUFFICES ASSUME ReuseIds = FALSE, Typed, OwnName, [Next]_vars PROVE OwnName'
  OBVIOUS
<1>1. ASSUME NEW id \in Ids, NEW s \in Scopes, Create(id, s) PROVE OwnName'
  <2>1. /\ \A i \in Ids : table'[i] = IF i = id THEN s ELSE table[i]
        /\ id \notin used /\ used' = used \cup {id} /\ call' = call
    BY <1>1 DEF Create, Typed, TypeOK
  <2> QED
    BY <2>1 DEF OwnName, Typed, Targets
<1>2. ASSUME NEW t \in Tasks, NEW id \in Ids, Enter(t, id) PROVE OwnName'
  <2>1. id \in used
    BY <1>2, EnterEffect DEF OwnName, Enter, Found
  <2> QED
    BY <1>2, <2>1, EnterEffect DEF OwnName
<1>3. CASE CloseAll
  <2>1. \A t \in Tasks : call'[t].at = "closing" => call'[t] = call[t]
    BY <1>3, CloseAllKeeps
  <2> QED
    BY <1>3, <2>1 DEF CloseAll, OwnName
<1>4. ASSUME NEW t \in Tasks, SpawnedMisses(t) PROVE OwnName'
  BY <1>4, IdleType DEF SpawnedMisses, OwnName
<1>5. ASSUME NEW t \in Tasks, NEW a \in Answers, Leave(t, a) PROVE OwnName'
  <2>1. \A i \in Ids : table'[i] \in {table[i], NoScope}
    BY <1>5, LeaveEffect
  <2>2. \A u \in Tasks : call'[u].at = "closing" => call'[u] = call[u] /\ call[u].id \in Ids
    BY <1>5, LeaveEffect DEF Typed, Targets
  <2>3. used' = used
    BY <1>5, LeaveEffect
  <2> QED
    BY <2>1, <2>2, <2>3 DEF OwnName
<1>6. ASSUME NEW s \in Scopes, CloseApart(s) PROVE OwnName'
  BY <1>6 DEF CloseApart, OwnName
<1>7. CASE UNCHANGED vars
  BY <1>7 DEF vars, OwnName
<1> QED
  BY <1>1, <1>2, <1>3, <1>4, <1>5, <1>6, <1>7
  DEF Next, Answers, CloseScope, SpawnedEnters, Typed, Targets

LEMMA ReachStep == Typed /\ OwnName /\ UnfinishedReachable /\ [Next]_vars
                      => UnfinishedReachable'
<1> SUFFICES ASSUME Typed, OwnName, UnfinishedReachable, [Next]_vars,
                    NEW s \in Scopes, phase'[s] \in {"open", "closing"}
             PROVE  \E i \in Ids : table'[i] = s
  BY DEF UnfinishedReachable
<1>1. ASSUME NEW id \in Ids, NEW z \in Scopes, Create(id, z)
      PROVE  \E i \in Ids : table'[i] = s
  <2>1. /\ \A i \in Ids : table'[i] = IF i = id THEN z ELSE table[i]
        /\ s # z => phase'[s] = phase[s]
        /\ table[id] = NoScope
    BY <1>1 DEF Create, Typed, TypeOK
  <2> QED
    BY <2>1 DEF UnfinishedReachable
<1>2. ASSUME NEW t \in Tasks, NEW id \in Ids, Enter(t, id)
      PROVE  \E i \in Ids : table'[i] = s
  <2>1. phase[s] \in {"open", "closing"}
    BY <1>2, EnterEffect
  <2> QED
    BY <1>2, <2>1, EnterEffect DEF UnfinishedReachable
<1>3. ASSUME UNCHANGED <<table, phase>> PROVE \E i \in Ids : table'[i] = s
  BY <1>3 DEF UnfinishedReachable
<1>4. ASSUME NEW t \in Tasks, NEW a \in Answers, Leave(t, a)
      PROVE  \E i \in Ids : table'[i] = s
  <2>1. phase[s] \in {"open", "closing"}
    BY <1>4, LeaveEffect
  <2>2. PICK i \in Ids : table[i] = s
    BY <2>1 DEF UnfinishedReachable
  <2>3. CASE phase'[call[t].scope] = "finished"
    <3>1. s # call[t].scope
      BY <2>3
    <3>2. i # call[t].id
      BY <1>4, <2>2, <3>1, LeaveEffect DEF OwnName
    <3> QED
      BY <1>4, <2>2, <3>2, LeaveEffect
  <2>4. CASE phase'[call[t].scope] # "finished"
    BY <1>4, <2>2, <2>4, LeaveEffect
  <2> QED
    BY <2>3, <2>4
<1>5. ASSUME NEW z \in Scopes, CloseApart(z) PROVE \E i \in Ids : table'[i] = s
  <2>1. phase[s] \in {"open", "closing"} /\ table' = table
    BY <1>5 DEF CloseApart, Typed, TypeOK
  <2> QED
    BY <2>1 DEF UnfinishedReachable
<1> QED
  BY <1>1, <1>2, <1>3, <1>4, <1>5
  DEF Next, Answers, CloseScope, CloseAll, SpawnedEnters, SpawnedMisses, vars, Typed, Targets

LEMMA ReachInvStep == ReuseIds = FALSE /\ ReachInv /\ [Next]_vars => ReachInv'
BY TypeStep, OwnNameStep, ReachStep DEF ReachInv

(* Where an id is given to one scope only, every scope with work left is   *)
(* in the table, for any number of closing tasks, cancelled ones included. *)
(* (With ids that are used again the property fails: the table may lose    *)
(* the new scope to the old one's close.)                                  *)
THEOREM UnfinishedStay ==
    ASSUME ReuseIds = FALSE
    PROVE  Spec => []UnfinishedReachable
<1>1. ReachInv => UnfinishedReachable
  BY DEF ReachInv
<1>2. ReachInv /\ [Next]_vars => ReachInv'
  BY ReachInvStep
<1> QED
  BY <1>1, <1>2, ReachInit, PTL DEF Spec
=============================================================================
