----------------------------- MODULE ScopeGroup -----------------------------
(***************************************************************************)
(* ScopeGroup (agent_cdp/scope/group.py): a table of scopes by name, and   *)
(* tasks that create, close and close all.  A scope is what ScopeLifetime  *)
(* promises: it finishes while one of its callers comes back from close.   *)
(* broadcast and connect_all_scopes do not change the table.               *)
(***************************************************************************)
EXTENDS FiniteSets

CONSTANTS
    Ids,         \* scope_id
    Scopes,      \* EventScope instances, in the order they may be created
    Tasks,       \* tasks that call close_scope, those of close_all included
    NoScope,     \* the table has no scope under this id
    ReuseIds     \* an id may be used again after its scope has gone

ASSUME GroupAssumption ==
    /\ NoScope \notin Scopes
    /\ ReuseIds \in BOOLEAN

VARIABLES
    table,       \* _scopes
    phase,       \* ScopeLifetime's phase of each scope, "new" before it exists
    call,        \* where each task is in close_scope
    used,        \* history: ids that have had a scope
    apart        \* history: scopes closed without the group

vars == <<table, phase, call, used, apart>>

Idle == [at |-> "idle", id |-> NoScope, scope |-> NoScope]
Exists(s) == phase[s] # "new"
Members == {id \in Ids : table[id] # NoScope}

Init ==
    /\ table = [id \in Ids |-> NoScope]
    /\ phase = [s \in Scopes |-> "new"]
    /\ call = [t \in Tasks |-> Idle]
    /\ used = {} /\ apart = {}

(* start() of a fresh scope never suspends: test and insertion are one     *)
(* step.                                                                   *)
Create(id, s) ==
    /\ table[id] = NoScope /\ ~Exists(s)
    /\ ReuseIds \/ id \notin used
    /\ table' = [table EXCEPT ![id] = s]
    /\ phase' = [phase EXCEPT ![s] = "open"]
    /\ used' = used \cup {id}
    /\ UNCHANGED <<call, apart>>

Found(id) == table[id] # NoScope

(* get_scope and the start of scope.close.                                 *)
Enter(t, id) ==
    LET s == table[id]
    IN /\ Found(id)
       /\ phase' = [phase EXCEPT ![s] = IF @ = "open" THEN "closing" ELSE @]
       /\ call' = [call EXCEPT ![t] = [at |-> "closing", id |-> id, scope |-> s]]
       /\ UNCHANGED <<table, used, apart>>

CloseScope(t, id) == call[t].at = "idle" /\ Enter(t, id)

(* close_all reads the ids now; gather's tasks look the scopes up when     *)
(* they run.                                                               *)
CloseAll ==
    /\ Members # {}
    /\ \E by \in [Members -> {t \in Tasks : call[t].at = "idle"}] :
          /\ \A i, j \in Members : by[i] = by[j] => i = j
          /\ call' = [t \in Tasks |->
                IF \E id \in Members : by[id] = t
                THEN [at |-> "spawned", scope |-> NoScope,
                      id |-> CHOOSE id \in Members : by[id] = t]
                ELSE call[t]]
    /\ UNCHANGED <<table, phase, used, apart>>

SpawnedEnters(t) == call[t].at = "spawned" /\ Enter(t, call[t].id)

(* Somebody else has removed the scope: KeyError.                          *)
SpawnedMisses(t) ==
    /\ call[t].at = "spawned" /\ table[call[t].id] = NoScope
    /\ call' = [call EXCEPT ![t] = Idle]
    /\ UNCHANGED <<table, phase, used, apart>>

(* The finally clause of close_scope.                                      *)
(* Variant: without finally, after a call that returns.                    *)
(* Second variant: whatever has become of the scope.                       *)
PopOnReturn(t, answer) == answer = "complete"
PopAlways(t, answer) == TRUE
Pop(t, answer) == phase'[call[t].scope] = "finished"

(* close comes back, with a result or an exception, having finished the    *)
(* scope or not, and close_scope removes the name.                         *)
Leave(t, answer) ==
    LET s == call[t].scope
    IN /\ call[t].at = "closing"
       /\ \E p \in {phase[s], "finished"} :
             /\ answer = "complete" => p = "finished"
             /\ p # phase[s] => answer \in {"complete", "error"}
             /\ phase' = [phase EXCEPT ![s] = p]
       /\ table' = IF Pop(t, answer) THEN [table EXCEPT ![call[t].id] = NoScope] ELSE table
       /\ call' = [call EXCEPT ![t] = Idle]
       /\ UNCHANGED <<used, apart>>

(* The owner of a scope closes it directly: the group is not told.         *)
CloseApart(s) ==
    /\ phase[s] \in {"open", "closing"}
    /\ \E p \in {"closing", "finished"} : phase' = [phase EXCEPT ![s] = p]
    /\ apart' = apart \cup {s}
    /\ UNCHANGED <<table, call, used>>

Next ==
    \/ \E id \in Ids, s \in Scopes : Create(id, s)
    \/ \E t \in Tasks, id \in Ids : CloseScope(t, id)
    \/ CloseAll
    \/ \E t \in Tasks : SpawnedEnters(t) \/ SpawnedMisses(t)
    \/ \E t \in Tasks, a \in {"complete", "incomplete", "error", "cancelled"} : Leave(t, a)
    \/ \E s \in Scopes : CloseApart(s)

Spec == Init /\ [][Next]_vars

-----------------------------------------------------------------------------
(* Properties                                                              *)

(* Every variable has its type, and a task in close has a scope to close.  *)
TypeOK ==
    /\ table \in [Ids -> Scopes \cup {NoScope}]
    /\ phase \in [Scopes -> {"new", "open", "closing", "finished"}]
    /\ call \in [Tasks -> [at : {"idle", "spawned", "closing"},
                           id : Ids \cup {NoScope}, scope : Scopes \cup {NoScope}]]
    /\ \A t \in Tasks : call[t].at = "closing" => call[t].scope # NoScope
    /\ used \subseteq Ids /\ apart \subseteq Scopes

(* "Remove a scope only after all its supervised work has actually ended"  *)
(* (group.py:56): until a scope has finished, the group has it under its   *)
(* name, so that a later close_scope or close_all can finish it.           *)
UnfinishedReachable ==
    \A s \in Scopes : phase[s] \in {"open", "closing"} => \E id \in Ids : table[id] = s

(* A scope that has finished leaves the table with the call that finished  *)
(* it, even if that call raised the errors of a cleanup; only a scope      *)
(* closed behind the group's back keeps its name.                          *)
FinishedLeaves ==
    \A id \in Members : phase[table[id]] = "finished" => table[id] \in apart
=============================================================================
