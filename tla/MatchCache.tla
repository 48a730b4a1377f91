----------------------------- MODULE MatchCache -----------------------------
(***************************************************************************)
(* The connections of scopes and the two caches in front of them           *)
(* (agent_cdp/scope/scope.py, agent_cdp/connection/connection.py).         *)
(*                                                                         *)
(* A scope lists its connections by the event type they listen to.  The    *)
(* connections an event matches are those of the types in its method       *)
(* resolution order and the catch-all ones, by falling priority.  That     *)
(* answer is remembered per event type with the number of the scope's      *)
(* latest change; types nothing matched are remembered in a set of their   *)
(* own.  This module has the storage, the caches and the operations on     *)
(* them; module EmitDispatch calls them.                                   *)
(*                                                                         *)
(* Storage and caches are sets here.  Their order decides only which of    *)
(* the receivers of an event goes first, and is worked out where they are  *)
(* called (Arranged): connections of one list that have one priority may   *)
(* go in any order, where the code keeps that of their creation.           *)
(***************************************************************************)
EXTENDS Integers, FiniteSets, SequencesExt

CONSTANTS
    Scopes,       \* event scopes
    Conns,        \* the connections one behaviour may create
    Types,        \* event types
    CatchAll,     \* what a connection of connect_all listens to
    Source,       \* the scope a connection listens on
    Target,       \* the scope its handler belongs to, or NoScope
    ListensTo,    \* its event type, or CatchAll
    Priority,     \* its priority
    MRO,          \* the resolution order of an event type
    NoScope

ASSUME MatchAssumption ==
    /\ CatchAll \notin Types /\ NoScope \notin Scopes
    /\ IsFiniteSet(Conns)
    /\ Source \in [Conns -> Scopes]
    /\ Target \in [Conns -> Scopes \cup {NoScope}]
    /\ ListensTo \in [Conns -> Types \cup {CatchAll}]
    /\ Priority \in [Conns -> Nat]
    /\ MRO \in [Types -> Seq(Types)]

VARIABLES
    created,      \* the connections that exist
    active,       \* the connections whose _active is true
    listed,       \* _connections_by_type and _catch_all_connections
    incoming,     \* _incoming
    version,      \* _connection_version
    negVersion,   \* _negative_cache_version
    negative,     \* _negative_cache
    remembered    \* _match_cache

storeVars == <<created, active, listed, incoming>>
cacheVars == <<negVersion, negative, remembered>>
matchVars == <<storeVars, version, cacheVars>>

-----------------------------------------------------------------------------
(* What a connection can be listed under.                                  *)
Keys == Types \cup {CatchAll}

Nothing == [version |-> -1, conns |-> {}]

MatchInit ==
    /\ created = {} /\ active = {}
    /\ listed = [s \in Scopes |-> [k \in Keys |-> {}]]
    /\ incoming = [s \in Scopes |-> {}]
    /\ version = [s \in Scopes |-> 0]
    /\ negVersion = [s \in Scopes |-> 0]
    /\ negative = [s \in Scopes |-> {}]
    /\ remembered = [s \in Scopes |-> [t \in Types |-> Nothing]]

(* What the storage says matches events of type t on scope s.              *)
Matches(lists, t) ==
    lists[CatchAll] \cup UNION {lists[MRO[t][i]] : i \in DOMAIN MRO[t]}
Matching(s, t) == Matches(listed[s], t)

-----------------------------------------------------------------------------
(* Looking the connections up: an answer from one of the caches counts if  *)
(* it has the number of the latest change.  A miss is answered from the    *)
(* storage and remembered.                                                 *)
Fresh(s)       == negVersion[s] = version[s]
NegHit(s, t)   == Fresh(s) /\ t \in negative[s]
PosHit(s, t)   == ~NegHit(s, t) /\ remembered[s][t].version = version[s]

LookUp(s, t) ==
    IF NegHit(s, t) THEN {}
    ELSE IF PosHit(s, t) THEN remembered[s][t].conns ELSE Matching(s, t)

Answer(s, t) == LookUp(s, t) \cap active

Kept(s) == IF Fresh(s) THEN negative[s] ELSE {}

Remember(s, t) ==
    LET miss == ~NegHit(s, t) /\ ~PosHit(s, t)
        none == Matching(s, t) = {}
    IN /\ negVersion' = [negVersion EXCEPT ![s] = version[s]]
       /\ negative' = [negative EXCEPT ![s] =
              Kept(s) \cup (IF miss /\ none THEN {t} ELSE {})]
       /\ remembered' = IF miss /\ ~none
                        THEN [remembered EXCEPT ![s][t] =
                                 [version |-> version[s], conns |-> Matching(s, t)]]
                        ELSE remembered

(* The order of an answer is that of a stable sort by falling priority of  *)
(* the lists in resolution order, the catch-all one last.                  *)
Rank(t, c) == IF ListensTo[c] = CatchAll THEN Len(MRO[t]) + 1
              ELSE CHOOSE i \in DOMAIN MRO[t] : MRO[t][i] = ListensTo[c]

Precedes(t, c, d) == \/ Priority[c] > Priority[d]
                     \/ Priority[c] = Priority[d] /\ Rank(t, c) < Rank(t, d)

Arranged(t, S) ==
    {q \in SetToSeqs(S) : \A i, j \in DOMAIN q : i < j => ~Precedes(t, q[j], q[i])}

-----------------------------------------------------------------------------
(* Every change of a scope's connections moves its number on.              *)
(* Variant: a new connection does not.                                     *)
BumpedOnRemoval(s, change) == IF change = "disconnect" THEN version[s] + 1 ELSE version[s]
Bumped(s, change) == version[s] + 1

Targeting(c) == Target[c] # NoScope

AddConnection(c) ==
    LET s == Source[c]  k == ListensTo[c]
    IN /\ created' = created \cup {c} /\ active' = active \cup {c}
       /\ listed' = [listed EXCEPT ![s][k] = @ \cup {c}]
       /\ version' = [version EXCEPT ![s] = Bumped(s, "connect")]
       /\ incoming' = IF Targeting(c)
                      THEN [incoming EXCEPT ![Target[c]] = @ \cup {c}] ELSE incoming
       /\ UNCHANGED cacheVars

(* Disconnecting a set of connections, in any order: each leaves the list  *)
(* of its source and the incoming connections of its target, and the       *)
(* source forgets its positive answers.  One number stands for the         *)
(* numbers of all of them, as nothing looks in between.                    *)
Touched(cs) == {Source[c] : c \in cs}

Forgotten(cs) == [s \in Scopes |-> IF s \in Touched(cs)
                                   THEN [t \in Types |-> Nothing] ELSE remembered[s]]

RemoveConnections(cs) ==
    /\ active' = active \ cs
    /\ listed' = [s \in Scopes |-> IF s \in Touched(cs)
           THEN [k \in Keys |-> listed[s][k] \ cs] ELSE listed[s]]
    /\ incoming' = [s \in Scopes |-> incoming[s] \ cs]
    /\ version' = [s \in Scopes |-> IF s \in Touched(cs)
                                    THEN Bumped(s, "disconnect") ELSE version[s]]
    /\ UNCHANGED created

-----------------------------------------------------------------------------
(* The storage and the caches have their types.                            *)
MatchTypeOK ==
    /\ created \subseteq Conns /\ active \subseteq created
    /\ listed \in [Scopes -> [Keys -> SUBSET Conns]]
    /\ incoming \in [Scopes -> SUBSET Conns]
    /\ version \in [Scopes -> Nat] /\ negVersion \in [Scopes -> Nat]
    /\ negative \in [Scopes -> SUBSET Types]
    /\ remembered \in [Scopes -> [Types -> [version : Nat \cup {-1}, conns : SUBSET Conns]]]
=============================================================================
