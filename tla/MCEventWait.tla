----------------------------- MODULE MCEventWait -----------------------------
(* A small instance of EventWait for TLC: two scopes and two events, each  *)
(* with a receiver on either; the first has a contract and is waited for   *)
(* with wait_for = 'required'.                                             *)
EXTENDS EventWait, TLC

CONSTANTS s1, s2, d1, d2, d3, d4, e1, e2, inside, across, child

EventsOf == d1 :> e1 @@ d3 :> e1 @@ d2 :> e2 @@ d4 :> e2
ScopesOf == d1 :> s1 @@ d3 :> s2 @@ d2 :> s2 @@ d4 :> s1
NamedOf  == e1 :> {} @@ e2 :> {}
Minima   == e1 :> 1 @@ e2 :> 0

(* A wait in a handler of each scope, the first one unlimited, and one in  *)
(* a task the first handler has created.                                   *)
Hosts    == inside :> d1 @@ across :> d2 @@ child :> d1
=============================================================================
