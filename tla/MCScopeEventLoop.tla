-------------------------- MODULE MCScopeEventLoop --------------------------
(* Small instances of ScopeEventLoop for TLC.                              *)
EXTENDS ScopeEventLoop, TLC

CONSTANTS d1, d2, d3, e1, e2, f1, f2

(* One event with two receivers, and another one.                          *)
EventsOfThree == d1 :> e1 @@ d2 :> e1 @@ d3 :> e2
EventsOfTwo   == d1 :> e1 @@ d2 :> e2
OneEventOfTwo == d1 :> e1 @@ d2 :> e1

(* The receivers of one event, and the tasks that flush, are alike.        *)
Alike == Permutations({d1, d2}) \cup Permutations({f1, f2})
=============================================================================
