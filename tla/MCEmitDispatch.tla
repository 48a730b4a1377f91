--------------------------- MODULE MCEmitDispatch ---------------------------
(* A small instance of EmitDispatch for TLC: a type and its subtype, three *)
(* receivers on one scope, one of them queued to another scope.            *)
EXTENDS EmitDispatch

CONSTANTS s1, s2, c1, c2, c3, base, sub, e1, e2

Homes      == c1 :> s1 @@ c2 :> s1 @@ c3 :> s1
Ends       == c1 :> NoScope @@ c2 :> s2 @@ c3 :> s2
Listens    == c1 :> base @@ c2 :> sub @@ c3 :> CatchAll
Priorities == c1 :> 1 @@ c2 :> 1 @@ c3 :> 0
Orders     == base :> <<base>> @@ sub :> <<sub, base>>
TypesOf    == e1 :> sub @@ e2 :> base
Places     == e1 :> {s1} @@ e2 :> {s1}
=============================================================================
