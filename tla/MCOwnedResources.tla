-------------------------- MODULE MCOwnedResources --------------------------
(* Small instances of OwnedResources for TLC: a watchdog attached to one   *)
(* place with a bridge of its own and, again, without; a bridge and a      *)
(* waiter of the same scope; and an attachment in another scope.           *)
EXTENDS OwnedResources, TLC

CONSTANTS s1, s2, k1, k2, b1, b2, a1, a2, a3, w1, w2

Homes    == [r \in Resources |-> IF r \in {a3, w2} THEN s2 ELSE s1]
Bound    == (b1 :> k1) @@ (b2 :> AnySession) @@ (a1 :> k1) @@ (a2 :> k1) @@ (a3 :> k1)
Carriers == (a1 :> b1) @@ (a2 :> NoBridge) @@ (a3 :> NoBridge)
=============================================================================
