---------------------------- MODULE MCScopeClose ----------------------------
(* Small instances of ScopeClose for TLC.                                  *)
EXTENDS ScopeClose, TLC

CONSTANTS c1, c2, c3, r1, r2

Alike == Permutations({c1, c2, c3}) \cup Permutations({r1, r2})
=============================================================================
