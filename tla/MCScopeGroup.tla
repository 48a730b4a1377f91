---------------------------- MODULE MCScopeGroup ----------------------------
(* Small instances of ScopeGroup for TLC.                                  *)
EXTENDS ScopeGroup, TLC

CONSTANTS i1, i2, s1, s2, s3, t1, t2, t3

Alike == Permutations({i1, i2}) \cup Permutations({s1, s2, s3})
         \cup Permutations({t1, t2, t3})
=============================================================================
