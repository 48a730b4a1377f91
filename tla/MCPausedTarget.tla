--------------------------- MODULE MCPausedTarget ---------------------------
(* Small instances of PausedTarget for TLC.                                *)
EXTENDS PausedTarget, TLC

CONSTANTS c1, c2, c3

Alike == Permutations({c1, c2, c3})
=============================================================================
