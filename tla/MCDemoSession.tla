---------------------------- MODULE MCDemoSession ----------------------------
(* The programs of the demos for TLC: three tabs, two tasks.               *)
EXTENDS DemoSession

AllCallers == {"main"} \cup Workers
=============================================================================
