--------------------------- MODULE ScopeLifetime ---------------------------
(***************************************************************************)
(* What EventScope.close promises its callers, without lock, resources and *)
(* loop: the first call ends the input of the scope, the scope is finished *)
(* by one of the calls, at the moment it comes back, and for good; a call  *)
(* that reports completion leaves a finished scope behind.                 *)
(***************************************************************************)
CONSTANT Closers

VARIABLES
    phase,     \* "open", "closing" (input has ended) or "finished"
    inside,    \* closers that are in a call
    answer     \* what the last call of each closer came to

lifeVars == <<phase, inside, answer>>

Answers == {"complete", "incomplete", "error", "cancelled"}

LifetimeInit ==
    /\ phase = "open" /\ inside = {}
    /\ answer = [c \in Closers |-> "none"]

Enter(c) ==
    /\ c \notin inside /\ phase # "finished"
    /\ phase' = "closing"
    /\ inside' = inside \cup {c}
    /\ UNCHANGED answer

(* A call that finds the scope finished may also come back at once.        *)
Leave(c) ==
    /\ c \in inside \/ phase = "finished"
    /\ inside' = inside \ {c}
    /\ phase' \in {phase, "finished"}
    /\ \E a \in Answers :
          /\ answer' = [answer EXCEPT ![c] = a]
          /\ a = "complete" => phase' = "finished"
          /\ phase' # phase => a \in {"complete", "error"}

(* A call that has to wait for others finds the scope finished later.      *)
Join(c) ==
    /\ c \notin inside /\ phase = "finished"
    /\ inside' = inside \cup {c}
    /\ UNCHANGED <<phase, answer>>

LifetimeNext == \E c \in Closers : Enter(c) \/ Leave(c) \/ Join(c)

Spec == LifetimeInit /\ [][LifetimeNext]_lifeVars
=============================================================================
