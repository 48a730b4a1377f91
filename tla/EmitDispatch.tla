---------------------------- MODULE EmitDispatch ----------------------------
(***************************************************************************)
(* EventScope.emit (agent_cdp/scope/scope.py): a synchronous dispatch loop *)
(* over the connections an event matches.  DIRECT receivers are called in  *)
(* place, and may connect, disconnect, consume, cancel or emit again while *)
(* the loop above them is half way; the others are handed to the event     *)
(* loop of their scope, which may refuse them.  Whatever ends the loop     *)
(* early, a receiver that raises or one that consumes the event, every     *)
(* receiver that was selected is accounted for.                            *)
(*                                                                         *)
(* Scopes share one thread: a scope can begin to close, and event loops    *)
(* make progress, only while no emit is under way.  The event loop is seen *)
(* from outside (module ScopeEventLoop has its inside).  What emit refuses *)
(* before it does anything (a closed scope, too deep a nesting, a missing  *)
(* receiver) changes nothing here.                                         *)
(***************************************************************************)
EXTENDS MatchCache

CONSTANTS
    Events,       \* event instances
    TypeOf,       \* the type of an event
    FailFast,     \* the types with emit_policy FAIL_FAST
    NonDroppable, \* the events with non_droppable set
    Direct,       \* the connections resolved to DIRECT
    Filtered,     \* the connections that have a filter
    MaxDepth,     \* _MAX_DIRECT_DEPTH
    EmittedOn     \* bound: the scopes an event is emitted on

ASSUME EmitAssumption ==
    /\ TypeOf \in [Events -> Types]
    /\ FailFast \subseteq Types /\ NonDroppable \subseteq Events
    /\ Direct \subseteq Conns /\ Filtered \subseteq Conns
    /\ MaxDepth \in Nat
    /\ EmittedOn \in [Events -> SUBSET Scopes]

VARIABLES
    stopped,      \* the scopes whose _closed is set
    finished,     \* the scopes whose _is_closed is set
    stack,        \* the emits under way, the innermost last
    record,       \* the status of each delivery in event_results
    inLoop,       \* the deliveries an event loop has accepted and not settled
    consumed      \* the events with consumed set

runVars  == <<stopped, finished>>
factVars == <<record, inLoop>>
vars == <<matchVars, runVars, stack, factVars, consumed>>

-----------------------------------------------------------------------------
(* The status of a delivery.  Whether it was completed, failed or was      *)
(* cancelled makes no difference here; that its event loop was full does.  *)
Final == {"settled", "rejected"}
Statuses == {"none", "pending", "queued", "running"} \cup Final

(* One emit: its event, the receivers it has selected, how many of them    *)
(* have been dispatched, whether one was refused, whether one has raised,  *)
(* and whether it is in the loop, inside a DIRECT receiver, leaving the    *)
(* loop, or back at its caller.                                            *)
Frames == [ev : Events, conns : Seq(Conns), done : Nat,
           rejected : BOOLEAN, raised : BOOLEAN,
           at : {"loop", "calling", "leaving", "returned", "raised"}]

Top   == stack[Len(stack)]
Idle  == stack = <<>>
(* User code runs inside the innermost DIRECT receiver, or on its own.     *)
UserRuns == ~Idle => Top.at = "calling"
SetTop(f) == stack' = [stack EXCEPT ![Len(stack)] = f]

HomeOf(c) == IF Targeting(c) THEN Target[c] ELSE Source[c]

Init ==
    /\ MatchInit
    /\ stopped = {} /\ finished = {}
    /\ stack = <<>>
    /\ record = [e \in Events |-> [c \in Conns |-> "none"]]
    /\ inLoop = [e \in Events |-> {}]
    /\ consumed = {}

-----------------------------------------------------------------------------
(* A connection is refused when either end has begun to close.             *)
(* Variant: only the source is asked.                                      *)
OpenSource(c) == Source[c] \notin stopped
OpenEnds(c) == Source[c] \notin stopped /\ (Targeting(c) => Target[c] \notin stopped)

Connect(c) ==
    /\ UserRuns
    /\ c \notin created
    /\ OpenEnds(c)
    /\ AddConnection(c)
    /\ UNCHANGED <<runVars, stack, factVars, consumed>>

Disconnect(c) ==
    /\ UserRuns
    /\ c \in active
    /\ RemoveConnections({c})
    /\ remembered' = Forgotten({c})
    /\ UNCHANGED <<negVersion, negative, runVars, stack, factVars, consumed>>

Consume(e) ==
    /\ UserRuns
    /\ e \notin consumed
    /\ consumed' = consumed \cup {e}
    /\ UNCHANGED <<matchVars, runVars, stack, factVars>>

-----------------------------------------------------------------------------
(* The receivers of an event: matching, with a target that takes input,    *)
(* and let through by their filter, which may answer anything or raise.    *)
Reachable(c) == ~Targeting(c) \/ Target[c] \notin stopped
Selected(s, e, passed) ==
    {c \in Answer(s, TypeOf[e]) : Reachable(c) /\ (c \notin Filtered \/ c \in passed)}

Repeated(e, S) == \E c \in S : record[e][c] # "none"

Prepared(e, S) ==
    [c \in Conns |-> IF c \in S
                     THEN (IF c \in Direct THEN "pending" ELSE "queued")
                     ELSE record[e][c]]

(* An event that already has a delivery for a receiver is refused with a   *)
(* ValueError; otherwise every receiver gets its record before the first   *)
(* is dispatched.                                                          *)
Emit(s, e) ==
    /\ UserRuns
    /\ s \in EmittedOn[e]
    /\ s \notin stopped
    /\ Len(stack) < MaxDepth
    /\ Remember(s, TypeOf[e])
    /\ \E passed \in SUBSET (Filtered \cap active) :
         LET S == Selected(s, e, passed)
         IN \/ /\ Repeated(e, S)
               /\ UNCHANGED <<stack, record>>
            \/ /\ ~Repeated(e, S)
               /\ record' = [record EXCEPT ![e] = Prepared(e, S)]
               /\ \E q \in Arranged(TypeOf[e], S) :
                    stack' = Append(stack,
                      [ev |-> e, conns |-> q, done |-> 0, rejected |-> FALSE,
                       at |-> "loop", raised |-> FALSE])
    /\ UNCHANGED <<storeVars, version, runVars, inLoop, consumed>>

-----------------------------------------------------------------------------
(* The dispatch loop.                                                      *)
Dispatching == ~Idle /\ Top.at = "loop" /\ Top.done < Len(Top.conns)
Current     == Top.conns[Top.done + 1]

CallDirect ==
    /\ Dispatching
    /\ Current \in Direct
    /\ record' = [record EXCEPT ![Top.ev][Current] = "running"]
    /\ SetTop([Top EXCEPT !.at = "calling"])
    /\ UNCHANGED <<matchVars, runVars, inLoop, consumed>>

(* What follows a dispatch: an event that has been consumed goes no        *)
(* further.                                                                *)
Onward(f) ==
    [f EXCEPT !.done = @ + 1, !.at = IF f.ev \in consumed THEN "leaving" ELSE "loop"]

(* A DIRECT receiver returns a value, or raises (as does one that returns  *)
(* an awaitable); under FAIL_FAST the error leaves the loop.               *)
DirectReturns ==
    /\ ~Idle /\ Top.at = "calling"
    /\ record' = [record EXCEPT ![Top.ev][Current] = "settled"]
    /\ \/ SetTop(Onward(Top))
       \/ /\ TypeOf[Top.ev] \in FailFast
          /\ SetTop([Top EXCEPT !.done = @ + 1, !.at = "leaving", !.raised = TRUE])
    /\ UNCHANGED <<matchVars, runVars, inLoop, consumed>>

(* A queued receiver goes to the event loop of its scope, which takes it   *)
(* or is full.  A refusal is remembered to the end of the loop.            *)
(* Variant: what remains is how the last one went.                         *)
RefusedLast(before, now) == now
RefusedAny(before, now) == before \/ now

Enqueue ==
    /\ Dispatching
    /\ Current \notin Direct
    /\ \E full \in BOOLEAN :
         /\ IF full
            THEN /\ record' = [record EXCEPT ![Top.ev][Current] = "rejected"]
                 /\ UNCHANGED inLoop
            ELSE /\ inLoop' = [inLoop EXCEPT ![Top.ev] = @ \cup {Current}]
                 /\ UNCHANGED record
         /\ SetTop(Onward([Top EXCEPT !.rejected = RefusedAny(@, full)]))
    /\ UNCHANGED <<matchVars, runVars, consumed>>

(* The finally clause: the receivers the loop has not come to are settled. *)
(* Variant: there are none after an error.                                 *)
SkippedUnlessRaised(f) ==
    IF f.raised THEN {} ELSE {f.conns[i] : i \in f.done + 1 .. Len(f.conns)}
Skipped(f) == {f.conns[i] : i \in f.done + 1 .. Len(f.conns)}

Raises(f) == f.raised \/ (f.rejected /\ f.ev \in NonDroppable)

Leave ==
    /\ ~Idle
    /\ Top.at = "leaving" \/ (Top.at = "loop" /\ Top.done = Len(Top.conns))
    /\ record' = [record EXCEPT ![Top.ev] =
           [c \in Conns |-> IF c \in Skipped(Top) /\ @[c] \notin Final
                            THEN "settled" ELSE @[c]]]
    /\ SetTop([Top EXCEPT !.at = IF Raises(Top) THEN "raised" ELSE "returned"])
    /\ UNCHANGED <<matchVars, runVars, inLoop, consumed>>

Back ==
    /\ ~Idle
    /\ Top.at \in {"returned", "raised"}
    /\ stack' = Front(stack)
    /\ UNCHANGED <<matchVars, runVars, factVars, consumed>>

-----------------------------------------------------------------------------
(* The deliveries the event loops hold.  cancel_execution settles the      *)
(* waiting ones; it only asks the running ones to end, as they may at any  *)
(* time.                                                                   *)
Withdrawn(e) == {c \in inLoop[e] : record[e][c] = "queued"}

CancelExecution(e) ==
    /\ UserRuns
    /\ Withdrawn(e) # {}
    /\ record' = [record EXCEPT ![e] =
           [c \in Conns |-> IF c \in Withdrawn(e) THEN "settled" ELSE @[c]]]
    /\ inLoop' = [inLoop EXCEPT ![e] = @ \ Withdrawn(e)]
    /\ UNCHANGED <<matchVars, runVars, stack, consumed>>

LoopStarts(e, c) ==
    /\ Idle
    /\ c \in inLoop[e] /\ record[e][c] = "queued"
    /\ record' = [record EXCEPT ![e][c] = "running"]
    /\ UNCHANGED <<matchVars, runVars, stack, inLoop, consumed>>

LoopSettles(e, c) ==
    /\ Idle
    /\ c \in inLoop[e]
    /\ record' = [record EXCEPT ![e][c] = "settled"]
    /\ inLoop' = [inLoop EXCEPT ![e] = @ \ {c}]
    /\ UNCHANGED <<matchVars, runVars, stack, consumed>>

-----------------------------------------------------------------------------
(* close stops the input of a scope, and when its event loop has nothing   *)
(* left it disconnects what is left of its connections, at both ends.      *)
BeginClose(s) ==
    /\ Idle
    /\ s \notin stopped
    /\ stopped' = stopped \cup {s}
    /\ UNCHANGED <<matchVars, finished, stack, factVars, consumed>>

LoopEmpty(s) == \A e \in Events : \A c \in inLoop[e] : HomeOf(c) # s

LinkedTo(s) == incoming[s] \cup UNION {listed[s][k] : k \in Keys}

FinishClose(s) ==
    /\ Idle
    /\ s \in stopped \ finished
    /\ LoopEmpty(s)
    /\ RemoveConnections(LinkedTo(s))
    /\ remembered' = [Forgotten(LinkedTo(s)) EXCEPT ![s] = [t \in Types |-> Nothing]]
    /\ negative' = [negative EXCEPT ![s] = {}]
    /\ finished' = finished \cup {s}
    /\ UNCHANGED <<negVersion, stopped, stack, factVars, consumed>>

-----------------------------------------------------------------------------
User ==
    \/ \E c \in Conns : Connect(c) \/ Disconnect(c)
    \/ \E e \in Events : Consume(e) \/ CancelExecution(e)
    \/ \E s \in Scopes, e \in Events : Emit(s, e)

Loops == \E e \in Events, c \in Conns : LoopStarts(e, c) \/ LoopSettles(e, c)

Close == \E s \in Scopes : BeginClose(s) \/ FinishClose(s)

Next == User \/ CallDirect \/ DirectReturns \/ Enqueue \/ Leave \/ Back \/ Loops \/ Close

Spec == Init /\ [][Next]_vars

-----------------------------------------------------------------------------
(* Every variable has its type, and emits nest no deeper than MaxDepth.    *)
TypeOK ==
    /\ MatchTypeOK
    /\ stopped \subseteq Scopes /\ finished \subseteq stopped
    /\ stack \in Seq(Frames) /\ Len(stack) <= MaxDepth
    /\ record \in [Events -> [Conns -> Statuses]]
    /\ inLoop \in [Events -> SUBSET Conns]
    /\ consumed \subseteq Events

(* Every look-up, from either cache or none, finds what the storage says   *)
(* at that moment, however connects, disconnects, closes and other         *)
(* look-ups came before it.                                                *)
CacheCurrent == \A s \in Scopes, t \in Types : LookUp(s, t) = Matching(s, t)

(* A delivery without a final status is held by exactly one dispatch loop  *)
(* that has not come past it or, once accepted, by an event loop: none is  *)
(* lost when a receiver raises, consumes the event, disconnects another,   *)
(* or emits the same event again.                                          *)
Holders(e, c) ==
    {i \in DOMAIN stack : /\ stack[i].ev = e
                          /\ stack[i].at \notin {"returned", "raised"}
                          /\ \E j \in stack[i].done + 1 .. Len(stack[i].conns) :
                                stack[i].conns[j] = c}

ReceiversAccounted ==
    \A e \in Events, c \in Conns :
      IF record[e][c] \in Final \cup {"none"}
      THEN c \notin inLoop[e] /\ Holders(e, c) = {}
      ELSE Cardinality(Holders(e, c)) + (IF c \in inLoop[e] THEN 1 ELSE 0) = 1

(* An emit of a non-droppable event that returns has had none of its       *)
(* deliveries refused, whatever the ones after the refusal did.            *)
NoSilentDrop ==
    \A i \in DOMAIN stack :
      (stack[i].at = "returned" /\ stack[i].ev \in NonDroppable)
        => \A c \in ToSet(stack[i].conns) : record[stack[i].ev][c] # "rejected"

(* A scope that has finished closing is linked to nothing: no list names a *)
(* connection of it and no active connection starts or ends there.         *)
FinishedUnlinked ==
    \A s \in finished :
      /\ LinkedTo(s) = {}
      /\ \A c \in active : Source[c] # s /\ Target[c] # s
=============================================================================
