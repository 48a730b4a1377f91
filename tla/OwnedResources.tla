--------------------------- MODULE OwnedResources ---------------------------
(***************************************************************************)
(* What is bound to a scope and released with it: bridges that listen to   *)
(* the CDP client (agent_cdp/bridge.py), waiters made by expect            *)
(* (advanced/expect.py) and the attachments of a watchdog                  *)
(* (_watchdog_registry.py), which own a connection and maybe a bridge.     *)
(* Each registers its close with its scope; each may also be closed by its *)
(* owner, by a match or by a timer, and the client may refuse to take a    *)
(* callback off its table.                                                 *)
(*                                                                         *)
(* The client (demo/cdp_client.py) calls the callbacks of a message one    *)
(* after another, by position in the live list; the receivers of the event *)
(* a callback emits are user code that may open and close any of these.    *)
(* All bridges listen to one method and the attachments are of one         *)
(* watchdog: others share no state with them.                              *)
(***************************************************************************)
EXTENDS Naturals, SequencesExt

CONSTANTS
    Scopes,
    Sessions,     \* the sessions messages come from
    Bridges,
    Waiters,
    Attachments,
    Home,         \* the scope of a bridge, a waiter or an attachment
    Session,      \* the session an attachment or a bridge is bound to, or AnySession
    Carries,      \* the bridge an attachment owns, or NoBridge
    Timed,        \* the waiters with a timeout
    MaxMessages,  \* bound on the messages of one behaviour
    AnySession, NoBridge, NoMessage, NoWaiter

Resources == Bridges \cup Waiters \cup Attachments
Carried   == {Carries[a] : a \in Attachments} \ {NoBridge}

ASSUME ResourceAssumption ==
    /\ Bridges \cap Waiters = {} /\ Bridges \cap Attachments = {}
    /\ Waiters \cap Attachments = {} /\ NoBridge \notin Bridges
    /\ NoWaiter \notin Waiters
    /\ Home \in [Resources -> Scopes]
    /\ Session \in [Bridges \cup Attachments -> Sessions \cup {AnySession}]
    /\ Carries \in [Attachments -> Bridges \cup {NoBridge}]
    /\ \A a \in Attachments : Carries[a] # NoBridge => Home[Carries[a]] = Home[a]
    /\ \A a, b \in Attachments : Carries[a] = Carries[b] => a = b \/ Carries[a] = NoBridge
    /\ Timed \subseteq Waiters /\ MaxMessages \in Nat

VARIABLES
    scope,        \* "open", "closed" (is being closed) or "finished"
    owned,        \* _close_callbacks of each scope
    handlers,     \* the client's list of callbacks for the method
    bridge,       \* "none", "open" or "closed": _closed of a bridge
    binding,      \* the same of an attachment
    linked,       \* the waiters and attachments whose connection is active
    future,       \* the future of each waiter
    timers,       \* the waiters whose timer is set
    message,      \* the session of the message being dispatched
    cursor,       \* the position its dispatch has come to
    inside,       \* the bridge whose event's receivers are running, or NoBridge
    asking,       \* the waiter whose predicate is running, or NoWaiter
    messages      \* number of messages so far

bound    == <<owned, handlers, bridge, binding, linked, future, timers>>
dispatch == <<message, cursor, inside, asking, messages>>
vars     == <<scope, bound, dispatch>>

-----------------------------------------------------------------------------
In(s)  == {r \in Resources : Home[r] = s}
Settled == {"matched", "expired", "cancelled"}

(* Synchronous code of a user runs while no message is being dispatched,   *)
(* or in a receiver, of which a waiter's predicate is a part.  Timers and  *)
(* other tasks run only when nothing of that kind is going on.             *)
UserCode == message = NoMessage \/ inside # NoBridge
Idle     == message = NoMessage /\ asking = NoWaiter

Init ==
    /\ scope = [s \in Scopes |-> "open"]
    /\ owned = [s \in Scopes |-> {}]
    /\ handlers = <<>>
    /\ bridge = [b \in Bridges |-> "none"]
    /\ binding = [a \in Attachments |-> "none"]
    /\ linked = {} /\ timers = {}
    /\ future = [w \in Waiters |-> "none"]
    /\ message = NoMessage /\ cursor = 0 /\ messages = 0
    /\ inside = NoBridge /\ asking = NoWaiter

-----------------------------------------------------------------------------
(* Closing some resources; the client takes off the callbacks of the       *)
(* bridges in ok and raises for the others, which stay in its table.       *)

BridgesOf(C) == (C \cap Bridges) \cup ({Carries[a] : a \in C \cap Attachments} \ {NoBridge})
Stuck(C, ok) == (BridgesOf(C) \cap ToSet(handlers)) \ ok
Half(C, ok)  == {a \in C \cap Attachments : Carries[a] \in Stuck(C, ok)}

(* What no longer needs its scope to close it.                             *)
(* Variant: a bridge lets go of its scope whether or not its callbacks are *)
(* off the client's table.                                                 *)
DoneWithAll(C, ok) == (C \cup BridgesOf(C)) \ Half(C, ok)
DoneWith(C, ok) == (C \cup BridgesOf(C)) \ (Half(C, ok) \cup Stuck(C, ok))

(* The client's list without some callbacks: list.remove of each.          *)
InOrder(r, q) ==
    \A i, j \in DOMAIN r : i < j =>
        \E k, l \in DOMAIN q : k < l /\ q[k] = r[i] /\ q[l] = r[j]
TakenOff(q, gone) ==
    LET kept == ToSet(q) \ gone
    IN {r \in UNION {[1..n -> kept] : n \in 0..Len(q)} :
           ToSet(r) = kept /\ InOrder(r, q)}

Cancelled(w) == IF future[w] = "pending" THEN "cancelled" ELSE future[w]

Release(C, ok) ==
    /\ owned' = [s \in Scopes |-> owned[s] \ DoneWith(C, ok)]
    /\ handlers' \in TakenOff(handlers, BridgesOf(C) \ Stuck(C, ok))
    /\ bridge' = [b \in Bridges |-> IF b \in BridgesOf(C) THEN "closed" ELSE bridge[b]]
    /\ binding' = [a \in Attachments |-> IF a \in C \ Half(C, ok) THEN "closed" ELSE binding[a]]
    /\ linked' = linked \ C
    /\ future' = [w \in Waiters |-> IF w \in C THEN Cancelled(w) ELSE future[w]]
    /\ timers' = timers \ C

-----------------------------------------------------------------------------
(* A bridge, its registration with the scope and its callback.             *)
OpenBridge(b) ==
    /\ UserCode /\ b \notin Carried
    /\ bridge[b] = "none" /\ scope[Home[b]] = "open"
    /\ bridge' = [bridge EXCEPT ![b] = "open"]
    /\ handlers' = Append(handlers, b)
    /\ owned' = [owned EXCEPT ![Home[b]] = @ \cup {b}]
    /\ UNCHANGED <<scope, binding, linked, future, timers, dispatch>>

CloseBridge(b, ok) ==
    /\ UserCode /\ bridge[b] # "none"
    /\ Release({b}, ok)
    /\ UNCHANGED <<scope, dispatch>>

(* The attachments a detach of this scope and session closes.              *)
Open(s, k) == {a \in Attachments : /\ binding[a] = "open"
                                   /\ Home[a] = s /\ Session[a] = k}

Detach(s, k, ok) ==
    /\ UserCode /\ Open(s, k) # {}
    /\ Release(Open(s, k), ok)
    /\ UNCHANGED <<scope, dispatch>>

(* attach detaches what the watchdog has at the place already; when that   *)
(* raises, it raises.                                                      *)
(* Variant: the error of the detach is ignored.                            *)
MayAttachAnyway(old, ok) == TRUE
MayAttach(old, ok) == Half(old, ok) = {}

Attach(a, ok) ==
    LET old == Open(Home[a], Session[a])
        own == {Carries[a]} \ {NoBridge}
        s   == Home[a]
    IN /\ UserCode /\ binding[a] = "none" /\ scope[s] = "open"
       /\ MayAttach(old, ok)
       /\ owned' = [owned EXCEPT ![s] = (@ \ DoneWith(old, ok)) \cup {a} \cup own]
       /\ \E rest \in TakenOff(handlers, BridgesOf(old) \ Stuck(old, ok)) :
             handlers' = IF own = {} THEN rest ELSE Append(rest, Carries[a])
       /\ bridge' = [b \in Bridges |-> IF b \in own THEN "open" ELSE
                                       IF b \in BridgesOf(old) THEN "closed" ELSE bridge[b]]
       /\ binding' = [x \in Attachments |-> IF x = a THEN "open" ELSE
                                            IF x \in old \ Half(old, ok) THEN "closed" ELSE binding[x]]
       /\ linked' = (linked \ old) \cup {a}
       /\ UNCHANGED <<scope, future, timers, dispatch>>

-----------------------------------------------------------------------------
(* expect: the connection, the close callback and the timer.               *)
Expect(w) ==
    /\ UserCode /\ future[w] = "none" /\ scope[Home[w]] = "open"
    /\ future' = [future EXCEPT ![w] = "pending"]
    /\ linked' = linked \cup {w}
    /\ timers' = timers \cup ({w} \cap Timed)
    /\ owned' = [owned EXCEPT ![Home[w]] = @ \cup {w}]
    /\ UNCHANGED <<scope, handlers, bridge, binding, dispatch>>

CloseWaiter(w) ==
    /\ UserCode /\ w \in linked
    /\ Release({w}, {})
    /\ UNCHANGED <<scope, dispatch>>

(* The task that awaits it is cancelled: the future is cancelled now, the  *)
(* waiter closed when the task runs again (CloseWaiter).                   *)
CancelAwait(w) ==
    /\ UserCode /\ future[w] = "pending"
    /\ future' = [future EXCEPT ![w] = "cancelled"]
    /\ UNCHANGED <<scope, owned, handlers, bridge, binding, linked, timers, dispatch>>

(* A waiter's own end, by a match or by the timer: the outcome, if there   *)
(* is none yet, and _detach.                                               *)
Outcome(w, outcome) == IF future[w] = "pending" THEN outcome ELSE future[w]

(* Variant: the close callback stays with the scope.                       *)
EndsStillOwned(W, outcome) ==
    /\ future' = [w \in Waiters |-> IF w \in W THEN Outcome(w, outcome) ELSE future[w]]
    /\ linked' = linked \ W
    /\ timers' = timers \ W
    /\ UNCHANGED <<owned, handlers, bridge, binding>>
Ends(W, outcome) ==
    /\ future' = [w \in Waiters |-> IF w \in W THEN Outcome(w, outcome) ELSE future[w]]
    /\ linked' = linked \ W
    /\ timers' = timers \ W
    /\ owned' = [s \in Scopes |-> owned[s] \ W]
    /\ UNCHANGED <<handlers, bridge, binding>>

Expire(w) ==
    /\ Idle /\ w \in timers
    /\ Ends({w}, "expired")
    /\ UNCHANGED <<scope, dispatch>>

(* The waiters that an event emitted on a scope may reach: the connection  *)
(* is active, the future not done.                                         *)
Listening(s) == {w \in Waiters \cap linked : Home[w] = s /\ future[w] = "pending"}

EmitOn(s, W) ==
    /\ UserCode /\ scope[s] = "open"
    /\ W # {} /\ W \subseteq Listening(s)
    /\ Ends(W, "matched")
    /\ UNCHANGED <<scope, dispatch>>

(* include and exclude are user code, called between the test of the       *)
(* future and set_result: they may emit an event that the same waiter      *)
(* matches, close it, or cancel the task that awaits it.                   *)
AskPredicate(w) ==
    /\ UserCode /\ asking = NoWaiter /\ w \in Listening(Home[w])
    /\ scope[Home[w]] = "open"
    /\ asking' = w
    /\ UNCHANGED <<scope, bound, message, cursor, inside, messages>>

PredicateAccepts ==
    /\ asking # NoWaiter /\ future[asking] = "pending"
    /\ Ends({asking}, "matched")
    /\ asking' = NoWaiter
    /\ UNCHANGED <<scope, message, cursor, inside, messages>>

(* It does not match, or set_result raises InvalidStateError because the   *)
(* future is done by now: neither gets as far as _detach.                  *)
PredicateWithoutMatch ==
    /\ asking # NoWaiter
    /\ asking' = NoWaiter
    /\ UNCHANGED <<scope, bound, message, cursor, inside, messages>>

-----------------------------------------------------------------------------
(* A message of a session, dispatched to the callbacks by position.        *)
Receive(k) ==
    /\ Idle /\ messages < MaxMessages
    /\ message' = k /\ cursor' = 1 /\ messages' = messages + 1
    /\ UNCHANGED <<scope, bound, inside, asking>>

Current == handlers[cursor]

Accepts(b) == /\ bridge[b] = "open" /\ scope[Home[b]] = "open"
              /\ Session[b] \in {message, AnySession}

CallBack ==
    /\ message # NoMessage /\ inside = NoBridge /\ cursor <= Len(handlers)
    /\ IF Accepts(Current)
       THEN inside' = Current /\ UNCHANGED cursor
       ELSE cursor' = cursor + 1 /\ UNCHANGED inside
    /\ UNCHANGED <<scope, bound, message, asking, messages>>

(* The waiters, of the lowest priority, see the event last; the bridge may *)
(* have been taken off the list by then.                                   *)
CallBackReturns(W) ==
    /\ inside # NoBridge /\ asking = NoWaiter
    /\ W \subseteq Listening(Home[inside])
    /\ Ends(W, "matched")
    /\ inside' = NoBridge /\ cursor' = cursor + 1
    /\ UNCHANGED <<scope, message, asking, messages>>

MessageDone ==
    /\ message # NoMessage /\ inside = NoBridge /\ cursor > Len(handlers)
    /\ message' = NoMessage /\ cursor' = 0
    /\ UNCHANGED <<scope, bound, inside, asking, messages>>

-----------------------------------------------------------------------------
(* EventScope.close up to its first await: a pass over the close callbacks *)
(* it owns.  Failed ones stay for the next call.                           *)
BeginClose(s, ok) ==
    /\ Idle /\ scope[s] # "finished"
    /\ scope' = [scope EXCEPT ![s] = "closed"]
    /\ Release(owned[s], ok)
    /\ UNCHANGED dispatch

(* Variant: only the loop has to have stopped.                             *)
NothingLeftOfLoop(s) == TRUE
NothingLeft(s) == owned[s] = {}

(* The loop has stopped and nothing is left: connections go.               *)
FinishClose(s) ==
    /\ Idle /\ scope[s] = "closed" /\ NothingLeft(s)
    /\ scope' = [scope EXCEPT ![s] = "finished"]
    /\ linked' = linked \ In(s)
    /\ UNCHANGED <<owned, handlers, bridge, binding, future, timers, dispatch>>

-----------------------------------------------------------------------------
Next ==
    \/ \E b \in Bridges : OpenBridge(b)
    \/ \E b \in Bridges, ok \in SUBSET Bridges : CloseBridge(b, ok)
    \/ \E s \in Scopes, k \in Sessions \cup {AnySession}, ok \in SUBSET Bridges : Detach(s, k, ok)
    \/ \E a \in Attachments, ok \in SUBSET Bridges : Attach(a, ok)
    \/ \E w \in Waiters : Expect(w) \/ CloseWaiter(w) \/ CancelAwait(w) \/ Expire(w)
    \/ \E w \in Waiters : AskPredicate(w)
    \/ PredicateAccepts \/ PredicateWithoutMatch
    \/ \E s \in Scopes, W \in SUBSET Waiters : EmitOn(s, W)
    \/ \E W \in SUBSET Waiters : CallBackReturns(W)
    \/ \E k \in Sessions : Receive(k)
    \/ CallBack \/ MessageDone
    \/ \E s \in Scopes, ok \in SUBSET Bridges : BeginClose(s, ok)
    \/ \E s \in Scopes : FinishClose(s)

Spec == Init /\ [][Next]_vars

-----------------------------------------------------------------------------
(* Every variable has its type.                                            *)
TypeOK ==
    /\ scope \in [Scopes -> {"open", "closed", "finished"}]
    /\ owned \in [Scopes -> SUBSET Resources]
    /\ handlers \in Seq(Bridges)
    /\ bridge \in [Bridges -> {"none", "open", "closed"}]
    /\ binding \in [Attachments -> {"none", "open", "closed"}]
    /\ linked \subseteq Waiters \cup Attachments
    /\ future \in [Waiters -> {"none", "pending"} \cup Settled]
    /\ timers \subseteq Timed
    /\ message \in Sessions \cup {NoMessage}
    /\ cursor \in Nat /\ messages \in 0..MaxMessages
    /\ inside \in Bridges \cup {NoBridge}
    /\ asking \in Waiters \cup {NoWaiter}

(* Nothing escapes its scope: a callback in the client's table, an open    *)
(* attachment and a listening waiter are still registered with the scope,  *)
(* so that its close can finish what a failed cleanup has left.            *)
RetainedUntilReleased ==
    /\ \A b \in ToSet(handlers) : b \in owned[Home[b]]
    /\ \A a \in Attachments : binding[a] = "open" => a \in owned[Home[a]]
    /\ \A w \in Waiters \cap (linked \cup timers) : w \in owned[Home[w]]

(* A scope whose close is complete has released what was bound to it: no   *)
(* callback of its bridges in the client's table, no connection, timer or  *)
(* open attachment, and no waiter whose task would wait for ever.          *)
FinishedHoldsNothing ==
    \A s \in Scopes : scope[s] = "finished" =>
        /\ ToSet(handlers) \cap In(s) = {}
        /\ (linked \cup timers) \cap In(s) = {}
        /\ \A w \in Waiters \cap In(s) : future[w] # "pending"
        /\ \A a \in Attachments \cap In(s) : binding[a] # "open"

(* A watchdog attached again and again, also after a detach that failed    *)
(* half way, hears a scope and session once.                               *)
OneListener ==
    \A a, b \in Attachments :
        binding[a] = "open" /\ binding[b] = "open"
            /\ Home[a] = Home[b] /\ Session[a] = Session[b] => a = b

(* A waiter is armed and disarmed as a whole: one that can still be        *)
(* answered has its connection, its timer and its close callback, and one  *)
(* that has been answered, by a match, the timer or a close, has left      *)
(* nothing behind, also when a predicate ends its own waiter before        *)
(* set_result.  Only a cancelled awaiter keeps all three, until its task   *)
(* runs again (expect.py:48-112).                                          *)
ArmedWhilePending ==
    \A w \in Waiters :
        /\ (w \in linked) <=> (w \in owned[Home[w]])
        /\ (w \in timers) <=> (w \in linked /\ w \in Timed)
        /\ future[w] = "pending" => w \in linked
        /\ w \in linked => future[w] \in {"pending", "cancelled"}

=============================================================================
