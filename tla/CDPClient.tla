------------------------------ MODULE CDPClient ------------------------------
(***************************************************************************)
(* The CDP client of the demos (demo/cdp_client.py): tasks send commands   *)
(* over one socket and wait for the answer with their number; one task     *)
(* receives.  An answer to a call that has ended finds no future and is    *)
(* dropped, which is a stutter here.                                       *)
(***************************************************************************)
EXTENDS Naturals

CONSTANTS Callers     \* the tasks that send commands

VARIABLES
    socket,       \* "none", "open", "lost" by the peer, or "closed"
    receiver,     \* the receiving task: "none", "running", "ended", "failed"
    connected,    \* _connected
    call,         \* where each caller is
    answer,       \* what its future holds
    number,       \* message_id of its call
    pending,      \* the keys of _pending
    latest        \* _msg_id

callVars   == <<call, answer, number, pending, latest>>
clientVars == <<socket, receiver, connected, callVars>>

-----------------------------------------------------------------------------
(* A call is writing to the socket, waits for its future, or is over, its  *)
(* result not yet seen by the code that made it.                           *)
InFlight == {c \in Callers : call[c] \in {"sending", "waiting"}}
Results  == {"ok", "error", "timeout", "lost"}

ClientInit ==
    /\ socket = "none" /\ receiver = "none" /\ connected = FALSE
    /\ call = [c \in Callers |-> "idle"]
    /\ answer = [c \in Callers |-> "none"]
    /\ number = [c \in Callers |-> 0]
    /\ pending = {} /\ latest = 0

Connect ==
    /\ socket = "none"
    /\ socket' = "open" /\ receiver' = "running" /\ connected' = TRUE
    /\ UNCHANGED callVars

-----------------------------------------------------------------------------
(* Numbers are only compared: counting starts again when none is in use.   *)
NextNumber == IF InFlight = {} /\ pending = {} THEN 1 ELSE latest + 1

Send(c) ==
    /\ call[c] = "idle" /\ socket # "none"
    /\ latest' = NextNumber
    /\ number' = [number EXCEPT ![c] = NextNumber]
    /\ pending' = pending \cup {NextNumber}
    /\ call' = [call EXCEPT ![c] = "sending"]
    /\ UNCHANGED <<answer, socket, receiver, connected>>

(* The key a call takes off the table when it ends.                        *)
(* Variant: the counter is read again, after the await.                    *)
OwnLatest(c) == latest
Own(c) == number[c]

End(c, result) ==
    /\ call' = [call EXCEPT ![c] = result]
    /\ pending' = pending \ {Own(c)}
    /\ answer' = [answer EXCEPT ![c] = "none"]
    /\ number' = [number EXCEPT ![c] = 0]
    /\ UNCHANGED latest

Written(c) ==
    /\ call[c] = "sending" /\ socket = "open"
    /\ call' = [call EXCEPT ![c] = "waiting"]
    /\ UNCHANGED <<socket, receiver, connected, answer, number, pending, latest>>

NotWritten(c) ==
    /\ call[c] = "sending" /\ socket # "open"
    /\ End(c, "lost")
    /\ UNCHANGED <<socket, receiver, connected>>

Answered(c, how) ==
    /\ socket = "open" /\ receiver = "running"
    /\ c \in InFlight /\ number[c] \in pending
    /\ answer' = [answer EXCEPT ![c] = how]
    /\ pending' = pending \ {number[c]}
    /\ UNCHANGED <<socket, receiver, connected, call, number, latest>>

Return(c) ==
    /\ call[c] = "waiting" /\ answer[c] # "none"
    /\ End(c, answer[c])
    /\ UNCHANGED <<socket, receiver, connected>>

(* The timeout is 30 s unless the caller gives another.                    *)
(* Variant: there is none.                                                 *)
OverdueNever(c) == FALSE
Overdue(c) == call[c] = "waiting"

TimeOut(c) ==
    /\ Overdue(c)
    /\ End(c, "timeout")
    /\ UNCHANGED <<socket, receiver, connected>>

-----------------------------------------------------------------------------
(* The peer goes away.  The receiving task raises ConnectionClosed inside  *)
(* or, after a closing handshake, just runs out of messages; the futures   *)
(* stay as they are.                                                       *)
LoseSocket ==
    /\ socket = "open"
    /\ socket' = "lost"
    /\ UNCHANGED <<receiver, connected, callVars>>

ReceiverEnds ==
    /\ receiver = "running" /\ socket = "lost"
    /\ receiver' = "ended"
    /\ connected' \in {FALSE, connected}
    /\ UNCHANGED <<socket, callVars>>

(* A frame that cannot be decoded ends the task with its exception.        *)
ReceiverFails ==
    /\ receiver = "running" /\ socket = "open"
    /\ receiver' = "failed"
    /\ UNCHANGED <<socket, connected, callVars>>

(* close: it awaits the receiving task, whose exception keeps it from the  *)
(* socket.                                                                 *)
CloseClient ==
    /\ connected' = FALSE
    /\ IF receiver = "failed" THEN UNCHANGED <<socket, receiver>>
       ELSE /\ receiver' = IF receiver = "running" THEN "ended" ELSE receiver
            /\ socket' = IF socket = "none" THEN "none" ELSE "closed"
    /\ UNCHANGED callVars

-----------------------------------------------------------------------------
ClientTypeOK ==
    /\ socket \in {"none", "open", "lost", "closed"}
    /\ receiver \in {"none", "running", "ended", "failed"}
    /\ connected \in BOOLEAN
    /\ call \in [Callers -> {"idle", "sending", "waiting", "stalled"} \cup Results]
    /\ answer \in [Callers -> {"none", "ok", "error"}]
    /\ number \in [Callers -> Nat]
    /\ pending \subseteq Nat /\ latest \in Nat

(* The table holds exactly the calls in flight that have no answer yet: no *)
(* answer is lost to another call's end and nothing is left behind by one  *)
(* that failed, timed out or was cancelled.                                *)
PendingIsInFlight ==
    pending = {number[c] : c \in {x \in InFlight : answer[x] = "none"}}

=============================================================================
