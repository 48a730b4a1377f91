----------------------------- MODULE DemoSession -----------------------------
(***************************************************************************)
(* One run of a demo: its main task takes the steps of its program (see    *)
(* DemoPrograms) over the client (see CDPClient), the consumers of its     *)
(* scopes and its own tasks send commands beside it, Chrome answers or     *)
(* does not, and one Ctrl-C may come.                                      *)
(***************************************************************************)
EXTENDS CDPClient, DemoPrograms, FiniteSets

VARIABLES
    program,
    part,         \* "body", "cleanup", "ended"
    pc,           \* the step of the part
    begun,        \* the step has been started and is waited for
    raised,       \* the body has ended with an exception
    cut,          \* the cleanup has
    held,         \* what the names in main refer to, of Chrome, client, playwright
    orphaned,     \* what was started and never got its name
    scopes,       \* the open scopes
    todo,         \* events on each scope's queue, the one handled included
    failed,       \* the workers whose last event failed
    dialog,       \* an alert in a page: "none", "open", "dismissed"
    interrupted,  \* Ctrl-C has come
    disturbed     \* something outside has gone wrong

Workers == Scopes \cup Tasks
ASSUME CallersAssumption == Callers = {"main"} \cup Workers

control == <<part, pc, begun, raised, cut>>
things  == <<held, orphaned>>
work    == <<todo, failed, dialog>>
vars    == <<clientVars, program, control, things, scopes, work, interrupted, disturbed>>

Init ==
    /\ ClientInit
    /\ program \in DOMAIN Programs
    /\ part = "body" /\ pc = 1 /\ begun = FALSE /\ raised = FALSE /\ cut = FALSE
    /\ held = {} /\ orphaned = {} /\ scopes = {}
    /\ todo = [w \in Workers |-> 0]
    /\ failed = {} /\ dialog = "none"
    /\ interrupted = FALSE /\ disturbed = FALSE

-----------------------------------------------------------------------------
Code == IF part = "body" THEN Programs[program].body ELSE Programs[program].cleanup
Step == Code[pc]
At(what) == part # "ended" /\ pc \in DOMAIN Code /\ Step.do = what

Pass ==
    /\ pc' = pc + 1 /\ begun' = FALSE
    /\ UNCHANGED <<part, raised, cut>>

(* An exception that leaves the body starts the finally clause; one that   *)
(* leaves the finally clause skips the rest of it.                         *)
Raise ==
    /\ part' = IF part = "body" THEN "cleanup" ELSE "ended"
    /\ pc' = 1 /\ begun' = FALSE
    /\ raised' = TRUE
    /\ cut' = (part = "cleanup")

Throw(error) == IF error \in Step.tolerates THEN Pass ELSE Raise

EndPart ==
    /\ part # "ended" /\ pc = Len(Code) + 1
    /\ part' = IF part = "body" THEN "cleanup" ELSE "ended"
    /\ pc' = 1
    /\ UNCHANGED <<begun, raised, cut>>
    /\ UNCHANGED <<clientVars, program, things, scopes, work, interrupted, disturbed>>

-----------------------------------------------------------------------------
(* launch_chrome kills the process it could not reach.                     *)
Launch ==
    /\ At("launch")
    /\ \/ held' = held \cup {"chrome"} /\ Pass /\ UNCHANGED disturbed
       \/ disturbed' = TRUE /\ Throw("timeout") /\ UNCHANGED held
    /\ UNCHANGED <<clientVars, program, orphaned, scopes, work, interrupted>>

(* The client is made, then connected.                                     *)
Open ==
    /\ At("connect")
    /\ held' = held \cup {"client"}
    /\ \/ Connect /\ Pass /\ UNCHANGED disturbed
       \/ disturbed' = TRUE /\ Throw("error") /\ UNCHANGED clientVars
    /\ UNCHANGED <<program, orphaned, scopes, work, interrupted>>

(* A command of main itself.                                               *)
Command ==
    /\ At("send") \/ At("alert")
    /\ ~begun
    /\ Send("main")
    /\ begun' = TRUE
    /\ UNCHANGED <<part, pc, raised, cut>>
    /\ UNCHANGED <<program, things, scopes, work, interrupted, disturbed>>

CommandDone ==
    /\ At("send") \/ At("alert")
    /\ call["main"] \in Results
    /\ call' = [call EXCEPT !["main"] = "idle"]
    /\ IF call["main"] = "ok" THEN Pass ELSE Throw(call["main"])
    /\ dialog' = "none"
    /\ UNCHANGED <<socket, receiver, connected, answer, number, pending, latest>>
    /\ UNCHANGED <<program, things, scopes, todo, failed, interrupted, disturbed>>

-----------------------------------------------------------------------------
Create ==
    /\ At("create")
    /\ scopes' = scopes \cup Step.on
    /\ Pass
    /\ UNCHANGED <<clientVars, program, things, work, interrupted, disturbed>>

(* emit, connect and attach raise on a closing scope.                      *)
Use ==
    /\ At("use")
    /\ IF Step.on \subseteq scopes THEN Pass ELSE Throw("error")
    /\ UNCHANGED <<clientVars, program, things, scopes, work, interrupted, disturbed>>

(* Variant: the error of a closed scope is not caught.                     *)
RefusedUncaught ==
    /\ At("refused")
    /\ Throw("error")
    /\ UNCHANGED <<clientVars, program, things, scopes, work, interrupted, disturbed>>
Refused ==
    /\ At("refused")
    /\ Pass
    /\ UNCHANGED <<clientVars, program, things, scopes, work, interrupted, disturbed>>

(* Emit to a handler on the queues of the scopes, or start the tasks.      *)
EmitAndWait ==
    /\ At("request") \/ At("gather")
    /\ ~begun
    /\ IF Step.on \subseteq scopes \cup Tasks
       THEN /\ todo' = [w \in Workers |-> IF w \in Step.on THEN todo[w] + 1 ELSE todo[w]]
            /\ failed' = failed \ Step.on
            /\ begun' = TRUE
            /\ UNCHANGED <<part, pc, raised, cut>>
       ELSE Throw("error") /\ UNCHANGED <<todo, failed>>
    /\ UNCHANGED <<clientVars, program, things, scopes, dialog, interrupted, disturbed>>

Drained(S) == \A w \in S : todo[w] = 0

(* A task's exception leaves gather at once, unless it is collected; the   *)
(* other tasks go on.                                                      *)
RequestDone ==
    /\ At("request") \/ At("gather")
    /\ begun
    /\ \/ Drained(Step.on)
       \/ At("gather") /\ "error" \notin Step.tolerates /\ failed \cap Step.on # {}
    /\ IF failed \cap Step.on = {} THEN Pass ELSE Throw("error")
    /\ UNCHANGED <<clientVars, program, things, scopes, work, interrupted, disturbed>>

(* An event may take 300 s, a command 30 s: only a write that blocks       *)
(* outlasts the event, unless the program waits for less, and catches that.*)
RequestTimesOut ==
    /\ At("request")
    /\ begun /\ ~Drained(Step.on)
    /\ "timeout" \in Step.tolerates \/ \E w \in Step.on : call[w] = "sending"
    /\ Throw("timeout")
    /\ disturbed' = TRUE
    /\ UNCHANGED <<clientVars, program, things, scopes, work, interrupted>>

(* The handler sleeps for ever; the event's own timeout is what main sees. *)
Stall ==
    /\ At("stall")
    /\ \A w \in Step.on : call[w] = "idle"
    /\ todo' = [w \in Workers |-> IF w \in Step.on THEN todo[w] + 1 ELSE todo[w]]
    /\ call' = [w \in Callers |-> IF w \in Step.on THEN "stalled" ELSE call[w]]
    /\ Throw("timeout")
    /\ UNCHANGED <<socket, receiver, connected, answer, number, pending, latest>>
    /\ UNCHANGED <<program, things, scopes, failed, dialog, interrupted, disturbed>>

-----------------------------------------------------------------------------
(* The consumer of a scope, and a task: the handler sends a command.       *)
HandlerSends(w) ==
    /\ todo[w] > 0
    /\ Send(w)
    /\ UNCHANGED <<program, control, things, scopes, work, interrupted, disturbed>>

(* The popup watchdog's handler has the dialog dismissed.                  *)
HandlerDone(w) ==
    /\ call[w] \in Results
    /\ call' = [call EXCEPT ![w] = "idle"]
    /\ todo' = [todo EXCEPT ![w] = @ - 1]
    /\ failed' = IF call[w] = "ok" THEN failed \ {w} ELSE failed \cup {w}
    /\ dialog' = IF dialog = "open" /\ call[w] = "ok" THEN "dismissed" ELSE dialog
    /\ UNCHANGED <<socket, receiver, connected, answer, number, pending, latest>>
    /\ UNCHANGED <<program, control, things, scopes, interrupted, disturbed>>

(* Calls of cancelled tasks run their finally clause.                      *)
Abandon(S) ==
    /\ call' = [c \in Callers |-> IF c \in S THEN "idle" ELSE call[c]]
    /\ pending' = pending \ {Own(c) : c \in S \cap InFlight}
    /\ answer' = [c \in Callers |-> IF c \in S THEN "none" ELSE answer[c]]
    /\ number' = [c \in Callers |-> IF c \in S THEN 0 ELSE number[c]]
    /\ UNCHANGED latest

-----------------------------------------------------------------------------
(* close_all and close: no more events; drain each queue; after the budget *)
(* cancel what is left.  The errors of the cleanup come out together when  *)
(* every scope has been tried.                                             *)
Close ==
    /\ At("close") /\ ~begun
    /\ scopes' = scopes \ Step.on
    /\ begun' = TRUE
    /\ UNCHANGED <<part, pc, raised, cut>>
    /\ UNCHANGED <<clientVars, program, things, work, interrupted, disturbed>>

Closed ==
    /\ At("close") /\ begun
    /\ Drained(Step.on)
    /\ \/ Pass /\ UNCHANGED disturbed
       \/ disturbed' = TRUE /\ Throw("error")
    /\ UNCHANGED <<clientVars, program, things, scopes, work, interrupted>>

CloseOverdue ==
    /\ At("close") /\ begun
    /\ ~Drained(Step.on)
    /\ Abandon(Step.on)
    /\ todo' = [w \in Workers |-> IF w \in Step.on THEN 0 ELSE todo[w]]
    /\ UNCHANGED <<socket, receiver, connected>>
    /\ UNCHANGED <<program, control, things, scopes, failed, dialog, interrupted, disturbed>>

(* The receiving task's own exception comes out of close().                *)
(* Variant: it is logged, and main goes on with the socket open.           *)
CloseConnectionQuietly ==
    /\ At("disconnect")
    /\ IF "client" \in held
       THEN /\ CloseClient
            /\ Pass
            /\ held' = IF receiver = "failed" THEN held ELSE held \ {"client"}
       ELSE Pass /\ UNCHANGED <<clientVars, held>>
    /\ UNCHANGED <<program, orphaned, scopes, work, interrupted, disturbed>>
CloseConnection ==
    /\ At("disconnect")
    /\ IF "client" \in held
       THEN /\ CloseClient
            /\ IF receiver = "failed" THEN Throw("error") /\ UNCHANGED held
               ELSE Pass /\ held' = held \ {"client"}
       ELSE Pass /\ UNCHANGED <<clientVars, held>>
    /\ UNCHANGED <<program, orphaned, scopes, work, interrupted, disturbed>>

KillChrome ==
    /\ At("kill")
    /\ held' = held \ {"chrome"}
    /\ Pass
    /\ UNCHANGED <<clientVars, program, orphaned, scopes, work, interrupted, disturbed>>

(* Playwright is started, used or stopped; each may fail.                  *)
External ==
    /\ At("external")
    /\ \/ held' = held \cup Step.on /\ Pass /\ UNCHANGED disturbed
       \/ disturbed' = TRUE /\ Throw("error") /\ UNCHANGED held
    /\ UNCHANGED <<clientVars, program, orphaned, scopes, work, interrupted>>

ReleaseExternal ==
    /\ At("release")
    /\ \/ held' = held \ Step.on /\ Pass /\ UNCHANGED disturbed
       \/ Step.on \subseteq held /\ disturbed' = TRUE /\ Throw("error") /\ UNCHANGED held
    /\ UNCHANGED <<clientVars, program, orphaned, scopes, work, interrupted>>

Check ==
    /\ At("check")
    /\ IF connected /\ socket # "none" THEN Pass ELSE Throw("error")
    /\ UNCHANGED <<clientVars, program, things, scopes, work, interrupted, disturbed>>

(* An assertion about what the page has done by now.                       *)
Assert ==
    /\ At("assert")
    /\ \/ Pass /\ UNCHANGED disturbed
       \/ disturbed' = TRUE /\ Throw("error")
    /\ UNCHANGED <<clientVars, program, things, scopes, work, interrupted>>

Leave ==
    /\ At("leave")
    /\ \/ Pass
       \/ pc' = Len(Code) + 1 /\ UNCHANGED <<part, begun, raised, cut>>
    /\ UNCHANGED <<clientVars, program, things, scopes, work, interrupted, disturbed>>

Pause ==
    /\ At("pause")
    /\ Pass
    /\ UNCHANGED <<clientVars, program, things, scopes, work, interrupted, disturbed>>

-----------------------------------------------------------------------------
(* Ctrl-C cancels main where it is suspended.  CancelledError is no        *)
(* Exception, so no except clause of a demo catches it; but close() of the *)
(* client takes it for the end of the receiving task.  What main gathers   *)
(* is cancelled with it; what it was just starting keeps running.          *)
Suspended ==
    \/ \E what \in {"launch", "connect", "external", "release", "disconnect", "pause", "stall"} : At(what)
    \/ \E what \in {"send", "alert", "request", "gather", "close"} : At(what) /\ begun

Starting == (IF At("launch") THEN {"chrome"} ELSE {})
            \cup (IF At("external") THEN Step.on ELSE {})

Interrupt ==
    /\ ~interrupted /\ Suspended
    /\ interrupted' = TRUE /\ disturbed' = TRUE
    /\ orphaned' = orphaned \cup Starting
    /\ held' = IF At("connect") THEN held \cup {"client"} ELSE held
    /\ LET gathered == IF At("gather") THEN Step.on ELSE {}
       IN /\ Abandon({"main"} \cup gathered)
          /\ todo' = [w \in Workers |-> IF w \in gathered THEN 0 ELSE todo[w]]
    /\ IF At("disconnect") THEN Raise \/ UNCHANGED control ELSE Raise
    /\ dialog' = "none"
    /\ UNCHANGED <<socket, receiver, connected, program, scopes, failed>>

(* asyncio.run cancels the tasks that are left.                            *)
Shutdown ==
    /\ part = "ended"
    /\ \E w \in Workers : todo[w] > 0 \/ call[w] # "idle"
    /\ Abandon(Workers)
    /\ todo' = [w \in Workers |-> 0]
    /\ UNCHANGED <<socket, receiver, connected, program, control, things, scopes,
                   failed, dialog, interrupted, disturbed>>

-----------------------------------------------------------------------------
(* The browser: it answers, with a result or an error, opens the alert's   *)
(* dialog and answers that command when it is dismissed, or goes away.     *)
Answer ==
    /\ \E c \in Callers :
          /\ (c = "main" /\ At("alert")) => dialog = "dismissed"
          /\ \/ Answered(c, "ok") /\ UNCHANGED disturbed
             \/ Answered(c, "error") /\ disturbed' = TRUE
    /\ UNCHANGED <<program, control, things, scopes, work, interrupted>>

DialogOpens ==
    /\ At("alert") /\ "main" \in InFlight /\ dialog = "none"
    /\ socket = "open" /\ receiver = "running"
    /\ dialog' = "open"
    /\ todo' = [w \in Workers |-> IF w \in Step.on THEN todo[w] + 1 ELSE todo[w]]
    /\ UNCHANGED <<clientVars, program, control, things, scopes, failed, interrupted, disturbed>>

Loss ==
    /\ LoseSocket \/ ReceiverFails
    /\ disturbed' = TRUE
    /\ UNCHANGED <<program, control, things, scopes, work, interrupted>>

(* The client's own steps.                                                 *)
Transport(c) ==
    /\ Written(c) \/ NotWritten(c) \/ Return(c)
    /\ UNCHANGED <<program, control, things, scopes, work, interrupted, disturbed>>

CallTimesOut(c) ==
    /\ TimeOut(c)
    /\ disturbed' = TRUE
    /\ UNCHANGED <<program, control, things, scopes, work, interrupted>>

ReceiverStops ==
    /\ ReceiverEnds
    /\ UNCHANGED <<program, control, things, scopes, work, interrupted, disturbed>>

-----------------------------------------------------------------------------
MainStep ==
    \/ EndPart \/ Launch \/ Open \/ Command \/ CommandDone
    \/ Create \/ Use \/ Refused \/ EmitAndWait \/ RequestDone \/ RequestTimesOut \/ Stall
    \/ Close \/ Closed \/ CloseOverdue \/ CloseConnection \/ KillChrome
    \/ External \/ ReleaseExternal \/ Check \/ Assert \/ Leave \/ Pause

Worker(w) == HandlerSends(w) \/ HandlerDone(w)
Client(c) == Transport(c) \/ CallTimesOut(c)

Next ==
    \/ MainStep
    \/ \E w \in Workers : Worker(w)
    \/ \E c \in Callers : Client(c)
    \/ Answer \/ DialogOpens \/ Loss \/ ReceiverStops \/ Interrupt \/ Shutdown

Spec == Init /\ [][Next]_vars

(* The tasks run, and timers fire; the browser owes nothing.               *)
FairSpec ==
    /\ Spec /\ WF_vars(MainStep)
    /\ \A w \in Workers : WF_vars(Worker(w))
    /\ \A c \in Callers : WF_vars(Client(c))

-----------------------------------------------------------------------------
TypeOK ==
    /\ ClientTypeOK
    /\ program \in DOMAIN Programs
    /\ part \in {"body", "cleanup", "ended"} /\ pc \in Nat
    /\ begun \in BOOLEAN /\ raised \in BOOLEAN /\ cut \in BOOLEAN
    /\ held \subseteq Things /\ orphaned \subseteq Things
    /\ scopes \subseteq Scopes
    /\ todo \in [Workers -> Nat] /\ failed \subseteq Workers
    /\ dialog \in {"none", "open", "dismissed"}
    /\ interrupted \in BOOLEAN /\ disturbed \in BOOLEAN

(* When the finally clause has run to its end, nothing that main knew of   *)
(* is left: Chrome, the connection, Playwright.  The same after a program  *)
(* without one that has raised nothing, and then its scopes are closed.    *)
Released ==
    (part = "ended" /\ ~cut) =>
        /\ Programs[program].cleanup # <<>> => held = {}
        /\ ~raised => held = {} /\ scopes = {}

(* A run that nothing from outside disturbs raises nothing: no step uses   *)
(* what an earlier one has closed or not yet made.                         *)
UndisturbedSucceeds == raised => disturbed

(* Every run comes to its end, whatever Chrome answers or does not, and    *)
(* whenever Ctrl-C comes.                                                  *)
EveryRunEnds == <>(part = "ended")

=============================================================================
