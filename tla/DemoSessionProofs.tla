-------------------------- MODULE DemoSessionProofs --------------------------
(***************************************************************************)
(* Proofs about the runs of the demos.                                     *)
(*                                                                         *)
(* The client's table of pending commands is exact under any program:      *)
(* numbers in use are distinct and none is beyond the counter, so that the *)
(* key a call takes away is its own.                                       *)
(*                                                                         *)
(* What a run releases, and that it raises nothing if nothing outside goes *)
(* wrong, is shown for every program with the text that                    *)
(* ProgramsAssumption describes.                                           *)
(***************************************************************************)
EXTENDS DemoSession, TLAPS

Numbers ==
    /\ DOMAIN call = Callers
    /\ answer \in [Callers -> {"none", "ok", "error"}]
    /\ number \in [Callers -> Nat]
    /\ latest \in Nat
    /\ \A c \in Callers \ InFlight : answer[c] = "none"
    /\ \A c \in InFlight : number[c] <= latest
    /\ \A c, d \in InFlight : number[c] = number[d] => c = d

TableInv == Numbers /\ PendingIsInFlight

-----------------------------------------------------------------------------
LEMMA TableInit == Init => TableInv
<1> SUFFICES ASSUME Init PROVE TableInv
  OBVIOUS
<1>1. InFlight = {}
  BY DEF Init, ClientInit, InFlight
<1> QED
  BY <1>1 DEF Init, ClientInit, TableInv, Numbers, PendingIsInFlight

(* Steps that leave the calls in flight as they are.                       *)
LEMMA TableSame ==
    ASSUME TableInv, DOMAIN call' = Callers, InFlight' = InFlight,
           UNCHANGED <<answer, number, pending, latest>>
    PROVE  TableInv'
BY DEF TableInv, Numbers, PendingIsInFlight

LEMMA TableStutter == TableInv /\ UNCHANGED callVars => TableInv'
BY DEF TableInv, Numbers, PendingIsInFlight, InFlight, callVars

(* A caller that is not in flight goes from one such state to another.     *)
LEMMA TableSeen ==
    ASSUME TableInv, NEW c \in Callers, NEW v,
           c \notin InFlight, v \notin {"sending", "waiting"},
           call' = [call EXCEPT ![c] = v],
           UNCHANGED <<answer, number, pending, latest>>
    PROVE  TableInv'
<1>1. DOMAIN call' = Callers /\ InFlight' = InFlight
  BY DEF TableInv, Numbers, InFlight
<1> QED
  BY <1>1, TableSame

LEMMA TableSend == ASSUME TableInv, NEW c \in Callers, Send(c) PROVE TableInv'
<1> DEFINE n == NextNumber
<1>1. /\ latest' = n /\ number' = [number EXCEPT ![c] = n]
      /\ pending' = pending \cup {n} /\ answer' = answer
      /\ call' = [call EXCEPT ![c] = "sending"] /\ call[c] = "idle"
  BY DEF Send
<1>2. n \in Nat /\ \A d \in InFlight : number[d] < n
  <2>1. latest \in Nat /\ \A d \in InFlight : number[d] \in Nat /\ number[d] <= latest
    BY DEF TableInv, Numbers, InFlight
  <2>2. CASE InFlight = {} /\ pending = {}
    <3>1. n = 1
      BY <2>2 DEF NextNumber
    <3> QED
      BY <2>2, <3>1
  <2>3. CASE ~(InFlight = {} /\ pending = {})
    <3>1. n = latest + 1
      BY <2>3 DEF NextNumber
    <3> QED
      BY <2>1, <3>1
  <2> QED
    BY <2>2, <2>3
<1> HIDE DEF n
<1>3. c \notin InFlight /\ InFlight' = InFlight \cup {c}
  BY <1>1 DEF InFlight, TableInv, Numbers
<1>4. /\ number' \in [Callers -> Nat] /\ number'[c] = n
      /\ \A d \in InFlight : number'[d] = number[d]
  BY <1>1, <1>2, <1>3 DEF TableInv, Numbers
<1>5. ASSUME NEW d \in InFlight' PROVE number'[d] <= latest'
  <2>1. CASE d = c
    BY <1>1, <1>2, <1>4, <2>1
  <2>2. CASE d \in InFlight
    <3>1. number[d] \in Nat
      BY DEF TableInv, Numbers, InFlight
    <3> QED
      BY <1>1, <1>2, <1>4, <2>2, <3>1
  <2> QED
    BY <1>3, <2>1, <2>2
<1>6. ASSUME NEW d \in InFlight', NEW e \in InFlight', number'[d] = number'[e] PROVE d = e
  <2>1. ASSUME NEW x \in InFlight PROVE number[x] \in Nat /\ number[x] # n
    BY <1>2 DEF TableInv, Numbers, InFlight
  <2> QED
    BY <1>3, <1>4, <1>6, <2>1 DEF TableInv, Numbers
<1>7. answer[c] = "none"
  BY <1>3 DEF TableInv, Numbers
<1>8. PendingIsInFlight'
  BY <1>1, <1>3, <1>4, <1>7 DEF TableInv, PendingIsInFlight
<1>9. \A d \in Callers \ InFlight' : answer'[d] = "none"
  BY <1>1, <1>3 DEF TableInv, Numbers
<1> QED
  <2>1. DOMAIN call' = Callers /\ answer' \in [Callers -> {"none", "ok", "error"}]
    BY <1>1 DEF TableInv, Numbers
  <2>2. \A d, e \in InFlight' : number'[d] = number'[e] => d = e
    BY <1>6
  <2> QED
    BY <1>1, <1>2, <1>4, <1>5, <1>8, <1>9, <2>1, <2>2 DEF TableInv, Numbers

(* Calls that end take their keys and nobody else's.                       *)
LEMMA TableEnds ==
    ASSUME TableInv, NEW S \in SUBSET Callers,
           DOMAIN call' = Callers,
           \A c \in S : call'[c] \notin {"sending", "waiting"},
           \A c \in Callers \ S : call'[c] = call[c],
           answer' \in [Callers -> {"none", "ok", "error"}],
           number' \in [Callers -> Nat],
           \A c \in S : answer'[c] = "none",
           \A c \in Callers \ S : answer'[c] = answer[c] /\ number'[c] = number[c],
           pending' = pending \ {number[c] : c \in S \cap InFlight},
           latest' = latest
    PROVE  TableInv'
<1>1. InFlight' = InFlight \ S
  BY DEF InFlight
<1>2. \A c \in InFlight \ S : answer'[c] = answer[c] /\ number'[c] = number[c]
  BY DEF InFlight
<1>3. \A c \in InFlight \ S : number[c] \notin {number[d] : d \in S \cap InFlight}
  BY DEF TableInv, Numbers
<1>4. PendingIsInFlight'
  BY <1>1, <1>2, <1>3 DEF TableInv, PendingIsInFlight
<1>5. \A c \in InFlight' : number'[c] <= latest'
  BY <1>1, <1>2 DEF TableInv, Numbers
<1>6. \A c, d \in InFlight' : number'[c] = number'[d] => c = d
  BY <1>1, <1>2 DEF TableInv, Numbers
<1>7. \A c \in Callers \ InFlight' : answer'[c] = "none"
  BY <1>1 DEF TableInv, Numbers
<1> QED
  BY <1>4, <1>5, <1>6, <1>7 DEF TableInv, Numbers

LEMMA TableEnd ==
    ASSUME TableInv, NEW c \in InFlight, NEW result \in {"ok", "error", "timeout", "lost"},
           End(c, result)
    PROVE  TableInv'
<1>1. c \in Callers /\ {c} \cap InFlight = {c}
  BY DEF InFlight
<1>2. /\ DOMAIN call' = Callers
      /\ \A d \in {c} : call'[d] \notin {"sending", "waiting"}
      /\ \A d \in Callers \ {c} : call'[d] = call[d]
  BY <1>1 DEF End, TableInv, Numbers
<1>3. /\ answer' \in [Callers -> {"none", "ok", "error"}]
      /\ number' \in [Callers -> Nat]
      /\ \A d \in {c} : answer'[d] = "none"
      /\ \A d \in Callers \ {c} : answer'[d] = answer[d] /\ number'[d] = number[d]
      /\ latest' = latest
  BY <1>1 DEF End, TableInv, Numbers
<1>4. pending' = pending \ {number[d] : d \in {c} \cap InFlight}
  BY <1>1 DEF End, Own
<1> QED
  BY <1>1, <1>2, <1>3, <1>4, TableEnds

LEMMA TableAbandon == ASSUME TableInv, NEW S, Abandon(S) PROVE TableInv'
<1> DEFINE T == S \cap Callers
<1>1. T \in SUBSET Callers /\ T \cap InFlight = S \cap InFlight
  BY DEF InFlight
<1>2. /\ DOMAIN call' = Callers
      /\ \A d \in T : call'[d] \notin {"sending", "waiting"}
      /\ \A d \in Callers \ T : call'[d] = call[d]
  BY DEF Abandon
<1>3. /\ answer' \in [Callers -> {"none", "ok", "error"}]
      /\ number' \in [Callers -> Nat]
      /\ \A d \in T : answer'[d] = "none"
      /\ \A d \in Callers \ T : answer'[d] = answer[d] /\ number'[d] = number[d]
      /\ latest' = latest
  BY DEF Abandon, TableInv, Numbers
<1>4. pending' = pending \ {number[d] : d \in T \cap InFlight}
  BY <1>1 DEF Abandon, Own
<1> HIDE DEF T
<1> QED
  BY <1>1, <1>2, <1>3, <1>4, TableEnds

LEMMA TableAnswered ==
    ASSUME TableInv, NEW c \in Callers, NEW how \in {"ok", "error"}, Answered(c, how)
    PROVE  TableInv'
<1>1. /\ InFlight' = InFlight /\ call' = call /\ number' = number /\ latest' = latest
      /\ c \in InFlight /\ number[c] \in pending
      /\ answer' = [answer EXCEPT ![c] = how] /\ pending' = pending \ {number[c]}
  BY DEF Answered, InFlight
<1>2. answer' \in [Callers -> {"none", "ok", "error"}] /\ answer'[c] # "none"
  BY <1>1 DEF TableInv, Numbers
<1>3. \A d \in InFlight : d # c => number[d] # number[c] /\ answer'[d] = answer[d]
  BY <1>1 DEF TableInv, Numbers, InFlight
<1>4. PendingIsInFlight'
  BY <1>1, <1>2, <1>3 DEF TableInv, PendingIsInFlight
<1> QED
  BY <1>1, <1>2, <1>4 DEF TableInv, Numbers

(* The steps of one caller.                                                *)
LEMMA TableClient == ASSUME TableInv, NEW c \in Callers, Client(c) PROVE TableInv'
<1>1. CASE Written(c)
  <2>1. DOMAIN call' = Callers /\ InFlight' = InFlight
    BY <1>1 DEF Written, InFlight, TableInv, Numbers
  <2> QED
    BY <1>1, <2>1, TableSame DEF Written
<1>2. CASE NotWritten(c)
  BY <1>2, TableEnd DEF NotWritten, InFlight
<1>3. CASE Return(c)
  <2>1. c \in InFlight /\ answer[c] \in {"ok", "error"}
    BY <1>3 DEF Return, InFlight, TableInv, Numbers
  <2> QED
    BY <1>3, <2>1, TableEnd DEF Return
<1>4. CASE TimeOut(c)
  BY <1>4, TableEnd DEF TimeOut, Overdue, InFlight
<1> QED
  BY <1>1, <1>2, <1>3, <1>4 DEF Client, Transport, CallTimesOut

-----------------------------------------------------------------------------
LEMMA TableMain == ASSUME TableInv, MainStep PROVE TableInv'
<1> USE CallersAssumption
<1>1. ASSUME UNCHANGED callVars PROVE TableInv'
  BY <1>1, TableStutter
<1>2. CASE Command
  BY <1>2, TableSend DEF Command
<1>3. CASE CommandDone
  <2>1. "main" \in Callers /\ "main" \notin InFlight
    BY <1>3 DEF CommandDone, Results, InFlight
  <2> QED
    BY <1>3, <2>1, TableSeen DEF CommandDone
<1>4. CASE Stall
  <2>1. DOMAIN call' = Callers /\ InFlight' = InFlight
    BY <1>4 DEF Stall, InFlight
  <2> QED
    BY <1>4, <2>1, TableSame DEF Stall
<1>5. CASE CloseOverdue
  BY <1>5, TableAbandon DEF CloseOverdue
<1>6. CASE EndPart \/ Launch \/ Create \/ Use \/ Refused \/ EmitAndWait \/ RequestDone
           \/ RequestTimesOut
  BY <1>1, <1>6 DEF EndPart, Launch, Create, Use, Refused, EmitAndWait, RequestDone,
                    RequestTimesOut, clientVars, callVars
<1>7. CASE Close \/ Closed \/ KillChrome \/ External \/ ReleaseExternal \/ Check \/ Assert \/ Leave \/ Pause
  BY <1>1, <1>7 DEF Close, Closed, KillChrome, External, ReleaseExternal, Check, Assert, Leave, Pause,
                    clientVars, callVars
<1>8. CASE Open \/ CloseConnection
  BY <1>1, <1>8 DEF Open, Connect, CloseConnection, CloseClient, clientVars, callVars
<1> QED
  BY <1>2, <1>3, <1>4, <1>5, <1>6, <1>7, <1>8 DEF MainStep

LEMMA TableStep == TableInv /\ [Next]_vars => TableInv'
<1> SUFFICES ASSUME TableInv, [Next]_vars PROVE TableInv'
  OBVIOUS
<1> USE CallersAssumption
<1>1. ASSUME UNCHANGED callVars PROVE TableInv'
  BY <1>1, TableStutter
<1>2. ASSUME NEW w \in Workers, Worker(w) PROVE TableInv'
  <2>1. w \in Callers
    OBVIOUS
  <2>2. CASE HandlerSends(w)
    BY <2>1, <2>2, TableSend DEF HandlerSends
  <2>3. CASE HandlerDone(w)
    <3>1. w \notin InFlight
      BY <2>3 DEF HandlerDone, Results, InFlight
    <3> QED
      BY <2>1, <2>3, <3>1, TableSeen DEF HandlerDone
  <2> QED
    BY <1>2, <2>2, <2>3 DEF Worker
<1>3. CASE Answer
  BY <1>3, TableAnswered DEF Answer
<1>4. CASE DialogOpens \/ Loss \/ ReceiverStops
  BY <1>1, <1>4 DEF DialogOpens, Loss, ReceiverStops, LoseSocket, ReceiverFails, ReceiverEnds,
                    clientVars, callVars
<1>5. CASE Interrupt
  BY <1>5, TableAbandon DEF Interrupt
<1>6. CASE Shutdown
  BY <1>6, TableAbandon DEF Shutdown
<1>7. CASE UNCHANGED vars
  BY <1>1, <1>7 DEF vars, clientVars
<1> QED
  BY <1>2, <1>3, <1>4, <1>5, <1>6, <1>7, TableMain, TableClient DEF Next

(* However many tasks send over the client, whatever answers, errors,      *)
(* timeouts, losses and cancellations come: the table holds the calls that *)
(* wait for an answer and no other (cdp_client.py:39-64).                  *)
THEOREM PendingCorrect == Spec => []PendingIsInFlight
<1>1. TableInv => PendingIsInFlight
  BY DEF TableInv
<1> QED
  BY <1>1, TableInit, TableStep, PTL DEF Spec

-----------------------------------------------------------------------------
(* Where main is                                                           *)

Body    == Programs[program].body
Cleanup == Programs[program].cleanup

Waited == {"send", "alert", "request", "gather", "close"}

(* Main is at a step of its part or after the last one.  It waits at steps *)
(* that wait only, and scopes whose end it waits for take no more events.  *)
Placed ==
    /\ program \in DOMAIN Programs
    /\ part \in {"body", "cleanup", "ended"}
    /\ IF part # "ended" THEN pc \in 1 .. Len(Code) + 1 ELSE pc = 1
    /\ begun => part # "ended" /\ pc \in DOMAIN Code /\ Step.do \in Waited
    /\ begun /\ Step.do = "close" => scopes \cap Step.on = {}
    /\ part = "body" => ~raised
    /\ cut => raised /\ part = "ended"

(* The ways main goes on: it begins to wait or goes on waiting, comes past *)
(* the step, leaves the part by an exception, or leaves it early.          *)
AtStep == part # "ended" /\ pc \in DOMAIN Code

Made == IF Step.do = "create" THEN Step.on ELSE {}

Stays ==
    /\ AtStep /\ UNCHANGED <<program, part, pc, raised, cut, held>>
    /\ scopes' \subseteq scopes /\ \A t \in scopes \ scopes' : begun' /\ Closes(Step, t)
    /\ begun' \in {TRUE, begun} /\ (begun => begun')
    /\ begun' => Step.do \in Waited
    /\ begun' /\ Step.do = "close" => scopes' \cap Step.on = {}

Passes ==
    /\ AtStep /\ Pass /\ UNCHANGED program
    /\ held' \subseteq held \cup Acquires(Step) /\ held' \cap Releases(Step) = {}
    /\ scopes' = scopes \cup Made
    /\ Step.do = "close" => scopes' \cap Step.on = {}

Fails ==
    /\ AtStep /\ Raise /\ UNCHANGED <<program, scopes>>
    /\ held' \subseteq held \cup Acquires(Step)

Skips ==
    /\ AtStep /\ Step.do = "leave" /\ pc' = Len(Code) + 1
    /\ UNCHANGED <<program, part, begun, raised, cut, held, scopes>>

Ends ==
    /\ EndPart
    /\ UNCHANGED <<program, held, scopes>>

Rests == UNCHANGED <<program, control, held, scopes>>

Moves == Stays \/ Passes \/ Fails \/ Skips \/ Ends \/ Rests

-----------------------------------------------------------------------------
LEMMA CodeShape ==
    ASSUME Placed
    PROVE  /\ Code \in Seq(Steps) /\ Body \in Seq(Steps) /\ Cleanup \in Seq(Steps)
           /\ DOMAIN Code = 1 .. Len(Code) /\ Len(Code) \in Nat
           /\ DOMAIN Body = 1 .. Len(Body) /\ Len(Body) \in Nat
           /\ DOMAIN Cleanup = 1 .. Len(Cleanup) /\ Len(Cleanup) \in Nat
           /\ Code = IF part = "body" THEN Body ELSE Cleanup
           /\ Tidy(Body, Cleanup) /\ Orderly(Body)
<1>1. Body \in Seq(Steps) /\ Cleanup \in Seq(Steps) /\ Tidy(Body, Cleanup) /\ Orderly(Body)
  BY ProgramsAssumption DEF Placed, Body, Cleanup
<1>2. Code = IF part = "body" THEN Body ELSE Cleanup
  BY DEF Code, Body, Cleanup
<1> QED
  BY <1>1, <1>2

(* A step that releases something tolerates no error.                      *)
LEMMA ReleaseStrict ==
    ASSUME Placed, AtStep, Releases(Step) # {}
    PROVE  Step.tolerates = {}
BY CodeShape DEF AtStep, Step, Tidy

LEMMA MainMoves == ASSUME Placed, MainStep PROVE Moves
<1>1. ASSUME NEW what, At(what) PROVE AtStep /\ Step.do = what
  BY <1>1 DEF At, AtStep
<1>2. CASE EndPart
  BY <1>2 DEF EndPart, Moves, Ends, things
<1>3. CASE Launch
  BY <1>1, <1>3 DEF Launch, Throw, Moves, Passes, Fails, Acquires, Releases, Made
<1>4. CASE Open
  BY <1>1, <1>4 DEF Open, Throw, Moves, Passes, Fails, Acquires, Releases, Made
<1>5. CASE Command
  BY <1>1, <1>5 DEF Command, Moves, Stays, Waited, things
<1>6. CASE CommandDone
  BY <1>1, <1>6 DEF CommandDone, Throw, Moves, Passes, Fails, Acquires, Releases, Made, things
<1>7. CASE Create \/ Use \/ Refused \/ Check \/ Assert \/ Pause
  BY <1>1, <1>7 DEF Create, Use, Refused, Check, Assert, Pause, Throw, Moves, Passes, Fails,
                    Acquires, Releases, Made, things
<1>8. CASE EmitAndWait
  <2>1. AtStep /\ Step.do \in {"request", "gather"}
    BY <1>1, <1>8 DEF EmitAndWait
  <2>2. CASE begun' = TRUE
    BY <1>8, <2>1, <2>2 DEF EmitAndWait, Throw, Pass, Raise, Moves, Stays, Waited, things
  <2>3. CASE Throw("error")
    BY <1>8, <2>1, <2>3 DEF EmitAndWait, Throw, Moves, Passes, Fails,
                            Acquires, Releases, Made, things
  <2> QED
    BY <1>8, <2>2, <2>3 DEF EmitAndWait
<1>9. CASE RequestDone \/ RequestTimesOut \/ Stall
  BY <1>1, <1>9 DEF RequestDone, RequestTimesOut, Stall, Throw, Moves, Passes, Fails,
                    Acquires, Releases, Made, things
<1>10. CASE Close
  BY <1>1, <1>10 DEF Close, Closes, Moves, Stays, Waited, things
<1>11. CASE Closed
  BY <1>1, <1>11 DEF Closed, Throw, Placed, Moves, Passes, Fails, Acquires, Releases, Made, things
<1>12. CASE CloseOverdue
  BY <1>1, <1>12 DEF CloseOverdue, Placed, Moves, Stays, Waited, control, things
<1>13. CASE CloseConnection
  <2>1. AtStep /\ Step.do = "disconnect" /\ Releases(Step) = {"client"} /\ Acquires(Step) = {}
    BY <1>1, <1>13 DEF CloseConnection, Releases, Acquires
  <2>2. Step.tolerates = {}
    BY <2>1, ReleaseStrict
  <2> QED
    BY <1>13, <2>1, <2>2 DEF CloseConnection, Throw, Moves, Passes, Fails, Made
<1>14. CASE KillChrome
  BY <1>1, <1>14 DEF KillChrome, Moves, Passes, Acquires, Releases, Made
<1>15. CASE External
  BY <1>1, <1>15 DEF External, Throw, Moves, Passes, Fails, Acquires, Releases, Made
<1>16. CASE ReleaseExternal
  <2>1. AtStep /\ Step.do = "release" /\ Releases(Step) = Step.on /\ Acquires(Step) = {}
    BY <1>1, <1>16 DEF ReleaseExternal, Releases, Acquires
  <2>2. CASE Step.on = {}
    BY <1>16, <2>1, <2>2 DEF ReleaseExternal, Throw, Moves, Passes, Fails, Made
  <2>3. CASE Step.on # {}
    <3>1. Step.tolerates = {}
      BY <2>1, <2>3, ReleaseStrict
    <3> QED
      BY <1>16, <2>1, <3>1 DEF ReleaseExternal, Throw, Moves, Passes, Fails, Made
  <2> QED
    BY <2>2, <2>3
<1>17. CASE Leave
  BY <1>1, <1>17 DEF Leave, Moves, Passes, Skips, Acquires, Releases, Made, things
<1> QED
  BY <1>2, <1>3, <1>4, <1>5, <1>6, <1>7, <1>8, <1>9, <1>10, <1>11, <1>12, <1>13, <1>14,
     <1>15, <1>16, <1>17 DEF MainStep

(* Ctrl-C raises, unless close() of the client swallows it; nobody else    *)
(* moves main.                                                             *)
LEMMA NextMoves == ASSUME Placed, [Next]_vars PROVE Moves
<1>1. CASE Interrupt
  <2>1. AtStep
    BY <1>1 DEF Interrupt, Suspended, At, AtStep
  <2>2. held' \subseteq held \cup Acquires(Step)
    BY <1>1 DEF Interrupt, At, Acquires
  <2>3. CASE Raise
    BY <1>1, <2>1, <2>2, <2>3 DEF Interrupt, Moves, Fails
  <2>4. CASE At("disconnect") /\ UNCHANGED control
    <3>1. held' = held
      BY <1>1, <2>4 DEF Interrupt, At
    <3> QED
      BY <1>1, <2>4, <3>1 DEF Interrupt, Moves, Rests
  <2> QED
    BY <1>1, <2>3, <2>4 DEF Interrupt
<1>2. CASE Answer \/ DialogOpens \/ Loss \/ ReceiverStops \/ Shutdown \/ UNCHANGED vars
  BY <1>2 DEF Answer, DialogOpens, Loss, ReceiverStops, Shutdown, Moves, Rests, things, vars
<1>3. ASSUME NEW w \in Workers, Worker(w) PROVE Moves
  BY <1>3 DEF Worker, HandlerSends, HandlerDone, Moves, Rests, things
<1>4. ASSUME NEW c \in Callers, Client(c) PROVE Moves
  BY <1>4 DEF Client, Transport, CallTimesOut, Moves, Rests, things
<1> QED
  BY <1>1, <1>2, <1>3, <1>4, MainMoves DEF Next

LEMMA PlacedInit == Init => Placed
<1> SUFFICES ASSUME Init PROVE Placed
  OBVIOUS
<1>1. Code \in Seq(Steps)
  BY ProgramsAssumption DEF Init, Code
<1>2. Len(Code) \in Nat
  BY <1>1
<1> QED
  BY <1>2 DEF Init, Placed

LEMMA PlacedStep == ASSUME Placed, Moves PROVE Placed'
<1>1. /\ DOMAIN Code = 1 .. Len(Code) /\ Len(Code) \in Nat
      /\ Len(Cleanup) \in Nat
  BY CodeShape
<1>2. ASSUME UNCHANGED <<program, part>> PROVE Code' = Code
  BY <1>2 DEF Code
<1>3. CASE Stays
  BY <1>2, <1>3 DEF Stays, AtStep, Placed, Step
<1>4. CASE Passes
  BY <1>1, <1>2, <1>4 DEF Passes, Pass, AtStep, Placed
<1>5. CASE Fails
  <2>1. part' = "cleanup" => Code' = Cleanup
    BY <1>5 DEF Fails, Code, Cleanup
  <2>2. /\ part' = IF part = "body" THEN "cleanup" ELSE "ended"
        /\ part \in {"body", "cleanup"}
        /\ pc' = 1 /\ ~begun' /\ raised' /\ program' = program
        /\ cut' => part' = "ended"
    BY <1>5 DEF Fails, Raise, AtStep, Placed
  <2>3. part' # "ended" => pc' \in 1 .. Len(Code') + 1
    BY <1>1, <2>1, <2>2
  <2> QED
    BY <2>2, <2>3 DEF Placed
<1>6. CASE Skips
  BY <1>1, <1>2, <1>6 DEF Skips, AtStep, Placed, Waited
<1>7. CASE Ends
  <2>1. part' = "cleanup" => Code' = Cleanup
    BY <1>7 DEF Ends, Code, Cleanup
  <2>2. ~begun
    BY <1>1, <1>7 DEF Ends, EndPart, Placed
  <2> QED
    BY <1>1, <1>7, <2>1, <2>2 DEF Ends, EndPart, Placed
<1>8. CASE Rests
  BY <1>2, <1>8 DEF Rests, control, Placed, Step
<1> QED
  BY <1>3, <1>4, <1>5, <1>6, <1>7, <1>8 DEF Moves

-----------------------------------------------------------------------------
(* What is released                                                        *)

ReleasedFrom(code, i, x) == \E k \in DOMAIN code : k >= i /\ x \in Releases(code[k])
ClosedFrom(code, i, t)   == \E k \in DOMAIN code : k >= i /\ Closes(code[k], t)

(* Whatever main holds is released further on, in the finally clause if    *)
(* there is one; without one that is so until an exception comes.          *)
HeldInv ==
    /\ part = "body" => \A x \in held :
          IF Cleanup = <<>> THEN ReleasedFrom(Body, pc, x) ELSE ReleasedFrom(Cleanup, 1, x)
    /\ part = "cleanup" /\ Cleanup # <<>> => \A x \in held : ReleasedFrom(Cleanup, pc, x)
    /\ part # "body" /\ Cleanup = <<>> /\ ~raised => held = {}
    /\ part = "ended" /\ Cleanup # <<>> /\ ~cut => held = {}

(* An open scope has been created by the body and is closed further on.    *)
ScopesInv ==
    /\ part = "body" => \A t \in scopes :
          /\ \E k \in DOMAIN Body : k < pc /\ Body[k].do = "create"
          /\ ClosedFrom(Body, pc, t) \/ ClosedFrom(Cleanup, 1, t)
    /\ part = "cleanup" /\ ~raised => \A t \in scopes : ClosedFrom(Cleanup, pc, t)
    /\ part = "ended" /\ ~raised => scopes = {}

ReleaseInv == Placed /\ HeldInv /\ ScopesInv

LEMMA ReleaseInit == Init => ReleaseInv
BY PlacedInit DEF Init, ReleaseInv, HeldInv, ScopesInv

(* What is started at a step is not released by the same step, and is      *)
(* released by one further on or by the finally clause.                    *)
LEMMA AcquiredDue ==
    ASSUME Placed, AtStep, part = "body", NEW x \in Acquires(Step)
    PROVE  /\ x \notin Releases(Step)
           /\ IF Cleanup = <<>> THEN ReleasedFrom(Body, pc + 1, x)
                                ELSE ReleasedFrom(Cleanup, 1, x)
<1>1. Code = Body /\ Step = Body[pc] /\ pc \in DOMAIN Body /\ DOMAIN Body = 1 .. Len(Body)
      /\ DOMAIN Cleanup = 1 .. Len(Cleanup) /\ Tidy(Body, Cleanup)
  BY CodeShape DEF AtStep, Step
<1>2. CASE Cleanup = <<>>
  <2>1. PICK k \in DOMAIN Body : k > pc /\ x \in Releases(Body[k])
    BY <1>1, <1>2 DEF Tidy
  <2>2. k >= pc + 1
    BY <1>1, <2>1
  <2> QED
    BY <1>2, <2>1, <2>2 DEF Acquires, Releases, ReleasedFrom
<1>3. CASE Cleanup # <<>>
  <2>1. PICK j \in DOMAIN Cleanup : x \in Releases(Cleanup[j])
    BY <1>1, <1>3 DEF Tidy
  <2>2. j >= 1
    BY <1>1, <2>1
  <2> QED
    BY <1>3, <2>1, <2>2 DEF Acquires, Releases, ReleasedFrom
<1> QED
  BY <1>2, <1>3

(* The finally clause starts nothing and makes no scope.                   *)
LEMMA CleanupStarts ==
    ASSUME Placed, AtStep, part = "cleanup"
    PROVE  Acquires(Step) = {} /\ Made = {} /\ Step.do # "leave"
<1>1. Step.do \in {"close", "release", "disconnect", "kill"}
  BY CodeShape DEF AtStep, Step, Tidy
<1> QED
  BY <1>1 DEF Acquires, Made

(* What is released from a step on, and not at it, is released after it.   *)
LEMMA DueMoves ==
    ASSUME NEW code, NEW i \in Nat, DOMAIN code \subseteq Nat, NEW x
    PROVE  /\ ReleasedFrom(code, i, x) /\ x \notin Releases(code[i]) => ReleasedFrom(code, i + 1, x)
           /\ ClosedFrom(code, i, x) /\ ~Closes(code[i], x) => ClosedFrom(code, i + 1, x)
<1>1. ASSUME NEW k \in DOMAIN code, k >= i, k # i PROVE k >= i + 1
  BY <1>1
<1> QED
  BY <1>1 DEF ReleasedFrom, ClosedFrom

LEMMA DueOver ==
    ASSUME NEW code \in Seq(Steps), NEW x
    PROVE  ~ReleasedFrom(code, Len(code) + 1, x) /\ ~ClosedFrom(code, Len(code) + 1, x)
BY DEF ReleasedFrom, ClosedFrom

LEMMA HeldStep == ASSUME ReleaseInv, Moves PROVE HeldInv'
<1>1. /\ Placed /\ HeldInv
      /\ DOMAIN Body = 1 .. Len(Body) /\ DOMAIN Cleanup = 1 .. Len(Cleanup)
      /\ Body \in Seq(Steps) /\ Cleanup \in Seq(Steps)
      /\ Code = IF part = "body" THEN Body ELSE Cleanup
      /\ Tidy(Body, Cleanup)
  BY CodeShape DEF ReleaseInv
<1>2. ASSUME program' = program PROVE Body' = Body /\ Cleanup' = Cleanup
  BY <1>2 DEF Body, Cleanup
<1>3. CASE Stays \/ Rests
  BY <1>1, <1>2, <1>3 DEF Stays, Rests, control, HeldInv
<1>4. CASE Passes
  <2>1. /\ AtStep /\ pc \in Nat /\ pc' = pc + 1 /\ Body' = Body /\ Cleanup' = Cleanup
        /\ part' = part /\ raised' = raised /\ cut' = cut
        /\ part \in {"body", "cleanup"}
    BY <1>1, <1>2, <1>4 DEF Passes, Pass, AtStep, Placed
  <2>2. CASE part = "body"
    <3>1. ASSUME NEW x \in held'
          PROVE  IF Cleanup = <<>> THEN ReleasedFrom(Body, pc + 1, x)
                                   ELSE ReleasedFrom(Cleanup, 1, x)
      <4>1. CASE x \in Acquires(Step)
        BY <1>1, <2>1, <2>2, <4>1, AcquiredDue
      <4>2. CASE x \in held
        <5>1. x \notin Releases(Body[pc])
          BY <1>1, <1>4, <2>2, <3>1 DEF Passes, Step
        <5>2. DOMAIN Body \subseteq Nat
          BY <1>1
        <5> QED
          BY <1>1, <2>1, <2>2, <4>2, <5>1, <5>2, DueMoves DEF HeldInv
      <4> QED
        BY <1>4, <3>1, <4>1, <4>2 DEF Passes
    <3> QED
      BY <2>1, <2>2, <3>1 DEF HeldInv
  <2>3. CASE part = "cleanup"
    <3>1. held' \subseteq held
      BY <1>1, <1>4, <2>1, <2>3, CleanupStarts DEF Passes
    <3>2. ASSUME Cleanup # <<>>, NEW x \in held' PROVE ReleasedFrom(Cleanup, pc + 1, x)
      <4>1. x \notin Releases(Cleanup[pc])
        BY <1>1, <1>4, <2>3, <3>2 DEF Passes, Step
      <4>2. DOMAIN Cleanup \subseteq Nat
        BY <1>1
      <4> QED
        BY <1>1, <2>1, <2>3, <3>1, <3>2, <4>1, <4>2, DueMoves DEF HeldInv
    <3> QED
      BY <1>1, <2>1, <2>3, <3>1, <3>2 DEF HeldInv
  <2> QED
    BY <2>1, <2>2, <2>3
<1>5. CASE Fails
  <2>1. /\ AtStep /\ pc' = 1 /\ raised' /\ Body' = Body /\ Cleanup' = Cleanup
        /\ part' = IF part = "body" THEN "cleanup" ELSE "ended"
        /\ part # "body" => cut'
        /\ part \in {"body", "cleanup"}
    BY <1>1, <1>2, <1>5 DEF Fails, Raise, AtStep, Placed
  <2>2. ASSUME part = "body", Cleanup # <<>>, NEW x \in held' PROVE ReleasedFrom(Cleanup, 1, x)
    <3>1. CASE x \in Acquires(Step)
      BY <1>1, <2>1, <2>2, <3>1, AcquiredDue
    <3>2. CASE x \in held
      BY <1>1, <2>2, <3>2 DEF HeldInv
    <3> QED
      BY <1>5, <2>2, <3>1, <3>2 DEF Fails
  <2> QED
    BY <2>1, <2>2 DEF HeldInv
<1>6. CASE Skips
  <2>1. /\ AtStep /\ Step.do = "leave" /\ Body' = Body /\ Cleanup' = Cleanup
        /\ part' = part /\ raised' = raised /\ cut' = cut /\ held' = held
        /\ part \in {"body", "cleanup"}
    BY <1>1, <1>2, <1>6 DEF Skips, AtStep, Placed
  <2>2. part = "body"
    BY <1>1, <2>1, CleanupStarts
  <2>3. Cleanup # <<>>
    BY <1>1, <2>1, <2>2 DEF Tidy, AtStep, Step
  <2> QED
    BY <1>1, <2>1, <2>2, <2>3 DEF HeldInv
<1>7. CASE Ends
  <2>1. /\ pc = Len(Code) + 1 /\ pc' = 1 /\ Body' = Body /\ Cleanup' = Cleanup
        /\ raised' = raised /\ cut' = cut /\ held' = held
        /\ part' = IF part = "body" THEN "cleanup" ELSE "ended"
        /\ part \in {"body", "cleanup"}
    BY <1>1, <1>2, <1>7 DEF Ends, EndPart, Placed
  <2>2. CASE part = "body"
    <3>1. Cleanup = <<>> => held = {}
      BY <1>1, <2>1, <2>2, DueOver DEF HeldInv
    <3> QED
      BY <1>1, <2>1, <2>2, <3>1 DEF HeldInv
  <2>3. CASE part = "cleanup"
    <3>1. Cleanup # <<>> => held = {}
      BY <1>1, <2>1, <2>3, DueOver DEF HeldInv
    <3> QED
      BY <1>1, <2>1, <2>3, <3>1 DEF HeldInv
  <2> QED
    BY <2>1, <2>2, <2>3
<1> QED
  BY <1>3, <1>4, <1>5, <1>6, <1>7 DEF Moves

LEMMA ScopesStep == ASSUME ReleaseInv, Moves PROVE ScopesInv'
<1>1. /\ Placed /\ ScopesInv
      /\ DOMAIN Body = 1 .. Len(Body) /\ DOMAIN Cleanup = 1 .. Len(Cleanup)
      /\ Body \in Seq(Steps) /\ Cleanup \in Seq(Steps)
      /\ Code = IF part = "body" THEN Body ELSE Cleanup
      /\ Tidy(Body, Cleanup)
  BY CodeShape DEF ReleaseInv
<1>2. ASSUME program' = program PROVE Body' = Body /\ Cleanup' = Cleanup
  BY <1>2 DEF Body, Cleanup
<1>3. CASE Stays \/ Rests
  BY <1>1, <1>2, <1>3 DEF Stays, AtStep, Rests, control, ScopesInv
<1>4. CASE Passes
  <2>1. /\ AtStep /\ pc \in Nat /\ pc' = pc + 1 /\ Body' = Body /\ Cleanup' = Cleanup
        /\ part' = part /\ raised' = raised
        /\ part \in {"body", "cleanup"}
        /\ DOMAIN Body \subseteq Nat /\ DOMAIN Cleanup \subseteq Nat
    BY <1>1, <1>2, <1>4 DEF Passes, Pass, AtStep, Placed
  <2>2. \A t \in scopes' : ~Closes(Step, t)
    BY <1>4 DEF Passes, Closes
  <2>3. CASE part = "body"
    <3>1. Step = Body[pc] /\ pc \in DOMAIN Body
      BY <1>1, <2>1, <2>3 DEF Step, AtStep
    <3>2. ASSUME NEW t \in scopes'
          PROVE  /\ \E k \in DOMAIN Body : k < pc + 1 /\ Body[k].do = "create"
                 /\ ClosedFrom(Body, pc + 1, t) \/ ClosedFrom(Cleanup, 1, t)
      <4>1. CASE t \in scopes
        <5>1. \E k \in DOMAIN Body : k < pc + 1 /\ Body[k].do = "create"
          BY <1>1, <2>1, <2>3, <4>1 DEF ScopesInv
        <5>2. ClosedFrom(Body, pc, t) \/ ClosedFrom(Cleanup, 1, t)
          BY <1>1, <2>3, <4>1 DEF ScopesInv
        <5> QED
          BY <2>1, <2>2, <3>1, <3>2, <5>1, <5>2, DueMoves
      <4>2. CASE t \in Made
        <5>1. Step.do = "create" /\ t \in Step.on
          BY <4>2 DEF Made
        <5>2. \/ \E k \in DOMAIN Body : k > pc /\ Closes(Body[k], t)
              \/ \E j \in DOMAIN Cleanup : Closes(Cleanup[j], t)
          BY <1>1, <3>1, <5>1 DEF Tidy
        <5>3. ClosedFrom(Body, pc + 1, t) \/ ClosedFrom(Cleanup, 1, t)
          <6>1. ASSUME NEW k \in DOMAIN Body, k > pc PROVE k >= pc + 1
            BY <2>1, <6>1
          <6>2. \A j \in DOMAIN Cleanup : j >= 1
            BY <1>1
          <6> QED
            BY <5>2, <6>1, <6>2 DEF ClosedFrom
        <5> QED
          BY <2>1, <3>1, <5>1, <5>3
      <4> QED
        BY <1>4, <3>2, <4>1, <4>2 DEF Passes
    <3> QED
      BY <2>1, <2>3, <3>2 DEF ScopesInv
  <2>4. CASE part = "cleanup"
    <3>1. scopes' \subseteq scopes
      BY <1>1, <1>4, <2>1, <2>4, CleanupStarts DEF Passes
    <3>2. ASSUME ~raised, NEW t \in scopes' PROVE ClosedFrom(Cleanup, pc + 1, t)
      <4>1. ~Closes(Cleanup[pc], t)
        BY <1>1, <2>2, <2>4, <3>2 DEF Step
      <4> QED
        BY <1>1, <2>1, <2>4, <3>1, <3>2, <4>1, DueMoves DEF ScopesInv
    <3> QED
      BY <2>1, <2>4, <3>2 DEF ScopesInv
  <2> QED
    BY <2>1, <2>3, <2>4
<1>5. CASE Fails
  BY <1>5 DEF Fails, Raise, ScopesInv
<1>6. CASE Skips
  <2>1. /\ AtStep /\ Step.do = "leave" /\ Body' = Body /\ Cleanup' = Cleanup
        /\ part' = part /\ raised' = raised /\ scopes' = scopes
        /\ part \in {"body", "cleanup"}
    BY <1>1, <1>2, <1>6 DEF Skips, AtStep, Placed
  <2>2. part = "body"
    BY <1>1, <2>1, CleanupStarts
  <2>3. pc \in DOMAIN Body /\ \A k \in 1 .. pc : Body[k].do # "create"
    BY <1>1, <2>1, <2>2 DEF Tidy, AtStep, Step
  <2>4. scopes = {}
    BY <1>1, <2>2, <2>3 DEF ScopesInv
  <2> QED
    BY <2>1, <2>2, <2>4 DEF ScopesInv
<1>7. CASE Ends
  <2>1. /\ pc = Len(Code) + 1 /\ pc' = 1 /\ Body' = Body /\ Cleanup' = Cleanup
        /\ raised' = raised /\ scopes' = scopes
        /\ part' = IF part = "body" THEN "cleanup" ELSE "ended"
        /\ part \in {"body", "cleanup"}
    BY <1>1, <1>2, <1>7 DEF Ends, EndPart, Placed
  <2>2. CASE part = "body"
    BY <1>1, <2>1, <2>2, DueOver DEF ScopesInv
  <2>3. CASE part = "cleanup"
    BY <1>1, <2>1, <2>3, DueOver DEF ScopesInv
  <2> QED
    BY <2>1, <2>2, <2>3
<1> QED
  BY <1>3, <1>4, <1>5, <1>6, <1>7 DEF Moves

LEMMA ReleaseStep == ReleaseInv /\ [Next]_vars => ReleaseInv'
BY NextMoves, PlacedStep, HeldStep, ScopesStep DEF ReleaseInv

LEMMA ReleaseInvariant == Spec => []ReleaseInv
BY ReleaseInit, ReleaseStep, PTL DEF Spec

(* For every program of the demos: when its finally clause has run to its  *)
(* end, Chrome, the connection and Playwright are released, whatever       *)
(* raised an error and whenever Ctrl-C came; without such a clause the     *)
(* same holds if nothing was raised (demo/main.py:315-321,                 *)
(* multi_tab.py:528-538, bench_agentcdp_vs_pw.py:689-698).                 *)
THEOREM ReleasedCorrect == Spec => []Released
<1>1. ReleaseInv => Released
  <2> SUFFICES ASSUME ReleaseInv, part = "ended", ~cut
               PROVE  /\ Cleanup # <<>> => held = {}
                      /\ ~raised => held = {} /\ scopes = {}
    BY DEF Released, Cleanup
  <2> QED
    BY DEF ReleaseInv, HeldInv, ScopesInv
<1> QED
  BY <1>1, ReleaseInvariant, PTL

-----------------------------------------------------------------------------
(* Undisturbed runs                                                        *)

(* Until something outside goes wrong, the connection is up from connect   *)
(* to close, and calls over it come back with a result.                    *)
ClientCalm ==
    /\ socket \in {"none", "open", "closed"} /\ receiver # "failed"
    /\ socket = "open" => connected
    /\ \A c \in Callers :
          /\ answer[c] \in {"none", "ok"}
          /\ call[c] = "sending" => socket # "none"
    /\ socket # "closed" =>
          failed = {} /\ \A c \in Callers : call[c] \notin {"error", "timeout", "lost"}

(* And at each step of the body what the text before it lets one expect is *)
(* there.                                                                  *)
BodyCalm ==
    part = "body" /\ pc \in DOMAIN Body =>
        /\ socket = "closed" => \E k \in DOMAIN Body : k < pc /\ Body[k].do = "disconnect"
        /\ socket = "none" => \A k \in DOMAIN Body : k < pc => Body[k].do # "connect"
        /\ \A t \in OpenBefore(Body, pc) \ scopes : begun /\ Closes(Body[pc], t)

CalmInv == ~disturbed => ~raised /\ ClientCalm /\ BodyCalm

LEMMA CalmInit == Init => CalmInv
<1> SUFFICES ASSUME Init PROVE ClientCalm /\ BodyCalm /\ ~raised
  BY DEF CalmInv
<1>1. ClientCalm /\ ~raised
  BY DEF Init, ClientInit, ClientCalm
<1>2. BodyCalm
  <2>1. DOMAIN Body \subseteq Nat \ {0}
    BY ProgramsAssumption DEF Init, Body
  <2>2. OpenBefore(Body, 1) = {}
    BY <2>1 DEF OpenBefore
  <2> QED
    BY <2>1, <2>2 DEF Init, ClientInit, BodyCalm
<1> QED
  BY <1>1, <1>2

(* What is open before the next step.                                      *)
LEMMA OpenMoves ==
    ASSUME NEW code \in Seq(Steps), NEW i \in DOMAIN code, NEW t \in OpenBefore(code, i + 1)
    PROVE  \/ code[i].do = "create" /\ t \in code[i].on
           \/ t \in OpenBefore(code, i) /\ ~Closes(code[i], t)
<1>1. DOMAIN code \subseteq Nat
  OBVIOUS
<1>2. PICK k \in DOMAIN code :
        /\ k < i + 1 /\ code[k].do = "create" /\ t \in code[k].on
        /\ \A n \in k + 1 .. (i + 1) - 1 : ~Closes(code[n], t)
  BY DEF OpenBefore
<1>3. CASE k = i
  BY <1>2, <1>3
<1>4. CASE k < i
  <2>1. i \in k + 1 .. (i + 1) - 1 /\ \A n \in k + 1 .. i - 1 : n \in k + 1 .. (i + 1) - 1
    BY <1>1, <1>4
  <2>2. t \in OpenBefore(code, i)
    BY <1>2, <1>4, <2>1 DEF OpenBefore
  <2> QED
    BY <1>2, <2>1, <2>2
<1> QED
  BY <1>1, <1>2, <1>3, <1>4

(* What a step of main finds in an undisturbed run.                        *)
LEMMA Expectations ==
    ASSUME Placed, CalmInv, ~disturbed, AtStep
    PROVE  /\ Step.do \in {"send", "alert", "request", "gather", "check"} =>
                 /\ socket # "closed" /\ failed = {}
                 /\ \A c \in Callers : call[c] \notin {"error", "timeout", "lost"}
           /\ Step.do = "check" => connected /\ socket # "none"
           /\ Step.do = "use" => "error" \in Step.tolerates \/ Step.on \subseteq scopes
           /\ Step.do \in {"request", "gather"} =>
                 "error" \in Step.tolerates \/ Step.on \subseteq scopes \cup Tasks
           /\ Step.do = "stall" => "timeout" \in Step.tolerates
<1>1. CASE part = "cleanup"
  <2>1. Step.do \in {"close", "release", "disconnect", "kill"}
    BY <1>1, CodeShape DEF AtStep, Step, Tidy
  <2> QED
    BY <2>1
<1>2. CASE part = "body"
  <2>1. Step = Body[pc] /\ pc \in DOMAIN Body /\ Orderly(Body) /\ ClientCalm /\ BodyCalm
    BY <1>2, CodeShape DEF AtStep, Step, CalmInv
  <2>2. Step.do \in {"send", "alert", "request", "gather", "check"} => socket # "closed"
    BY <1>2, <2>1 DEF BodyCalm, Orderly
  <2>3. Step.do = "check" => socket # "none"
    BY <1>2, <2>1 DEF BodyCalm, Orderly
  <2>4. Step.do \in {"use", "request", "gather"} => OpenBefore(Body, pc) \subseteq scopes
    BY <1>2, <2>1 DEF BodyCalm, Closes
  <2>5. /\ Step.do = "use" =>
              "error" \in Step.tolerates \/ Step.on \subseteq OpenBefore(Body, pc)
        /\ Step.do \in {"request", "gather"} =>
              "error" \in Step.tolerates \/ Step.on \subseteq OpenBefore(Body, pc) \cup Tasks
        /\ Step.do = "stall" => "timeout" \in Step.tolerates
    BY <2>1 DEF Orderly
  <2>6. Step.do = "check" => connected
    BY <2>1, <2>2, <2>3 DEF ClientCalm
  <2> QED
    BY <2>1, <2>2, <2>3, <2>4, <2>5, <2>6 DEF ClientCalm
<1> QED
  BY <1>1, <1>2 DEF AtStep, Placed

(* As long as nothing is disturbed, no step of main raises anything.       *)
LEMMA NothingRaised ==
    ASSUME Placed, CalmInv, ~disturbed, ~disturbed', [Next]_vars
    PROVE  ~raised'
<1>1. ~raised /\ ClientCalm
  BY DEF CalmInv
<1>2. ASSUME NEW what, At(what) PROVE AtStep /\ Step.do = what
  BY <1>2 DEF At, AtStep
<1>3. ASSUME UNCHANGED raised \/ Pass PROVE ~raised'
  BY <1>1, <1>3 DEF Pass
<1>4. CASE Launch \/ Open \/ External \/ ReleaseExternal \/ Closed \/ Assert
  BY <1>3, <1>4 DEF Launch, Open, External, ReleaseExternal, Closed, Assert
<1>5. CASE CommandDone
  <2>1. "main" \in Callers
    BY CallersAssumption
  <2>2. call["main"] = "ok"
    BY <1>2, <1>5, <2>1, Expectations DEF CommandDone, Results
  <2> QED
    BY <1>3, <1>5, <2>2 DEF CommandDone
<1>6. CASE Use
  <2>1. AtStep /\ Step.do = "use"
    BY <1>2, <1>6 DEF Use
  <2> QED
    BY <1>3, <1>6, <2>1, Expectations DEF Use, Throw
<1>7. CASE EmitAndWait
  <2>1. AtStep /\ Step.do \in {"request", "gather"}
    BY <1>2, <1>7 DEF EmitAndWait
  <2> QED
    BY <1>3, <1>7, <2>1, Expectations DEF EmitAndWait, Throw
<1>8. CASE RequestDone
  <2>1. AtStep /\ Step.do \in {"request", "gather"}
    BY <1>2, <1>8 DEF RequestDone
  <2>2. failed = {}
    BY <2>1, Expectations
  <2> QED
    BY <1>3, <1>8, <2>2 DEF RequestDone
<1>9. CASE Stall
  <2>1. AtStep /\ Step.do = "stall"
    BY <1>2, <1>9 DEF Stall
  <2> QED
    BY <1>3, <1>9, <2>1, Expectations DEF Stall, Throw
<1>10. CASE CloseConnection
  BY <1>1, <1>3, <1>10 DEF CloseConnection, ClientCalm
<1>11. CASE Check
  <2>1. AtStep /\ Step.do = "check"
    BY <1>2, <1>11 DEF Check
  <2> QED
    BY <1>3, <1>11, <2>1, Expectations DEF Check
<1>12. CASE EndPart \/ Command \/ Close \/ CloseOverdue \/ Leave
  BY <1>3, <1>12 DEF EndPart, Command, Close, CloseOverdue, Leave, control
<1>13. CASE Create \/ Refused \/ KillChrome \/ Pause
  BY <1>3, <1>13 DEF Create, Refused, KillChrome, Pause
<1>14. CASE RequestTimesOut \/ Interrupt
  BY <1>14 DEF RequestTimesOut, Interrupt
<1>15. CASE Answer \/ DialogOpens \/ Loss \/ ReceiverStops \/ Shutdown \/ UNCHANGED vars
  BY <1>3, <1>15 DEF Answer, DialogOpens, Loss, ReceiverStops, Shutdown, control, vars
<1>16. ASSUME NEW w \in Workers, Worker(w) PROVE ~raised'
  BY <1>3, <1>16 DEF Worker, HandlerSends, HandlerDone, control
<1>17. ASSUME NEW c \in Callers, Client(c) PROVE ~raised'
  BY <1>3, <1>17 DEF Client, Transport, CallTimesOut, control
<1> QED
  BY <1>4, <1>5, <1>6, <1>7, <1>8, <1>9, <1>10, <1>11, <1>12, <1>13, <1>14, <1>15, <1>16, <1>17
  DEF Next, MainStep

-----------------------------------------------------------------------------
(* The client                                                              *)

(* Calls that start, go on, are forgotten, or end well.                    *)
LEMMA CallsCalm ==
    ASSUME ClientCalm, UNCHANGED <<socket, receiver, connected>>,
           failed' \subseteq failed \/ socket = "closed",
           \A c \in Callers :
              /\ answer'[c] \in {answer[c], "none", "ok"}
              /\ \/ call'[c] \in {call[c], "idle", "waiting", "ok", "stalled"}
                 \/ call'[c] = "sending" /\ socket # "none"
                 \/ socket = "closed" /\ call'[c] # "sending"
    PROVE  ClientCalm'
BY DEF ClientCalm

LEMMA CallsSame ==
    ASSUME ClientCalm, UNCHANGED clientVars, failed' \subseteq failed
    PROVE  ClientCalm'
BY DEF ClientCalm, clientVars, callVars

LEMMA SendCalm ==
    ASSUME ClientCalm, Numbers, NEW c \in Callers, Send(c), failed' = failed
    PROVE  ClientCalm'
<1>1. \A d \in Callers : call'[d] \in {call[d], "sending"} /\ answer'[d] = answer[d]
  BY DEF Send, Numbers
<1> QED
  BY <1>1, CallsCalm DEF Send

LEMMA AbandonCalm ==
    ASSUME ClientCalm, NEW S, Abandon(S), failed' = failed, UNCHANGED <<socket, receiver, connected>>
    PROVE  ClientCalm'
<1>1. \A c \in Callers : call'[c] \in {call[c], "idle"} /\ answer'[c] \in {answer[c], "none"}
  BY DEF Abandon
<1> QED
  BY <1>1, CallsCalm

LEMMA EndCalm ==
    ASSUME ClientCalm, Numbers, NEW c \in Callers, NEW result, End(c, result),
           result = "ok" \/ (socket = "closed" /\ result # "sending"),
           failed' = failed, UNCHANGED <<socket, receiver, connected>>
    PROVE  ClientCalm'
<1>1. \A d \in Callers : call'[d] \in {call[d], result} /\ answer'[d] \in {answer[d], "none"}
  BY DEF End, Numbers
<1> QED
  BY <1>1, CallsCalm

LEMMA ClientCalmMain ==
    ASSUME Placed, Numbers, CalmInv, ~disturbed, ~disturbed', MainStep
    PROVE  ClientCalm'
<1> USE CallersAssumption
<1>1. ClientCalm
  BY DEF CalmInv
<1>2. CASE Open
  <2>1. Connect /\ failed' = failed
    BY <1>2 DEF Open, work
  <2> QED
    BY <1>1, <2>1 DEF Connect, callVars, ClientCalm
<1>3. CASE Command
  BY <1>1, <1>3, SendCalm DEF Command, work
<1>4. CASE CommandDone
  <2>1. \A c \in Callers : call'[c] \in {call[c], "idle"}
    BY <1>4 DEF CommandDone, Numbers
  <2> QED
    BY <1>1, <1>4, <2>1, CallsCalm DEF CommandDone
<1>5. CASE Stall
  <2>1. \A c \in Callers : call'[c] \in {call[c], "stalled"}
    BY <1>5 DEF Stall
  <2> QED
    BY <1>1, <1>5, <2>1, CallsCalm DEF Stall
<1>6. CASE CloseOverdue
  BY <1>1, <1>6, AbandonCalm DEF CloseOverdue
<1>7. CASE CloseConnection
  <2>1. CASE "client" \in held
    <3>1. /\ socket' = (IF socket = "none" THEN "none" ELSE "closed")
          /\ receiver' # "failed" /\ failed' = failed /\ UNCHANGED callVars
      BY <1>1, <1>7, <2>1 DEF CloseConnection, CloseClient, ClientCalm, work
    <3> QED
      BY <1>1, <3>1 DEF ClientCalm, callVars
  <2>2. CASE "client" \notin held
    BY <1>1, <1>7, <2>2, CallsSame DEF CloseConnection, work
  <2> QED
    BY <2>1, <2>2
<1>8. CASE EmitAndWait
  BY <1>1, <1>8, CallsSame DEF EmitAndWait
<1>9. CASE EndPart \/ Launch \/ Create \/ Use \/ Refused \/ RequestDone \/ RequestTimesOut
  BY <1>1, <1>9, CallsSame DEF EndPart, Launch, Create, Use, Refused, RequestDone,
                               RequestTimesOut, work
<1>10. CASE Close \/ Closed \/ KillChrome \/ External \/ ReleaseExternal \/ Check \/ Assert \/ Leave \/ Pause
  BY <1>1, <1>10, CallsSame DEF Close, Closed, KillChrome, External, ReleaseExternal, Check, Assert,
                                Leave, Pause, work
<1> QED
  BY <1>2, <1>3, <1>4, <1>5, <1>6, <1>7, <1>8, <1>9, <1>10 DEF MainStep

LEMMA ClientCalmStep ==
    ASSUME Placed, Numbers, CalmInv, ~disturbed, ~disturbed', [Next]_vars
    PROVE  ClientCalm'
<1> USE CallersAssumption
<1>1. ClientCalm
  BY DEF CalmInv
<1>2. ASSUME NEW w \in Workers, HandlerSends(w) PROVE ClientCalm'
  BY <1>1, <1>2, SendCalm DEF HandlerSends, work
<1>3. ASSUME NEW w \in Workers, HandlerDone(w) PROVE ClientCalm'
  <2>1. \A c \in Callers : call'[c] \in {call[c], "idle"}
    BY <1>3 DEF HandlerDone, Numbers
  <2>2. failed' \subseteq failed \/ socket = "closed"
    <3>1. w \in Callers
      BY <1>3
    <3>2. socket # "closed" => call[w] = "ok"
      BY <1>1, <1>3, <3>1 DEF HandlerDone, ClientCalm, Results
    <3> QED
      BY <1>3, <3>2 DEF HandlerDone
  <2> QED
    BY <1>1, <1>3, <2>1, <2>2, CallsCalm DEF HandlerDone
<1>4. ASSUME NEW c \in Callers, Client(c) PROVE ClientCalm'
  <2>1. CASE Written(c)
    <3>1. \A d \in Callers : call'[d] \in {call[d], "waiting"}
      BY <2>1 DEF Written, Numbers
    <3> QED
      BY <1>1, <1>4, <2>1, <3>1, CallsCalm DEF Written, Client, Transport, CallTimesOut, work
  <2>2. CASE NotWritten(c)
    <3>1. socket = "closed"
      BY <1>1, <2>2 DEF NotWritten, ClientCalm
    <3> QED
      BY <1>1, <1>4, <2>2, <3>1, EndCalm DEF NotWritten, Client, Transport, CallTimesOut, work
  <2>3. CASE Return(c)
    <3>1. answer[c] = "ok"
      BY <1>1, <2>3 DEF Return, ClientCalm
    <3> QED
      BY <1>1, <1>4, <2>3, <3>1, EndCalm DEF Return, Client, Transport, CallTimesOut, work
  <2> QED
    BY <1>4, <2>1, <2>2, <2>3 DEF Client, Transport, CallTimesOut
<1>5. CASE Answer
  <2>1. PICK c \in Callers : Answered(c, "ok")
    BY <1>5 DEF Answer
  <2>2. \A d \in Callers : answer'[d] \in {answer[d], "ok"}
    BY <2>1 DEF Answered, Numbers
  <2> QED
    BY <1>1, <1>5, <2>1, <2>2, CallsCalm DEF Answered, Answer, work
<1>6. CASE DialogOpens
  BY <1>1, <1>6, CallsSame DEF DialogOpens
<1>7. CASE ReceiverStops
  BY <1>1, <1>7 DEF ReceiverStops, ReceiverEnds, ClientCalm
<1>8. CASE Shutdown
  BY <1>1, <1>8, AbandonCalm DEF Shutdown
<1>9. CASE UNCHANGED vars
  BY <1>1, <1>9, CallsSame DEF vars, work
<1>10. CASE Interrupt \/ Loss
  BY <1>10 DEF Interrupt, Loss
<1> QED
  BY <1>2, <1>3, <1>4, <1>5, <1>6, <1>7, <1>8, <1>9, <1>10, ClientCalmMain DEF Next, Worker

-----------------------------------------------------------------------------
(* The body                                                                *)

(* Only connect opens the socket and only disconnect closes it.            *)
LEMMA SocketMoves ==
    ASSUME Placed, MainStep, ~disturbed'
    PROVE  /\ socket' = "none" => socket = "none"
           /\ socket' = "closed" => socket = "closed" \/ (Step.do = "disconnect" /\ (Pass \/ Raise))
           /\ AtStep /\ Step.do = "connect" => socket' # "none"
<1>1. ASSUME NEW what, At(what) PROVE AtStep /\ Step.do = what
  BY <1>1 DEF At, AtStep
<1>2. ASSUME socket' = socket, ~AtStep \/ Step.do # "connect"
      PROVE  /\ socket' = "none" => socket = "none"
             /\ socket' = "closed" => socket = "closed" \/ (Step.do = "disconnect" /\ (Pass \/ Raise))
             /\ AtStep /\ Step.do = "connect" => socket' # "none"
  BY <1>2
<1>3. CASE EndPart
  <2>1. ~AtStep
    BY <1>3, CodeShape DEF EndPart, AtStep
  <2> QED
    BY <1>2, <1>3, <2>1 DEF EndPart, clientVars
<1>4. CASE Open
  <2>1. socket' = "open"
    BY <1>4 DEF Open, Connect, clientVars
  <2>2. Step.do = "connect"
    BY <1>1, <1>4 DEF Open
  <2> QED
    BY <2>1, <2>2
<1>5. CASE CloseConnection
  <2>1. AtStep /\ Step.do = "disconnect"
    BY <1>1, <1>5 DEF CloseConnection
  <2>2. Pass \/ Raise
    BY <1>5 DEF CloseConnection, Throw
  <2>3. socket' = "none" => socket = "none"
    BY <1>5 DEF CloseConnection, CloseClient, clientVars
  <2> QED
    BY <2>1, <2>2, <2>3
<1>6. CASE Launch \/ Create \/ Use \/ Refused \/ EmitAndWait \/ RequestDone \/ RequestTimesOut
  <2>1. socket' = socket
    BY <1>6 DEF Launch, Create, Use, Refused, EmitAndWait, RequestDone, RequestTimesOut,
                clientVars
  <2>2. Step.do # "connect"
    BY <1>1, <1>6 DEF Launch, Create, Use, Refused, EmitAndWait, RequestDone, RequestTimesOut
  <2> QED
    BY <1>2, <2>1, <2>2
<1>7. CASE Close \/ Closed \/ KillChrome \/ External \/ ReleaseExternal \/ Check \/ Assert \/ Leave \/ Pause
  <2>1. socket' = socket
    BY <1>7 DEF Close, Closed, KillChrome, External, ReleaseExternal, Check, Assert, Leave, Pause,
                clientVars
  <2>2. Step.do # "connect"
    BY <1>1, <1>7 DEF Close, Closed, KillChrome, External, ReleaseExternal, Check, Assert, Leave, Pause
  <2> QED
    BY <1>2, <2>1, <2>2
<1>8. CASE Command \/ CommandDone \/ Stall \/ CloseOverdue
  <2>1. socket' = socket
    BY <1>8 DEF Command, Send, CommandDone, Stall, CloseOverdue
  <2>2. Step.do # "connect"
    BY <1>1, <1>8 DEF Command, CommandDone, Stall, CloseOverdue
  <2> QED
    BY <1>2, <2>1, <2>2
<1> QED
  BY <1>3, <1>4, <1>5, <1>6, <1>7, <1>8 DEF MainStep

LEMMA BodyCalmMain ==
    ASSUME Placed, CalmInv, ~disturbed, ~disturbed', ~raised', MainStep
    PROVE  BodyCalm'
<1>1. /\ BodyCalm /\ Moves
      /\ Code = (IF part = "body" THEN Body ELSE Cleanup)
      /\ Body \in Seq(Steps) /\ DOMAIN Body = 1 .. Len(Body) /\ Len(Body) \in Nat
      /\ DOMAIN Code = 1 .. Len(Code)
  BY MainMoves, CodeShape DEF CalmInv
<1>2. ASSUME program' = program PROVE Body' = Body
  BY <1>2 DEF Body
<1>3. ~Raise
  BY DEF Raise
<1>4. CASE Stays \/ Rests
  <2>1. /\ Body' = Body /\ UNCHANGED <<part, pc>>
        /\ begun => begun'
        /\ \A t \in scopes \ scopes' : begun' /\ Closes(Step, t)
    <3>1. CASE Stays
      BY <1>2, <3>1 DEF Stays
    <3>2. CASE Rests
      BY <1>2, <3>2 DEF Rests, control
    <3> QED
      BY <1>4, <3>1, <3>2
  <2> SUFFICES ASSUME part = "body", pc \in DOMAIN Body
               PROVE  /\ socket' = "closed" => \E k \in DOMAIN Body : k < pc /\ Body[k].do = "disconnect"
                      /\ socket' = "none" => \A k \in DOMAIN Body : k < pc => Body[k].do # "connect"
                      /\ \A t \in OpenBefore(Body, pc) \ scopes' : begun' /\ Closes(Body[pc], t)
    BY <2>1 DEF BodyCalm
  <2>2. pc \in Nat /\ AtStep /\ Step = Body[pc]
    BY <1>1 DEF AtStep, Step
  <2>3. ~Pass
    BY <2>1, <2>2 DEF Pass
  <2>4. /\ socket' = "closed" => socket = "closed"
        /\ socket' = "none" => socket = "none"
    BY <1>3, <2>3, SocketMoves
  <2> QED
    BY <1>1, <2>1, <2>2, <2>4 DEF BodyCalm
<1>5. CASE Passes
  <2>1. /\ AtStep /\ Body' = Body /\ part' = part /\ pc' = pc + 1
        /\ scopes' = scopes \cup Made /\ pc \in Nat
    BY <1>1, <1>2, <1>5 DEF Passes, Pass, AtStep
  <2> SUFFICES ASSUME part = "body", pc + 1 \in DOMAIN Body
               PROVE  /\ socket' = "closed" => \E k \in DOMAIN Body : k < pc + 1 /\ Body[k].do = "disconnect"
                      /\ socket' = "none" => \A k \in DOMAIN Body : k < pc + 1 => Body[k].do # "connect"
                      /\ OpenBefore(Body, pc + 1) \subseteq scopes'
    BY <2>1 DEF BodyCalm
  <2>2. Step = Body[pc] /\ pc \in DOMAIN Body
    BY <1>1, <2>1 DEF AtStep, Step
  <2>3. socket' = "closed" => \E k \in DOMAIN Body : k < pc + 1 /\ Body[k].do = "disconnect"
    BY <1>1, <2>1, <2>2, SocketMoves DEF BodyCalm, Raise
  <2>4. ASSUME socket' = "none", NEW k \in DOMAIN Body, k < pc + 1 PROVE Body[k].do # "connect"
    <3>1. socket = "none" /\ Body[pc].do # "connect"
      BY <2>1, <2>2, <2>4, SocketMoves
    <3>2. k < pc \/ k = pc
      BY <1>1, <2>1, <2>4
    <3> QED
      BY <1>1, <2>2, <3>1, <3>2 DEF BodyCalm
  <2>5. ASSUME NEW t \in OpenBefore(Body, pc + 1) PROVE t \in scopes'
    <3>1. \/ Body[pc].do = "create" /\ t \in Body[pc].on
          \/ t \in OpenBefore(Body, pc) /\ ~Closes(Body[pc], t)
      BY <1>1, <2>2, OpenMoves
    <3> QED
      BY <1>1, <2>1, <2>2, <3>1 DEF BodyCalm, Made
  <2> QED
    BY <2>3, <2>4, <2>5
<1>6. CASE Fails
  BY <1>3, <1>6 DEF Fails
<1>7. CASE Skips
  <2>1. part' = "body" => pc' \notin DOMAIN Body'
    BY <1>1, <1>2, <1>7 DEF Skips
  <2> QED
    BY <2>1 DEF BodyCalm
<1>8. CASE Ends
  BY <1>8 DEF Ends, EndPart, BodyCalm
<1> QED
  BY <1>1, <1>4, <1>5, <1>6, <1>7, <1>8 DEF Moves

LEMMA BodyCalmStep ==
    ASSUME Placed, CalmInv, ~disturbed, ~disturbed', [Next]_vars
    PROVE  BodyCalm'
<1>1. ASSUME UNCHANGED <<program, control, scopes, socket>> PROVE BodyCalm'
  BY <1>1 DEF control, Body, BodyCalm, CalmInv
<1>2. CASE MainStep
  BY <1>2, NothingRaised, BodyCalmMain DEF Next
<1>3. CASE Interrupt \/ Loss
  BY <1>3 DEF Interrupt, Loss
<1>4. CASE Answer \/ DialogOpens \/ ReceiverStops \/ Shutdown \/ UNCHANGED vars
  BY <1>1, <1>4 DEF Answer, Answered, DialogOpens, ReceiverStops, ReceiverEnds, Shutdown,
                    clientVars, vars
<1>5. ASSUME NEW w \in Workers, Worker(w) PROVE BodyCalm'
  BY <1>1, <1>5 DEF Worker, HandlerSends, HandlerDone, Send
<1>6. ASSUME NEW c \in Callers, Client(c) PROVE BodyCalm'
  BY <1>1, <1>6 DEF Client, Transport, CallTimesOut, Written, NotWritten, Return, TimeOut
<1> QED
  BY <1>2, <1>3, <1>4, <1>5, <1>6 DEF Next

(* What is disturbed stays so.                                             *)
LEMMA DisturbedStays == [Next]_vars /\ disturbed => disturbed'
<1> SUFFICES ASSUME [Next]_vars, disturbed PROVE disturbed'
  OBVIOUS
<1>1. CASE EndPart \/ Launch \/ Open \/ Command \/ CommandDone \/ Create \/ Use \/ Refused
           \/ EmitAndWait \/ RequestDone \/ RequestTimesOut \/ Stall
  BY <1>1 DEF EndPart, Launch, Open, Command, CommandDone, Create, Use, Refused, EmitAndWait,
              RequestDone, RequestTimesOut, Stall
<1>2. CASE Close \/ Closed \/ CloseOverdue \/ CloseConnection \/ KillChrome
           \/ External \/ ReleaseExternal \/ Check \/ Assert \/ Leave \/ Pause
  BY <1>2 DEF Close, Closed, CloseOverdue, CloseConnection, KillChrome, External,
              ReleaseExternal, Check, Assert, Leave, Pause
<1>3. CASE Interrupt \/ Loss \/ Answer \/ DialogOpens \/ ReceiverStops \/ Shutdown \/ UNCHANGED vars
  BY <1>3 DEF Interrupt, Loss, Answer, DialogOpens, ReceiverStops, Shutdown, vars
<1>4. ASSUME NEW w \in Workers, Worker(w) PROVE disturbed'
  BY <1>4 DEF Worker, HandlerSends, HandlerDone
<1>5. ASSUME NEW c \in Callers, Client(c) PROVE disturbed'
  BY <1>5 DEF Client, Transport, CallTimesOut
<1> QED
  BY <1>1, <1>2, <1>3, <1>4, <1>5 DEF Next, MainStep

LEMMA CalmStep ==
    ReleaseInv /\ TableInv /\ CalmInv /\ [Next]_vars => CalmInv'
<1> SUFFICES ASSUME Placed, Numbers, CalmInv, [Next]_vars, ~disturbed'
             PROVE  (~raised /\ ClientCalm /\ BodyCalm)'
  BY DEF CalmInv, ReleaseInv, TableInv
<1>1. ~disturbed
  BY DisturbedStays
<1> QED
  BY <1>1, NothingRaised, ClientCalmStep, BodyCalmStep

LEMMA CalmInvariant == Spec => []CalmInv
BY ReleaseInvariant, TableInit, TableStep, CalmInit, CalmStep, PTL DEF Spec

(* For every program of the demos: a run in which nothing outside goes     *)
(* wrong comes to its end without an exception; no emit meets a scope that *)
(* is closed or not yet made, no command a socket that is, and no handler  *)
(* that outlives a close brings an error back.                             *)
THEOREM UndisturbedCorrect == Spec => []UndisturbedSucceeds
<1>1. CalmInv => UndisturbedSucceeds
  BY DEF CalmInv, UndisturbedSucceeds
<1> QED
  BY <1>1, CalmInvariant, PTL

-----------------------------------------------------------------------------
(* Types                                                                   *)

(* Who has a call under way has an event.                                  *)
BusyInv == \A w \in Workers : call[w] # "idle" => todo[w] > 0

ControlOK ==
    /\ part \in {"body", "cleanup", "ended"} /\ pc \in Nat
    /\ begun \in BOOLEAN /\ raised \in BOOLEAN /\ cut \in BOOLEAN

ThingsOK == held \subseteq Things /\ orphaned \subseteq Things /\ scopes \subseteq Scopes

WorkOK ==
    /\ todo \in [Workers -> Nat] /\ failed \subseteq Workers
    /\ dialog \in {"none", "open", "dismissed"}
    /\ interrupted \in BOOLEAN /\ disturbed \in BOOLEAN

LEMMA TypeParts ==
    TypeOK <=> ClientTypeOK /\ program \in DOMAIN Programs /\ ControlOK /\ ThingsOK /\ WorkOK
BY DEF TypeOK, ControlOK, ThingsOK, WorkOK

LEMMA TypeInit == Init => TypeOK /\ BusyInv
<1> SUFFICES ASSUME Init PROVE TypeOK /\ BusyInv
  OBVIOUS
<1>1. ClientTypeOK
  BY DEF Init, ClientInit, ClientTypeOK
<1>2. ControlOK /\ ThingsOK /\ program \in DOMAIN Programs
  BY DEF Init, ControlOK, ThingsOK
<1>3. WorkOK
  BY DEF Init, WorkOK
<1>4. \A w \in Workers : call[w] = "idle"
  BY CallersAssumption DEF Init, ClientInit
<1> QED
  BY <1>1, <1>2, <1>3, <1>4, TypeParts DEF BusyInv

LEMMA MainIsNoWorker == "main" \in Callers /\ "main" \notin Workers /\ Workers \subseteq Callers
BY CallersAssumption DEF Workers, Scopes, Tabs, Tasks

(* The client.                                                             *)
LEMMA SendTypes == ASSUME ClientTypeOK, NEW c \in Callers, Send(c) PROVE ClientTypeOK'
<1>1. NextNumber \in Nat
  BY DEF NextNumber, ClientTypeOK
<1> QED
  BY <1>1 DEF Send, ClientTypeOK

LEMMA EndTypes ==
    ASSUME ClientTypeOK, NEW c \in Callers, NEW result \in Results, End(c, result),
           UNCHANGED <<socket, receiver, connected>>
    PROVE  ClientTypeOK'
BY DEF End, ClientTypeOK

LEMMA AbandonTypes ==
    ASSUME ClientTypeOK, NEW S, Abandon(S), UNCHANGED <<socket, receiver, connected>>
    PROVE  ClientTypeOK'
BY DEF Abandon, ClientTypeOK

LEMMA ClientStutter == ASSUME ClientTypeOK, UNCHANGED clientVars PROVE ClientTypeOK'
BY DEF ClientTypeOK, clientVars, callVars

LEMMA CallTypes ==
    ASSUME ClientTypeOK, NEW c \in Callers, Client(c)
    PROVE  ClientTypeOK'
<1>1. CASE Written(c)
  BY <1>1 DEF Written, ClientTypeOK
<1>2. CASE NotWritten(c)
  BY <1>2, EndTypes DEF NotWritten, Results
<1>3. CASE Return(c)
  <2>1. answer[c] \in Results
    BY <1>3 DEF Return, ClientTypeOK, Results
  <2> QED
    BY <1>3, <2>1, EndTypes DEF Return
<1>4. CASE TimeOut(c)
  BY <1>4, EndTypes DEF TimeOut, Results
<1> QED
  BY <1>1, <1>2, <1>3, <1>4 DEF Client, Transport, CallTimesOut

LEMMA ClientTypeStep == ASSUME ClientTypeOK, [Next]_vars PROVE ClientTypeOK'
<1> USE MainIsNoWorker
<1>1. CASE Open
  <2>1. CASE Connect
    BY <2>1 DEF Connect, ClientTypeOK, callVars
  <2> QED
    BY <1>1, <2>1, ClientStutter DEF Open
<1>2. CASE Command
  BY <1>2, SendTypes DEF Command
<1>3. CASE CommandDone \/ Stall
  BY <1>3 DEF CommandDone, Stall, ClientTypeOK
<1>4. CASE CloseOverdue \/ Shutdown
  BY <1>4, AbandonTypes DEF CloseOverdue, Shutdown
<1>5. CASE Interrupt
  BY <1>5, AbandonTypes DEF Interrupt
<1>6. CASE CloseConnection
  <2>1. CASE CloseClient
    BY <2>1 DEF CloseClient, ClientTypeOK, callVars
  <2> QED
    BY <1>6, <2>1, ClientStutter DEF CloseConnection
<1>7. CASE Answer
  BY <1>7 DEF Answer, Answered, ClientTypeOK
<1>8. CASE Loss
  BY <1>8 DEF Loss, LoseSocket, ReceiverFails, ClientTypeOK, callVars
<1>9. CASE ReceiverStops
  BY <1>9 DEF ReceiverStops, ReceiverEnds, ClientTypeOK, callVars
<1>10. ASSUME NEW w \in Workers, Worker(w) PROVE ClientTypeOK'
  <2>1. CASE HandlerSends(w)
    BY <1>10, <2>1, SendTypes DEF HandlerSends
  <2>2. CASE HandlerDone(w)
    BY <1>10, <2>2 DEF HandlerDone, ClientTypeOK
  <2> QED
    BY <1>10, <2>1, <2>2 DEF Worker
<1>11. CASE EndPart \/ Launch \/ Create \/ Use \/ Refused \/ EmitAndWait \/ RequestDone
            \/ RequestTimesOut \/ DialogOpens \/ UNCHANGED vars
  BY <1>11, ClientStutter DEF EndPart, Launch, Create, Use, Refused, EmitAndWait, RequestDone,
                              RequestTimesOut, DialogOpens, vars
<1>12. CASE Close \/ Closed \/ KillChrome \/ External \/ ReleaseExternal \/ Check \/ Assert \/ Leave \/ Pause
  BY <1>12, ClientStutter DEF Close, Closed, KillChrome, External, ReleaseExternal, Check, Assert,
                              Leave, Pause
<1> QED
  BY <1>1, <1>2, <1>3, <1>4, <1>5, <1>6, <1>7, <1>8, <1>9, <1>10, <1>11, <1>12, CallTypes
  DEF Next, MainStep

(* Main.                                                                   *)
LEMMA ControlStep == ASSUME ControlOK, Placed', Moves PROVE ControlOK'
<1>1. part' \in {"body", "cleanup", "ended"} /\ pc' \in Nat
  BY DEF Placed
<1>2. CASE Stays
  BY <1>1, <1>2 DEF Stays, ControlOK
<1>3. CASE Passes
  BY <1>1, <1>3 DEF Passes, Pass, ControlOK
<1>4. CASE Fails
  <2>1. begun' \in BOOLEAN /\ raised' \in BOOLEAN /\ cut' \in BOOLEAN
    BY <1>4 DEF Fails, Raise
  <2> QED
    BY <1>1, <2>1 DEF ControlOK
<1>5. CASE Skips \/ Ends \/ Rests
  BY <1>1, <1>5 DEF Skips, Ends, EndPart, Rests, control, ControlOK
<1> QED
  BY <1>2, <1>3, <1>4, <1>5 DEF Moves

LEMMA ThingsStep == ASSUME ThingsOK, Placed, [Next]_vars PROVE ThingsOK'
<1>1. Moves
  BY NextMoves
<1>2. ASSUME AtStep
      PROVE  Acquires(Step) \subseteq Things /\ Made \subseteq Scopes
  BY <1>2, CodeShape DEF AtStep, Step, Tidy, Made
<1>3. held' \subseteq Things /\ scopes' \subseteq Scopes
  BY <1>1, <1>2 DEF ThingsOK, Moves, Stays, Passes, Fails, Skips, Ends, Rests
<1>4. orphaned' \subseteq Things
  <2>1. CASE Interrupt
    <3>1. Starting \subseteq Things
      BY <1>2 DEF Starting, Things, At, AtStep, Acquires
    <3> QED
      BY <2>1, <3>1 DEF Interrupt, ThingsOK
  <2>2. CASE EndPart \/ Launch \/ Open \/ Command \/ CommandDone \/ Create \/ Use \/ Refused
             \/ EmitAndWait \/ RequestDone \/ RequestTimesOut \/ Stall
    BY <2>2 DEF EndPart, Launch, Open, Command, CommandDone, Create, Use, Refused, EmitAndWait,
                RequestDone, RequestTimesOut, Stall, things, ThingsOK
  <2>3. CASE Close \/ Closed \/ CloseOverdue \/ CloseConnection \/ KillChrome
             \/ External \/ ReleaseExternal \/ Check \/ Assert \/ Leave \/ Pause
    BY <2>3 DEF Close, Closed, CloseOverdue, CloseConnection, KillChrome, External,
                ReleaseExternal, Check, Assert, Leave, Pause, things, ThingsOK
  <2>4. CASE Loss \/ Answer \/ DialogOpens \/ ReceiverStops \/ Shutdown \/ UNCHANGED vars
    BY <2>4 DEF Loss, Answer, DialogOpens, ReceiverStops, Shutdown, vars, things, ThingsOK
  <2>5. ASSUME NEW w \in Workers, Worker(w) PROVE orphaned' \subseteq Things
    BY <2>5 DEF Worker, HandlerSends, HandlerDone, things, ThingsOK
  <2>6. ASSUME NEW c \in Callers, Client(c) PROVE orphaned' \subseteq Things
    BY <2>6 DEF Client, Transport, CallTimesOut, things, ThingsOK
  <2> QED
    BY <2>1, <2>2, <2>3, <2>4, <2>5, <2>6 DEF Next, MainStep
<1> QED
  BY <1>3, <1>4 DEF ThingsOK

(* The workers: an event is counted down by the handler that has it, once. *)
LEMMA BusyKept ==
    ASSUME WorkOK, BusyInv, todo' \in [Workers -> Nat],
           \A w \in Workers :
              \/ call'[w] = "idle"
              \/ todo'[w] > 0
              \/ call[w] # "idle" /\ todo'[w] >= todo[w]
    PROVE  BusyInv'
BY DEF BusyInv, WorkOK

LEMMA BusySame ==
    ASSUME WorkOK, BusyInv, todo' = todo, \A w \in Workers : call'[w] = call[w]
    PROVE  BusyInv'
BY DEF BusyInv

(* Events of scopes or tasks are forgotten with their calls.               *)
LEMMA BusyAbandon ==
    ASSUME WorkOK, BusyInv, NEW S, NEW T, T \subseteq S, Abandon(S),
           todo' = [w \in Workers |-> IF w \in T THEN 0 ELSE todo[w]]
    PROVE  BusyInv' /\ todo' \in [Workers -> Nat]
<1>1. todo' \in [Workers -> Nat]
  BY DEF WorkOK
<1>2. ASSUME NEW w \in Workers, call'[w] # "idle" PROVE call[w] # "idle" /\ todo'[w] >= todo[w]
  BY <1>2, MainIsNoWorker DEF Abandon, WorkOK
<1> QED
  BY <1>1, <1>2, BusyKept

LEMMA BusyMain ==
    ASSUME ClientTypeOK, WorkOK, BusyInv, MainStep
    PROVE  BusyInv' /\ todo' \in [Workers -> Nat]
<1> USE MainIsNoWorker
<1>0. todo \in [Workers -> Nat]
  BY DEF WorkOK
<1>1. CASE Command \/ CommandDone
  <2>1. todo' = todo /\ \A w \in Workers : call'[w] = call[w]
    BY <1>1 DEF Command, Send, CommandDone, work, ClientTypeOK
  <2> QED
    BY <1>0, <2>1, BusySame
<1>2. CASE EmitAndWait
  <2>1. /\ todo' \in [Workers -> Nat] /\ call' = call
        /\ \A w \in Workers : todo'[w] >= todo[w]
    BY <1>0, <1>2 DEF EmitAndWait, clientVars, callVars
  <2> QED
    BY <2>1, BusyKept
<1>3. CASE Stall
  <2>1. /\ todo' \in [Workers -> Nat]
        /\ \A w \in Workers : todo'[w] > 0 \/ (call'[w] = call[w] /\ todo'[w] >= todo[w])
    BY <1>0, <1>3 DEF Stall
  <2> QED
    BY <2>1, BusyKept
<1>4. CASE CloseOverdue
  BY <1>4, BusyAbandon DEF CloseOverdue
<1>5. CASE Open \/ CloseConnection
  <2>1. todo' = todo /\ call' = call
    BY <1>5 DEF Open, Connect, CloseConnection, CloseClient, work, clientVars, callVars
  <2> QED
    BY <1>0, <2>1, BusySame
<1>6. CASE EndPart \/ Launch \/ Create \/ Use \/ Refused \/ RequestDone \/ RequestTimesOut
  <2>1. todo' = todo /\ call' = call
    BY <1>6 DEF EndPart, Launch, Create, Use, Refused, RequestDone, RequestTimesOut,
                work, clientVars, callVars
  <2> QED
    BY <1>0, <2>1, BusySame
<1>7. CASE Close \/ Closed \/ KillChrome \/ External \/ ReleaseExternal \/ Check \/ Assert \/ Leave \/ Pause
  <2>1. todo' = todo /\ call' = call
    BY <1>7 DEF Close, Closed, KillChrome, External, ReleaseExternal, Check, Assert, Leave, Pause,
                work, clientVars, callVars
  <2> QED
    BY <1>0, <2>1, BusySame
<1> QED
  BY <1>1, <1>2, <1>3, <1>4, <1>5, <1>6, <1>7 DEF MainStep

LEMMA BusyStep ==
    ASSUME ClientTypeOK, WorkOK, BusyInv, [Next]_vars
    PROVE  BusyInv' /\ todo' \in [Workers -> Nat]
<1> USE MainIsNoWorker
<1>0. todo \in [Workers -> Nat]
  BY DEF WorkOK
<1>1. CASE Interrupt
  <2> DEFINE gathered == IF At("gather") THEN Step.on ELSE {}
  <2>1. /\ Abandon({"main"} \cup gathered)
        /\ todo' = [w \in Workers |-> IF w \in gathered THEN 0 ELSE todo[w]]
    BY <1>1 DEF Interrupt
  <2> HIDE DEF gathered
  <2> QED
    BY <2>1, BusyAbandon
<1>2. CASE Shutdown
  <2>1. todo' \in [Workers -> Nat] /\ \A w \in Workers : call'[w] = "idle"
    BY <1>2 DEF Shutdown, Abandon
  <2> QED
    BY <2>1, BusyKept
<1>3. CASE DialogOpens
  <2>1. /\ todo' \in [Workers -> Nat] /\ call' = call
        /\ \A w \in Workers : todo'[w] >= todo[w]
    BY <1>0, <1>3 DEF DialogOpens, clientVars, callVars
  <2> QED
    BY <2>1, BusyKept
<1>4. ASSUME NEW w \in Workers, HandlerSends(w) PROVE BusyInv' /\ todo' \in [Workers -> Nat]
  <2>1. /\ todo' = todo /\ todo[w] > 0
        /\ \A x \in Workers : x # w => call'[x] = call[x]
    BY <1>4 DEF HandlerSends, Send, work, ClientTypeOK
  <2>2. ASSUME NEW x \in Workers PROVE call'[x] = "idle" \/ todo'[x] > 0
    BY <2>1 DEF BusyInv
  <2> QED
    BY <1>0, <2>1, <2>2, BusyKept
<1>5. ASSUME NEW w \in Workers, HandlerDone(w) PROVE BusyInv' /\ todo' \in [Workers -> Nat]
  <2>1. todo[w] > 0
    BY <1>5 DEF HandlerDone, Results, BusyInv
  <2>2. /\ todo' \in [Workers -> Nat] /\ call'[w] = "idle"
        /\ \A x \in Workers : x # w => call'[x] = call[x] /\ todo'[x] = todo[x]
    BY <1>0, <1>5, <2>1 DEF HandlerDone, ClientTypeOK
  <2>3. ASSUME NEW x \in Workers PROVE call'[x] = "idle" \/ todo'[x] > 0
    BY <2>2 DEF BusyInv
  <2> QED
    BY <2>2, <2>3, BusyKept
<1>6. ASSUME NEW c \in Callers, Client(c) PROVE BusyInv' /\ todo' \in [Workers -> Nat]
  <2>1. todo' = todo /\ call[c] # "idle" /\ \A x \in Workers : x # c => call'[x] = call[x]
    BY <1>6 DEF Client, Transport, CallTimesOut, Written, NotWritten, Return, TimeOut, Overdue,
                End, work, ClientTypeOK
  <2>2. ASSUME NEW x \in Workers PROVE call'[x] = "idle" \/ todo'[x] > 0
    BY <2>1 DEF BusyInv
  <2> QED
    BY <1>0, <2>1, <2>2, BusyKept
<1>7. CASE Answer \/ Loss \/ ReceiverStops \/ UNCHANGED vars
  <2>1. todo' = todo /\ call' = call
    BY <1>7 DEF Answer, Answered, Loss, LoseSocket, ReceiverFails, ReceiverStops, ReceiverEnds,
                vars, work, clientVars, callVars
  <2> QED
    BY <1>0, <2>1, BusySame
<1> QED
  BY <1>1, <1>2, <1>3, <1>4, <1>5, <1>6, <1>7, BusyMain DEF Next, Worker

(* The rest: what failed, the dialog, and the history of the run.          *)
LEMMA RestStep ==
    ASSUME WorkOK, [Next]_vars
    PROVE  /\ failed' \subseteq Workers /\ dialog' \in {"none", "open", "dismissed"}
           /\ interrupted' \in BOOLEAN /\ disturbed' \in BOOLEAN
<1>1. CASE EndPart \/ Launch \/ Open \/ Command \/ CommandDone \/ Create \/ Use \/ Refused
           \/ EmitAndWait \/ RequestDone \/ RequestTimesOut \/ Stall
  BY <1>1 DEF EndPart, Launch, Open, Command, CommandDone, Create, Use, Refused, EmitAndWait,
              RequestDone, RequestTimesOut, Stall, work, WorkOK
<1>2. CASE Close \/ Closed \/ CloseOverdue \/ CloseConnection \/ KillChrome
           \/ External \/ ReleaseExternal \/ Check \/ Assert \/ Leave \/ Pause
  BY <1>2 DEF Close, Closed, CloseOverdue, CloseConnection, KillChrome, External,
              ReleaseExternal, Check, Assert, Leave, Pause, work, WorkOK
<1>3. CASE Interrupt \/ Loss \/ Answer \/ DialogOpens \/ ReceiverStops \/ Shutdown \/ UNCHANGED vars
  BY <1>3 DEF Interrupt, Loss, Answer, DialogOpens, ReceiverStops, Shutdown, vars, work, WorkOK
<1>4. ASSUME NEW w \in Workers, Worker(w)
      PROVE  /\ failed' \subseteq Workers /\ dialog' \in {"none", "open", "dismissed"}
             /\ interrupted' = interrupted /\ disturbed' = disturbed
  BY <1>4 DEF Worker, HandlerSends, HandlerDone, work, WorkOK
<1>5. ASSUME NEW c \in Callers, Client(c)
      PROVE  failed' = failed /\ dialog' = dialog /\ interrupted' = interrupted
             /\ disturbed' \in {TRUE, disturbed}
  BY <1>5 DEF Client, Transport, CallTimesOut, work
<1> QED
  BY <1>1, <1>2, <1>3, <1>4, <1>5 DEF Next, MainStep, WorkOK

LEMMA TypeStep ==
    ReleaseInv /\ TypeOK /\ BusyInv /\ [Next]_vars => TypeOK' /\ BusyInv'
<1> SUFFICES ASSUME Placed, TypeOK, BusyInv, [Next]_vars PROVE TypeOK' /\ BusyInv'
  BY DEF ReleaseInv
<1>1. ClientTypeOK /\ ControlOK /\ ThingsOK /\ WorkOK
  BY TypeParts
<1>2. Moves /\ Placed'
  BY NextMoves, PlacedStep
<1>3. ClientTypeOK' /\ ControlOK' /\ ThingsOK' /\ BusyInv' /\ todo' \in [Workers -> Nat]
  BY <1>1, <1>2, ClientTypeStep, ControlStep, ThingsStep, BusyStep
<1>4. WorkOK'
  BY <1>1, <1>3, RestStep DEF WorkOK
<1>5. program' \in DOMAIN Programs
  BY <1>2 DEF Placed
<1> QED
  BY <1>3, <1>4, <1>5 DEF TypeOK, ControlOK, ThingsOK, WorkOK

(* The state of client, main, workers and browser keeps its type; no event *)
(* is counted as handled that was not on its queue.                        *)
THEOREM TypeCorrect == Spec => []TypeOK
BY ReleaseInvariant, TypeInit, TypeStep, PTL DEF Spec
=============================================================================
