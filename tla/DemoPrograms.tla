---------------------------- MODULE DemoPrograms ----------------------------
(***************************************************************************)
(* The programs in demo/ as sequences of steps: what each asks of Chrome,  *)
(* of the client, of Playwright and of its scopes, in which order, which   *)
(* errors it catches where, and what its finally clause does.  Printing,   *)
(* timing and the contents of pages and results are left out; repetitions  *)
(* over pages, operations and tabs are cut to a few.                       *)
(*                                                                         *)
(* Steps: launch, connect, send (a command), alert (a command the page     *)
(* answers when a handler on the tab has dismissed its dialog), create and *)
(* close (scopes), use (emit, connect or attach on scopes), refused (emit  *)
(* on a closed scope), request (emit on scopes to a handler that sends a   *)
(* command, and wait), stall (the same to a handler that never returns),   *)
(* gather (wait for tasks that send a command each), external and release  *)
(* (start or use, and stop, Playwright), disconnect, kill, pause, check    *)
(* (that the client says it is connected), assert (that the page has done  *)
(* something by now), leave (may go to the end here).                      *)
(***************************************************************************)
EXTENDS Naturals, Sequences

Tabs == {"tab-1", "tab-2", "tab-3"}
Scopes == Tabs \cup {"monitor"}
Tasks  == {"task-1", "task-2"}

On(what, where) == [do |-> what, on |-> where, tolerates |-> {}]
Do(what)        == On(what, {})

(* A step whose errors, or whose exhausted wait, the program catches.      *)
Catching(step, errors) == [step EXCEPT !.tolerates = errors]
(* The usual clauses are Exception, and TimeoutError with RuntimeError,    *)
(* which lets the socket's own ConnectionClosed through.                   *)
Any      == {"error", "timeout", "lost"}
Expected == {"error", "timeout"}

Commands(n) == [i \in 1..n |-> Do("send")]
Request(S)  == On("request", S)
Gather      == On("gather", Tasks)
Kill        == Do("kill")
Disconnect  == Do("disconnect")
CloseAll    == On("close", Scopes)
Start       == <<Do("launch"), Do("connect")>>

-----------------------------------------------------------------------------
(* CDPClient.init_browser_session and create_tab; the create_tab of        *)
(* multi_tab and create_real_tab of advanced.                              *)
InitBrowserSession == Commands(6)
CreateTab        == Commands(5)
MultiCreateTab   == Commands(4)
CreateRealTab(t) == MultiCreateTab \o <<On("create", {t})>>

-----------------------------------------------------------------------------
(* main.py *)
MainSetup ==
    Start \o <<Do("send"), Do("leave")>> \o Commands(4)
          \o <<On("create", {"tab-1"}), On("use", {"tab-1"})>>
MainNavigation ==
    <<On("use", {"tab-1"}), Request({"tab-1"})>>
MainPopup ==
    <<On("use", {"tab-1"}), Catching(On("alert", {"tab-1"}), Any), Do("pause")>>
MainScreenshot ==
    <<On("use", {"tab-1"}), Request({"tab-1"})>>
MainIsolation ==
    Commands(3) \o <<On("create", {"tab-2"}), On("use", {"tab-1", "tab-2"}), On("use", {"tab-1"})>>
MainEnd ==
    <<On("close", {"tab-2"}), On("refused", {"tab-2"}), CloseAll>>
Main == MainSetup \o MainNavigation \o MainPopup \o MainScreenshot \o MainIsolation \o MainEnd

(* The finally clause of main, verify_diagnostics, bench and               *)
(* bench_optimizations.                                                    *)
Teardown == <<Disconnect, Kill>>

-----------------------------------------------------------------------------
(* multi_tab.py, with two tabs of its four                                 *)
Two == {"tab-1", "tab-2"}

MultiSetup ==
    Start \o Commands(1) \o MultiCreateTab \o MultiCreateTab \o Commands(1)
          \o <<On("create", Two), On("use", Two)>>
MultiWatchdogs == <<On("use", Two)>>
MultiNavigate ==
    <<Catching(Gather, Any), On("use", Two), Do("pause")>>
MultiCaptcha ==
    <<Catching(Do("send"), Any), Catching(Do("send"), Any)>>
MultiPopup ==
    <<On("use", Two), Catching(On("alert", {"tab-1"}), Expected), Do("pause")>>
MultiBroadcast == <<On("use", Two)>>
MultiScreenshots == <<Request(Two)>>
MultiClose ==
    <<On("close", {"tab-2"}), On("refused", {"tab-2"}),
      Catching(Request({"tab-1"}), Expected), CloseAll>>
MultiTab == MultiSetup \o MultiWatchdogs \o MultiNavigate \o MultiCaptcha
            \o MultiPopup \o MultiBroadcast \o MultiScreenshots \o MultiClose

MultiTeardown == <<Catching(CloseAll, Any), Disconnect, Kill>>

-----------------------------------------------------------------------------
(* advanced.py, with two tabs of its five                                  *)
AdvancedSetup ==
    Start \o CreateRealTab("tab-1") \o CreateRealTab("tab-2")
          \o <<On("create", {"monitor"}), On("use", Two \cup {"monitor"})>>
AdvancedRouting ==
    <<On("use", {"tab-1", "monitor"}), Catching(Request({"tab-1"}), {"error"})>>
(* expect fails with its timeout when the navigation has failed.           *)
AdvancedExpect ==
    <<On("use", {"tab-2"}), Request({"tab-2"})>>
AdvancedConcurrent ==
    <<On("use", Two), Catching(Request({"tab-1"}), {"error"}), Catching(Request({"tab-2"}), {"error"}),
      Catching(Request(Two), {"error"})>>
AdvancedLog ==
    <<On("use", Two \cup {"monitor"}), Catching(Request({"tab-1"}), {"error"}), Do("pause")>>
AdvancedClose ==
    <<On("use", Two), Catching(Request({"tab-2"}), {"error"}), Do("pause"),
      On("close", {"tab-2"}), On("refused", {"tab-2"}),
      Catching(Request({"tab-1"}), {"error"}), Do("pause"), CloseAll>>
Advanced == AdvancedSetup \o AdvancedRouting \o AdvancedExpect \o AdvancedConcurrent
            \o AdvancedLog \o AdvancedClose

AdvancedTeardown == <<CloseAll, Disconnect, Kill>>

-----------------------------------------------------------------------------
(* paused_target.py.  The commands between the attach and the exit of the  *)
(* context manager are followed by its resume command.                     *)
PausedTab(t) ==
    Commands(2) \o Commands(3) \o <<On("create", {t}), On("use", {t})>> \o Commands(1) \o Commands(1)
PausedSetup == Start \o Commands(1) \o PausedTab("tab-1") \o <<On("use", {"tab-1"}), Do("pause")>>
PausedSecond ==
    PausedTab("tab-2") \o <<On("use", {"tab-2"}), Do("pause"), Catching(Do("send"), Any)>>
PausedScreenshots == <<Gather>>
PausedEnd == <<CloseAll>>
PausedDemo == PausedSetup \o PausedSecond \o PausedScreenshots \o PausedEnd

-----------------------------------------------------------------------------
(* verify_diagnostics.py *)
VerifySetup ==
    Start \o Commands(6) \o <<On("create", {"tab-1"}), On("use", {"tab-1"}), Request({"tab-1"}),
                              Do("pause"), On("use", {"tab-1"}), Request({"tab-1"})>>
(* The load event may be later than the pause.                             *)
VerifyBridge == <<On("use", {"tab-1"}), Do("send"), Do("pause"), Do("assert")>>
(* The handler sleeps for 999 s, the event waits for 0.3 s.                *)
VerifyTimeout == <<Catching(On("stall", {"tab-1"}), {"timeout"})>>
VerifyClient == <<Do("check"), CloseAll, Disconnect>>
Verify == VerifySetup \o VerifyBridge \o VerifyTimeout \o VerifyClient

-----------------------------------------------------------------------------
(* bench.py: first without a browser, each scope closed before the next is *)
(* made; then the sites on one tab (two of them).                          *)
Overhead(t) == <<On("create", {t}), On("use", {t}), On("close", {t})>>
BenchOverhead == Overhead("tab-1") \o Overhead("tab-2") \o Overhead("tab-3") \o <<CloseAll>>
BenchSetup == Start \o Commands(5) \o <<On("create", {"tab-1"}), On("use", {"tab-1"})>>
BenchSite ==
    <<On("use", {"tab-1"}), Do("send"), Do("pause"), Catching(On("alert", {"tab-1"}), Expected),
      Request({"tab-1"}), On("use", {"tab-1"})>>
Bench == BenchOverhead \o BenchSetup \o BenchSite \o BenchSite \o <<CloseAll>>

-----------------------------------------------------------------------------
(* bench_optimizations.py: a tab with all watchdogs for every site, in     *)
(* turn (two of them) and then all at once, and raw commands.              *)
OptTab(t) ==
    CreateTab \o <<On("create", {t}), On("use", {t}), Do("send"), Do("pause"),
                      Catching(On("alert", {t}), Expected), Request({t}),
                      Catching(Do("send"), Any), On("use", {t})>>
OptSequential == OptTab("tab-1") \o OptTab("tab-2") \o <<CloseAll>>
(* The tasks create a scope each, which only close_all takes away.         *)
OptParallel == <<On("create", {"tab-3"}), Catching(Gather, Any), CloseAll>>
OptJson == <<Catching(Do("send"), Any), Catching(Do("send"), Any), Catching(Do("send"), Any)>>
Optimizations == Start \o InitBrowserSession \o OptSequential \o OptParallel \o <<Do("pause")>> \o OptJson

-----------------------------------------------------------------------------
(* bench_agentcdp_vs_pw.py and bench_cdp_vs_pw.py: the same operations     *)
(* over the library or the bare client and over Playwright, whose use may  *)
(* fail anywhere; bench_op catches and goes on.                            *)
StartPlaywright == On("external", {"playwright"})
StopPlaywright  == On("release", {"playwright"})
UsePlaywright   == Do("external")
OpOverAgent == Catching(Request({"tab-1"}), Any)
OpOverClient == Catching(Do("send"), Any)
OpOverPlaywright == Catching(UsePlaywright, Any)

AgentBench ==
    <<Do("launch"), StartPlaywright, UsePlaywright, Do("connect")>> \o Commands(7)
    \o <<On("create", {"tab-1"}), On("use", {"tab-1"}), UsePlaywright, UsePlaywright,
         OpOverAgent, OpOverPlaywright, OpOverAgent, OpOverPlaywright>>
AgentTeardown == <<CloseAll, StopPlaywright, Disconnect, Kill>>

ClientBench ==
    <<Do("launch"), StartPlaywright, UsePlaywright, Do("connect")>> \o Commands(7)
    \o <<UsePlaywright, UsePlaywright, OpOverClient, OpOverPlaywright, OpOverClient, OpOverPlaywright>>
ClientTeardown == <<StopPlaywright, Disconnect, Kill>>

-----------------------------------------------------------------------------
(* real_xhs.py works on a browser of the user's and has no finally clause. *)
(* run_action catches what the security check raises, no handler's error.  *)
Action == Request({"tab-1"})
RealSetup == <<Do("connect")>> \o Commands(5) \o <<Do("pause"), On("create", {"tab-1"}), On("use", {"tab-1"})>>
RealActions ==
    <<Action, Action, Do("pause"), Do("send"), Action, Action, Action, Do("pause"), Action, Action, On("use", {"tab-1"})>>
RealEnd == <<Do("send"), CloseAll, Disconnect>>
Real == RealSetup \o RealActions \o RealEnd

(* action_dispatch.py has no browser: every action is handled in emit or   *)
(* by a queued logger, and every error of an action is caught.             *)
Dispatch == <<On("create", {"tab-1"}), Catching(On("use", {"tab-1"}), Any), Do("pause"), CloseAll>>

-----------------------------------------------------------------------------
Programs ==
    [main          |-> [body |-> Main,          cleanup |-> Teardown],
     multi_tab     |-> [body |-> MultiTab,      cleanup |-> MultiTeardown],
     advanced      |-> [body |-> Advanced,      cleanup |-> AdvancedTeardown],
     paused_target |-> [body |-> PausedDemo,    cleanup |-> MultiTeardown],
     verify        |-> [body |-> Verify,        cleanup |-> Teardown],
     bench         |-> [body |-> Bench,         cleanup |-> Teardown],
     optimizations |-> [body |-> Optimizations, cleanup |-> Teardown],
     agent_bench   |-> [body |-> AgentBench,    cleanup |-> AgentTeardown],
     client_bench  |-> [body |-> ClientBench,   cleanup |-> ClientTeardown],
     real          |-> [body |-> Real,          cleanup |-> <<>>],
     dispatch      |-> [body |-> Dispatch,      cleanup |-> <<>>]]

-----------------------------------------------------------------------------
(* What can be told from the text of a program.  TLC evaluates this for    *)
(* the table above; the runs of such programs are the business of          *)
(* DemoSession.                                                            *)
Steps == [do : STRING, on : SUBSET (Scopes \cup Tasks \cup {"playwright"}), tolerates : SUBSET Any]

Acquires(step) == CASE step.do = "launch"     -> {"chrome"}
                    [] step.do = "connect"    -> {"client"}
                    [] step.do = "external"   -> step.on
                    [] OTHER                  -> {}
Releases(step) == CASE step.do = "kill"       -> {"chrome"}
                    [] step.do = "disconnect" -> {"client"}
                    [] step.do = "release"    -> step.on
                    [] OTHER                  -> {}
Closes(step, t) == step.do = "close" /\ t \in step.on

Things == {"chrome", "client", "playwright"}

(* The finally clause only closes and releases, and releases whatever the  *)
(* body may start; without one, the body does so itself, further on.       *)
Tidy(body, cleanup) ==
    /\ \A j \in DOMAIN cleanup : cleanup[j].do \in {"close", "release", "disconnect", "kill"}
    /\ \A code \in {body, cleanup} : \A i \in DOMAIN code :
          /\ Acquires(code[i]) \subseteq Things
          /\ Releases(code[i]) # {} => code[i].tolerates = {}
          /\ code[i].do = "create" => code[i].on \subseteq Scopes
    /\ \A i \in DOMAIN body : \A x \in Acquires(body[i]) :
          IF cleanup = <<>> THEN \E k \in DOMAIN body : k > i /\ x \in Releases(body[k])
          ELSE \E j \in DOMAIN cleanup : x \in Releases(cleanup[j])
    /\ \A i \in DOMAIN body : body[i].do = "create" => \A t \in body[i].on :
          \/ \E k \in DOMAIN body : k > i /\ Closes(body[k], t)
          \/ \E j \in DOMAIN cleanup : Closes(cleanup[j], t)
    /\ \A i \in DOMAIN body : body[i].do = "leave" =>
          cleanup # <<>> /\ \A k \in 1..i : body[k].do # "create"

(* The scopes that are open before step i, if all went well until then.    *)
OpenBefore(code, i) ==
    {t \in Scopes : \E k \in DOMAIN code :
        /\ k < i /\ code[k].do = "create" /\ t \in code[k].on
        /\ \A n \in k + 1 .. i - 1 : ~Closes(code[n], t)}

(* No step needs a scope or a connection that is closed or yet to be made. *)
Orderly(code) ==
    \A i \in DOMAIN code :
        /\ code[i].do \in {"send", "alert", "request", "gather", "check"} =>
              \A k \in DOMAIN code : k < i => code[k].do # "disconnect"
        /\ code[i].do = "check" => \E k \in DOMAIN code : k < i /\ code[k].do = "connect"
        /\ code[i].do = "use" =>
              "error" \in code[i].tolerates \/ code[i].on \subseteq OpenBefore(code, i)
        /\ code[i].do \in {"request", "gather"} =>
              "error" \in code[i].tolerates \/ code[i].on \subseteq OpenBefore(code, i) \cup Tasks
        /\ code[i].do = "stall" => "timeout" \in code[i].tolerates

ASSUME ProgramsAssumption ==
    \A p \in DOMAIN Programs :
        /\ Programs[p].body \in Seq(Steps) /\ Programs[p].cleanup \in Seq(Steps)
        /\ Tidy(Programs[p].body, Programs[p].cleanup)
        /\ Orderly(Programs[p].body)

=============================================================================
