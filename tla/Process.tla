------------------------------- MODULE Process -------------------------------
(***************************************************************************)
(* The agent as a process: main.go with the probes server of probes.go,    *)
(* and the restarts of agent/handlers.go.  main and the goroutine of the   *)
(* probes server share one err; the goroutines of two restarts share the   *)
(* cancel functions of the Agent.                                          *)
(*                                                                         *)
(* A goroutine is the sequence of the operations it has still to do.  What *)
(* it logs is left out: Logs shows that every Write returns, and Sync has  *)
(* nothing to wait for.  Agent.Start returns only with an error (see       *)
(* Lifecycle).                                                             *)
(***************************************************************************)
EXTENDS Naturals, Sequences, FiniteSets

CONSTANTS
    Restarts,      \* bound: the restart packets the gateway sends
    Main, Probes   \* the goroutine of main and the one of the probes server

Goroutines == Restarts \cup {Main, Probes}

ASSUME GoroutinesAssumption ==
    IsFiniteSet(Restarts) /\ Main # Probes /\ {Main, Probes} \cap Restarts = {}

VARIABLES
    todo,       \* what each goroutine has still to do
    err,        \* main's err, which the probes goroutine assigns too: who set it
    failures,   \* the calls of main that failed and that it needs
    isReady,    \* ProbesServer.IsReady
    started,    \* Agent.Start runs, and with it the gateway's listener
    cancel,     \* which of the cancel functions of Agent are not nil
    cancelled,  \* which of the contexts are cancelled
    ended       \* "no", or how the process ended

mainVars == <<err, failures, isReady, started>>
ctxVars  == <<cancel, cancelled>>
procVars == <<todo, mainVars, ctxVars, ended>>

Op(do, of) == [do |-> do, of |-> of]

\* logger.Fatal, which ends in os.Exit(1)
Fatal == <<Op("exit", "failed")>>

\* The calls of main, each with what main does about err afterwards, if
\* anything.  "parse" are calls that end the process themselves when they do not
\* like a flag.
MainProgram ==
    <<Op("parse", "ids"),
      Op("call", "secret"), Op("fatal", "secret"),
      Op("parse", "kubeTimeout"),
      Op("call", "config"),
      Op("call", "kube"), Op("fatal", "kube"),
      Op("call", "serverVersion"), Op("warn", "serverVersion"),
      Op("call", "permissions"), Op("warn", "permissions"),
      Op("call", "provider"), Op("warn", "provider"),
      Op("parse", "timeouts"), Op("parse", "logLevel"),
      Op("call", "dynamic"),
      Op("call", "cacheSync"), Op("fatal", "cacheSync"),
      Op("call", "minorVersion"), Op("warn", "minorVersion"),
      Op("ready", "probes"),
      Op("call", "start"), Op("fatal", "start")>>

ProbesProgram == <<Op("serve", "probes"), Op("probesErr", "probes"), Op("probesCheck", "probes")>>

\* Mutants: the function is set to nil before it is called; the sinks go first.
RestartProgramClearing ==
    <<Op("packet", "restart"),
      Op("check", "sources"), Op("clear", "sources"), Op("cancel", "sources"),
      Op("check", "sinks"), Op("clear", "sinks"), Op("cancel", "sinks"),
      Op("exit", "restarted")>>
RestartProgramSinksFirst ==
    <<Op("packet", "restart"),
      Op("check", "sinks"), Op("cancel", "sinks"), Op("clear", "sinks"),
      Op("check", "sources"), Op("cancel", "sources"), Op("clear", "sources"),
      Op("exit", "restarted")>>

\* handleRestart with stopSources and stopSinks
RestartProgram ==
    <<Op("packet", "restart"),
      Op("check", "sources"), Op("cancel", "sources"), Op("clear", "sources"),
      Op("check", "sinks"), Op("cancel", "sinks"), Op("clear", "sinks"),
      Op("exit", "restarted")>>

ProcInit ==
    /\ todo = [g \in Goroutines |->
                 IF g = Main THEN MainProgram
                 ELSE IF g = Probes THEN ProbesProgram ELSE RestartProgram]
    /\ err = "nil"
    /\ failures = {}
    /\ isReady = FALSE
    /\ started = FALSE
    /\ cancel = {"sources", "sinks"}
    /\ cancelled = {}
    /\ ended = "no"

Running == ended = "no"

\* The next operation of g is a do.
Next(g, do) ==
    /\ Running
    /\ todo[g] # <<>>
    /\ Head(todo[g]).do = do

Then(g, ops) == todo' = [todo EXCEPT ![g] = ops \o Tail(@)]
Done(g) == Then(g, <<>>)

\* Mutant: the end is forgotten.
ExitForgotten(g) ==
    /\ Next(g, "exit")
    /\ Done(g)
    /\ UNCHANGED <<mainVars, ctxVars, ended>>

\* os.Exit, by Fatal or after the sleep of a restart
Exit(g) ==
    /\ Next(g, "exit")
    /\ ended' = Head(todo[g]).of
    /\ Done(g)
    /\ UNCHANGED <<mainVars, ctxVars>>

------------------------------------------------------------------------------
(* main *)

\* What main calls with the nil result of a call whose error it does not check
Dereferences(name) == CASE name = "kube" -> {"config"}
                        [] name = "start" -> {"dynamic"}
                        [] OTHER -> {}

\* A call of main returns and assigns err.
CallReturns(ok) ==
    /\ Next(Main, "call")
    /\ LET name == Head(todo[Main]).of
       IN  /\ name # "start" /\ Dereferences(name) \cap failures = {}
           /\ err' = IF ok THEN "nil" ELSE "main"
           /\ failures' = IF ok \/ todo[Main][2].do = "warn" THEN failures
                          ELSE failures \cup {name}
    /\ Done(Main)
    /\ UNCHANGED <<isReady, started, ctxVars, ended>>

\* It is given a nil config or a nil client.
CallPanics ==
    /\ Next(Main, "call")
    /\ Dereferences(Head(todo[Main]).of) \cap failures # {}
    /\ Head(todo[Main]).of = "start" => started
    /\ ended' = "panic"
    /\ UNCHANGED <<todo, mainVars, ctxVars>>

\* GetClusterProvider of a cluster that lists no node, GetServerMinorVersion of
\* a server without a minor version: an index out of range
CallOutOfRange ==
    /\ Next(Main, "call")
    /\ Head(todo[Main]).of \in {"provider", "minorVersion"}
    /\ ended' = "outOfRange"
    /\ UNCHANGED <<todo, mainVars, ctxVars>>

\* if err != nil: the err of the call, or what the probes goroutine put there
CheckFatal ==
    /\ Next(Main, "fatal")
    /\ Then(Main, IF err = "nil" THEN <<>> ELSE Fatal)
    /\ UNCHANGED <<mainVars, ctxVars, ended>>

CheckWarn ==
    /\ Next(Main, "warn")
    /\ Done(Main)
    /\ UNCHANGED <<mainVars, ctxVars, ended>>

\* ExpandEnvUUID, MustParseDuration, ConfigureGlobalLogger (with an err of its
\* own): the value or logger.Fatal
ParseFlag(ok) ==
    /\ Next(Main, "parse")
    /\ Then(Main, IF ok THEN <<>> ELSE Fatal)
    /\ UNCHANGED <<mainVars, ctxVars, ended>>

SetReady ==
    /\ Next(Main, "ready")
    /\ isReady' = TRUE
    /\ Done(Main)
    /\ UNCHANGED <<err, failures, started, ctxVars, ended>>

AgentStart ==
    /\ Next(Main, "call")
    /\ Head(todo[Main]).of = "start"
    /\ ~started
    /\ started' = TRUE
    /\ UNCHANGED <<todo, err, failures, isReady, ctxVars, ended>>

\* mgxAgent.Start() returns: WaitAuthorization has failed.
AgentStartFails ==
    /\ Next(Main, "call")
    /\ started
    /\ err' = "main"
    /\ Done(Main)
    /\ UNCHANGED <<failures, isReady, started, ctxVars, ended>>

------------------------------------------------------------------------------
(* The goroutine of the probes server *)

\* ListenAndServe returns, with an error in any case.
ServeFails ==
    /\ Next(Probes, "serve")
    /\ Done(Probes)
    /\ UNCHANGED <<mainVars, ctxVars, ended>>

\* Mutant: a server that was shut down returns nil.
ProbesErrNil ==
    /\ Next(Probes, "probesErr")
    /\ err' \in {"nil", "probes"}
    /\ Done(Probes)
    /\ UNCHANGED <<failures, isReady, started, ctxVars, ended>>

\* err = probes.Start(), the err of main
ProbesErr ==
    /\ Next(Probes, "probesErr")
    /\ err' = "probes"
    /\ Done(Probes)
    /\ UNCHANGED <<failures, isReady, started, ctxVars, ended>>

ProbesCheck ==
    /\ Next(Probes, "probesCheck")
    /\ Then(Probes, IF err = "nil" THEN <<>> ELSE Fatal)
    /\ UNCHANGED <<mainVars, ctxVars, ended>>

------------------------------------------------------------------------------
(* handleRestart: one goroutine per packet *)

RestartPacket(r) ==
    /\ Next(r, "packet")
    /\ started
    /\ Done(r)
    /\ UNCHANGED <<mainVars, ctxVars, ended>>

\* stopSources and stopSinks: return if the function is nil
StopCheck(r) ==
    /\ Next(r, "check")
    /\ todo' = [todo EXCEPT ![r] =
                   IF Head(@).of \in cancel THEN Tail(@) ELSE SubSeq(@, 4, Len(@))]
    /\ UNCHANGED <<mainVars, ctxVars, ended>>

\* ... call it, if another goroutine has not set it to nil since
StopCancel(r) ==
    /\ Next(r, "cancel")
    /\ LET ctx == Head(todo[r]).of
       IN  /\ cancelled' = IF ctx \in cancel THEN cancelled \cup {ctx} ELSE cancelled
           /\ ended' = IF ctx \in cancel THEN ended ELSE "panic"
    /\ Done(r)
    /\ UNCHANGED <<mainVars, cancel>>

\* ... and set it to nil.
StopClear(r) ==
    /\ Next(r, "clear")
    /\ cancel' = cancel \ {Head(todo[r]).of}
    /\ Done(r)
    /\ UNCHANGED <<mainVars, cancelled, ended>>

------------------------------------------------------------------------------
MainStep ==
    \/ \E ok \in BOOLEAN : CallReturns(ok) \/ ParseFlag(ok)
    \/ CallPanics \/ CallOutOfRange \/ CheckFatal \/ CheckWarn \/ SetReady \/ AgentStart

RestartStep(r) == StopCheck(r) \/ StopCancel(r) \/ StopClear(r)

ProcNext ==
    \/ \E g \in Goroutines : Exit(g)
    \/ MainStep \/ AgentStartFails
    \/ ServeFails \/ ProbesErr \/ ProbesCheck
    \/ \E r \in Restarts : RestartPacket(r) \/ RestartStep(r)

ProcSpec == ProcInit /\ [][ProcNext]_procVars

\* A goroutine that can run does run; main's calls have timeouts and return, but
\* for Agent.Start.
ProcFairSpec ==
    /\ ProcSpec
    /\ \A g \in Goroutines : WF_procVars(Exit(g))
    /\ WF_procVars(MainStep)
    /\ WF_procVars(ProbesErr \/ ProbesCheck)
    /\ \A r \in Restarts : WF_procVars(RestartStep(r))

------------------------------------------------------------------------------
(* Properties *)

\* The values of the variables; a cancel function that is nil was called.
ProcTypeOK ==
    /\ err \in {"nil", "main", "probes"}
    /\ failures \subseteq {MainProgram[i].of : i \in 1..Len(MainProgram)}
    /\ cancel \cup cancelled = {"sources", "sinks"}
    /\ ended \in {"no", "failed", "restarted", "panic", "outOfRange"}

\* The calls of main whose error must end the process
MustSucceed == {"secret", "config", "kube", "cacheSync"}

\* main and the probes goroutine share err.  main never takes a failed call of
\* its own for a success: the agent is ready only when all of them succeeded.
FailureNotMissed == isReady => failures \cap MustSucceed = {}

Begun(r) == Len(todo[r]) < Len(RestartProgram)

\* A panic takes two restarts in stopSources or stopSinks at a time, or a nil
\* client that main did not check.
LoneRestartNoPanic ==
    ended = "panic" =>
        \/ Cardinality({r \in Restarts : Begun(r)}) > 1
        \/ failures \cap {"config", "dynamic"} # {}

\* stopSinks cancels after the sources are cancelled, in whatever order two
\* restarts go through the two checks.
SinksStopLast == "sinks" \in cancelled => "sources" \in cancelled

\* g is on its way to the end of the process.
Ending(g) ==
    /\ \E i \in DOMAIN todo[g] : todo[g][i].do = "exit"
    /\ g \in Restarts => Begun(g)

\* A restart and a Fatal end the process, whatever the other goroutines do.
EndingEnds == \A g \in Goroutines : Ending(g) ~> ~Running

\* The probes server fails while the agent runs: main assigns err no more (but
\* for an error), and the process ends.
ProbesFailureEnds ==
    (started /\ todo[Probes] # <<>> /\ Head(todo[Probes]).do = "probesErr") ~> ~Running
=============================================================================
