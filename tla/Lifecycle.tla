------------------------------ MODULE Lifecycle ------------------------------
(***************************************************************************)
(* agent/agent.go and agent/handlers.go: the start of the agent, the       *)
(* goroutines it starts, and the restart the gateway can ask for, which    *)
(* cancels some of them.  What runs: the auditor's loop, the entities      *)
(* watcher with its deltas worker, the informers, the gateway's listener,  *)
(* audit commands, and the worker of ResultBatch.  Only the first two look *)
(* at the context that stopSources cancels; everybody else goes on, and    *)
(* whoever sends on auditEvents (unbuffered) waits for the loop.           *)
(*                                                                         *)
(* Gateway.Start never returns, as the signal handler of Connect asks for  *)
(* more signals every time: Agent.Start ends with an error of              *)
(* WaitAuthorization only, the agent with that or with Exit.               *)
(***************************************************************************)
EXTENDS ResultBatch

CONSTANTS
    Informers,     \* the goroutines that deliver notifications, one per kind
    Restarts,      \* bound: the restart packets the gateway sends
    QueueCap,      \* deltasBufferChanSize (1024)
    MaxCommands    \* bound: audit commands that wait at one time

ASSUME QueueCapAssumption == QueueCap \in Nat \ {0}
ASSUME MaxCommandsAssumption == MaxCommands \in Nat

VARIABLES
    main,          \* Agent.Start: "waiting" for authorization or "started"
    process,       \* "running", or how it ended
    cancelSources, cancelSinks,   \* whether these fields of Agent are not nil
    sourcesDone, sinksDone,       \* whether the contexts are cancelled
    restart,       \* where the goroutine of each restart stands
    auditor,       \* the loop: "off", "select", "busy", "stopped"
    source,        \* EntitiesWatcher.Start: "off", "sync", "watching", "stopped"
    deltas,        \* how many deltas are in deltasQueue
    informer,      \* for each informer: "idle", "queue", "event"
    listener,      \* HandleConstraints: "idle", "event"
    commands       \* triggerAuditCommand goroutines that wait

ctxVars    == <<cancelSources, cancelSinks, sourcesDone, sinksDone>>
sourceVars == <<source, deltas, informer>>
senderVars == <<listener, commands>>
lifeVars == <<batchVars, main, process, ctxVars, restart, auditor, sourceVars, senderVars>>

LifeInit ==
    /\ RBInit
    /\ main = "waiting"
    /\ process = "running"
    /\ cancelSources = TRUE /\ cancelSinks = TRUE
    /\ sourcesDone = FALSE /\ sinksDone = FALSE
    /\ restart = [r \in Restarts |-> "off"]
    /\ auditor = "off"
    /\ source = "off"
    /\ deltas = 0
    /\ informer = [i \in Informers |-> "idle"]
    /\ listener = "idle"
    /\ commands = 0

Running == process = "running"

------------------------------------------------------------------------------
(* Agent.Start *)

\* WaitAuthorization returns nil and the sources are started.
Authorized ==
    /\ Running
    /\ main = "waiting"
    /\ main' = "started"
    /\ auditor' = "select"
    /\ source' = "sync"
    /\ UNCHANGED <<batchVars, process, ctxVars, restart, deltas, informer, senderVars>>

\* It returns an error, Start returns it and main ends with logger.Fatal.
AuthorizationTimeout ==
    /\ Running
    /\ main = "waiting"
    /\ process' = "failed"
    /\ UNCHANGED <<batchVars, main, ctxVars, restart, auditor, sourceVars, senderVars>>

------------------------------------------------------------------------------
(* handleRestart: one goroutine per packet *)

RestartGoto(r, from, to) ==
    /\ Running
    /\ restart[r] = from
    /\ restart' = [restart EXCEPT ![r] = to]

RestartPacket(r) ==
    /\ RestartGoto(r, "off", "checkSources")
    /\ UNCHANGED <<batchVars, main, process, ctxVars, auditor, sourceVars, senderVars>>

\* if a.cancelSources == nil { return nil }; logger.Sync comes after stopSources.
CheckSources(r) ==
    /\ RestartGoto(r, "checkSources", IF cancelSources THEN "callSources" ELSE "checkSinks")
    /\ UNCHANGED <<batchVars, main, process, ctxVars, auditor, sourceVars, senderVars>>

\* a.cancelSources(): the other goroutine may have set it to nil.
CallSources(r) ==
    /\ RestartGoto(r, "callSources", "clearSources")
    /\ sourcesDone' = (sourcesDone \/ cancelSources)
    /\ process' = IF cancelSources THEN "running" ELSE "panic"
    /\ UNCHANGED <<batchVars, main, cancelSources, cancelSinks, sinksDone, auditor,
                   sourceVars, senderVars>>

ClearSources(r) ==
    /\ RestartGoto(r, "clearSources", "checkSinks")
    /\ cancelSources' = FALSE
    /\ UNCHANGED <<batchVars, main, process, cancelSinks, sourcesDone, sinksDone,
                   auditor, sourceVars, senderVars>>

CheckSinks(r) ==
    /\ RestartGoto(r, "checkSinks", IF cancelSinks THEN "callSinks" ELSE "sleep")
    /\ UNCHANGED <<batchVars, main, process, ctxVars, auditor, sourceVars, senderVars>>

CallSinks(r) ==
    /\ RestartGoto(r, "callSinks", "clearSinks")
    /\ sinksDone' = (sinksDone \/ cancelSinks)
    /\ process' = IF cancelSinks THEN "running" ELSE "panic"
    /\ UNCHANGED <<batchVars, main, cancelSources, cancelSinks, sourcesDone, auditor,
                   sourceVars, senderVars>>

ClearSinks(r) ==
    /\ RestartGoto(r, "clearSinks", "sleep")
    /\ cancelSinks' = FALSE
    /\ UNCHANGED <<batchVars, main, process, cancelSources, sourcesDone, sinksDone,
                   auditor, sourceVars, senderVars>>

\* Mutant: the exit waits for the sources to have stopped.
RestartExitWaiting(r) ==
    /\ RestartGoto(r, "sleep", "done")
    /\ auditor = "stopped" /\ source = "stopped"
    /\ process' = "exit0"
    /\ UNCHANGED <<batchVars, main, ctxVars, auditor, sourceVars, senderVars>>

\* time.Sleep(waitTime); a.Exit(0)
RestartExit(r) ==
    /\ RestartGoto(r, "sleep", "done")
    /\ process' = "exit0"
    /\ UNCHANGED <<batchVars, main, ctxVars, auditor, sourceVars, senderVars>>

RestartStep(r) ==
    \/ CheckSources(r) \/ CallSources(r) \/ ClearSources(r)
    \/ CheckSinks(r) \/ CallSinks(r) \/ ClearSinks(r)
    \/ RestartExit(r)

------------------------------------------------------------------------------
(* The auditor's loop *)

\* The loop receives an event and audits, with any number of results.
StartAudit ==
    /\ Running
    /\ auditor = "select"
    /\ auditor' = "busy"
    /\ \E n \in 0..MaxResults : Results(n)
    /\ UNCHANGED <<main, process, ctxVars, restart>>

\* OnCacheSync; AddEventHandler and the deltas worker follow.
TakeSync ==
    /\ StartAudit
    /\ source = "sync"
    /\ source' = "watching"
    /\ UNCHANGED <<deltas, informer, senderVars>>

TakeNotice(i) ==
    /\ StartAudit
    /\ informer[i] = "event"
    /\ informer' = [informer EXCEPT ![i] = "idle"]
    /\ UNCHANGED <<source, deltas, senderVars>>

TakePolicies ==
    /\ StartAudit
    /\ listener = "event"
    /\ listener' = "idle"
    /\ UNCHANGED <<sourceVars, commands>>

TakeCommand ==
    /\ StartAudit
    /\ commands > 0
    /\ commands' = commands - 1
    /\ UNCHANGED <<sourceVars, listener>>

\* case <-auditTicker.C
Periodic == StartAudit /\ UNCHANGED <<sourceVars, senderVars>>

\* sendAuditResult sends one result: it waits while the channel is full.
AuditorSends ==
    /\ Running
    /\ auditor = "busy"
    /\ SendResult
    /\ UNCHANGED <<main, process, ctxVars, restart, auditor, sourceVars, senderVars>>

AuditDone ==
    /\ Running
    /\ auditor = "busy"
    /\ inHand = <<>>
    /\ auditor' = "select"
    /\ UNCHANGED <<batchVars, main, process, ctxVars, restart, sourceVars, senderVars>>

\* case <-cancelCtx.Done(): select may prefer an event that is ready as well.
AuditorStop ==
    /\ Running
    /\ auditor = "select"
    /\ sourcesDone
    /\ auditor' = "stopped"
    /\ UNCHANGED <<batchVars, main, process, ctxVars, restart, sourceVars, senderVars>>

AuditorStep == AuditorSends \/ AuditDone \/ AuditorStop

------------------------------------------------------------------------------
(* Those who send to it *)

\* OnAdd, OnUpdate, OnDelete: the delta goes to the queue, then the event.
Notice(i) ==
    /\ Running
    /\ source \in {"watching", "stopped"}
    /\ informer[i] = "idle"
    /\ informer' = [informer EXCEPT ![i] = "queue"]
    /\ UNCHANGED <<batchVars, main, process, ctxVars, restart, auditor, source, deltas,
                   senderVars>>

QueueDelta(i) ==
    /\ Running
    /\ informer[i] = "queue"
    /\ deltas < QueueCap
    /\ deltas' = deltas + 1
    /\ informer' = [informer EXCEPT ![i] = "event"]
    /\ UNCHANGED <<batchVars, main, process, ctxVars, restart, auditor, source, senderVars>>

\* Mutant: the deltas worker ends with the first batch.
TakeDeltaOnce ==
    /\ Running
    /\ source = "watching"
    /\ deltas > 0
    /\ deltas' = deltas - 1
    /\ source' = "stopped"
    /\ UNCHANGED <<batchVars, main, process, ctxVars, restart, auditor, informer, senderVars>>

\* deltasWorker collects a delta; what it collects is dropped.
TakeDelta ==
    /\ Running
    /\ source = "watching"
    /\ deltas > 0
    /\ deltas' = deltas - 1
    /\ UNCHANGED <<batchVars, main, process, ctxVars, restart, auditor, source, informer,
                   senderVars>>

\* deltasWorker: case <-ctx.Done()
StopDeltas ==
    /\ Running
    /\ source = "watching"
    /\ sourcesDone
    /\ source' = "stopped"
    /\ UNCHANGED <<batchVars, main, process, ctxVars, restart, auditor, deltas, informer,
                   senderVars>>

\* HandleConstraints has updated the tables and sends its event.
Request ==
    /\ Running
    /\ listener = "idle"
    /\ listener' = "event"
    /\ UNCHANGED <<batchVars, main, process, ctxVars, restart, auditor, sourceVars, commands>>

\* HandleAuditCommand starts a goroutine and returns.
Command ==
    /\ Running
    /\ commands < MaxCommands
    /\ commands' = commands + 1
    /\ UNCHANGED <<batchVars, main, process, ctxVars, restart, auditor, sourceVars, listener>>

\* SendAuditResultsWorker, which ignores its context.
WorkerTakes ==
    /\ Running
    /\ TakeResult
    /\ UNCHANGED <<main, process, ctxVars, restart, auditor, sourceVars, senderVars>>

WorkerTicks ==
    /\ Running
    /\ TakeTick
    /\ UNCHANGED <<main, process, ctxVars, restart, auditor, sourceVars, senderVars>>

LifeTick ==
    /\ Running
    /\ Tick
    /\ UNCHANGED <<main, process, ctxVars, restart, auditor, sourceVars, senderVars>>

MainStep == Authorized \/ AuthorizationTimeout

LifeNext ==
    \/ MainStep
    \/ \E r \in Restarts : RestartPacket(r) \/ RestartStep(r)
    \/ TakeSync \/ (\E i \in Informers : TakeNotice(i)) \/ TakePolicies \/ TakeCommand
    \/ Periodic \/ AuditorStep
    \/ (\E i \in Informers : Notice(i) \/ QueueDelta(i))
    \/ TakeDelta \/ StopDeltas
    \/ Request \/ Command
    \/ WorkerTakes \/ WorkerTicks \/ LifeTick

LifeSpec == LifeInit /\ [][LifeNext]_lifeVars

\* Goroutines that can run do run and timers fire.  Senders on a channel are
\* served in the order they came, so the loop takes each in its turn, and each
\* ready branch of a select is chosen in the end.
LifeFairSpec ==
    /\ LifeSpec
    /\ WF_lifeVars(MainStep)
    /\ \A r \in Restarts : WF_lifeVars(RestartStep(r))
    /\ WF_lifeVars(AuditorSends) /\ WF_lifeVars(AuditDone)
    /\ SF_lifeVars(TakeSync) /\ SF_lifeVars(TakePolicies)
    /\ \A i \in Informers : SF_lifeVars(TakeNotice(i)) /\ SF_lifeVars(QueueDelta(i))
    /\ WF_lifeVars(TakeDelta)
    /\ SF_lifeVars(WorkerTakes) /\ SF_lifeVars(WorkerTicks) /\ WF_lifeVars(LifeTick)

------------------------------------------------------------------------------
(* Properties *)

\* The values of the variables.
LifeTypeOK ==
    /\ RBTypeOK
    /\ main \in {"waiting", "started"}
    /\ process \in {"running", "failed", "exit0", "panic"}
    /\ {cancelSources, cancelSinks, sourcesDone, sinksDone} \subseteq BOOLEAN
    /\ restart \in [Restarts -> {"off", "checkSources", "callSources", "clearSources",
                                 "checkSinks", "callSinks", "clearSinks", "sleep", "done"}]
    /\ auditor \in {"off", "select", "busy", "stopped"}
    /\ source \in {"off", "sync", "watching", "stopped"}
    /\ deltas \in 0..QueueCap
    /\ informer \in [Informers -> {"idle", "queue", "event"}]
    /\ listener \in {"idle", "event"}
    /\ commands \in 0..MaxCommands

\* Until somebody stops the sources, no sender is left waiting: the loop, which
\* itself waits for the result channel and its worker, comes back to each, and
\* the deltas queue in front of the informers' events is emptied.
Excused == sourcesDone \/ ~Running
SendersServed ==
    /\ listener = "event" ~> (listener = "idle" \/ Excused)
    /\ \A i \in Informers : informer[i] # "idle" ~> (informer[i] = "idle" \/ Excused)

\* Each result reaches the pipe while the agent lives, also the last ones of an
\* audit that a restart overtook, with no further result to fill the batch.
ResultsReachPipe ==
    \A n \in 1..MaxResults : audited >= n ~> (Len(piped) >= n \/ ~Running)

\* A restart ends the process, whoever is blocked by then on a loop or a worker
\* that has stopped.
RestartEnds == \A r \in Restarts : restart[r] # "off" ~> ~Running
=============================================================================
