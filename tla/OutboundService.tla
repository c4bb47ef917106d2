--------------------------- MODULE OutboundService ---------------------------
(***************************************************************************)
(* The outbound service of a client (coreclient/src/outbound_service): the *)
(* run token that start, stop and notify_work share with the background    *)
(* task through a watch cell, the task's loop, and the global lock that    *)
(* keeps the tasks of the app and of the background handler apart.  The    *)
(* callers are the ones of the code: the QS stream processor of the app    *)
(* (stop on a message, start on Empty), the user (queueing work, moving    *)
(* the app to the background) and the background handler (run_once).  What *)
(* a run of work sends is the single flag workQueued.                      *)
(***************************************************************************)
EXTENDS Naturals

CONSTANTS
  MaxStreamEvents,  \* bound: messages and extra Empty events of QS streams
  MaxQueued,        \* bound: pieces of work the user queues
  MaxRunOnce,       \* bound: runs of the background handler
  ServiceFaults,    \* which of "crash", "network", "background" may happen
  MaxServiceFaults  \* bound: how many of them

ASSUME ServiceAssumption ==
  {MaxStreamEvents, MaxQueued, MaxRunOnce, MaxServiceFaults} \subseteq Nat

Procs == {"app", "handler"}

\* The token a service is built with; stands for "no token" in a task and a caller.
NoToken == [cancel |-> 0, done |-> 0]

VARIABLES
  runToken,     \* the watch cell: identities of the cancel and the done token
  cancelledRuns,\* cancel tokens that are cancelled
  doneRuns,     \* done tokens that are cancelled (marked as done)
  runChanged,   \* the cell holds a version the task has not seen
  taskState,    \* where the task's loop is
  taskToken,    \* the task's clone of the run token
  globalLock,   \* the process that holds the global lock, or "free"
  workQueued,   \* some outbound queue in the database is not empty
  processor,    \* the QS stream processor: "ready", or waiting in stop()
  phase,        \* "closed", "connecting", "receiving" or "drained" after Empty
  awaited,      \* the done token the processor, or the handler, waits for
  handlerRun,   \* run_once: "off", "start" or "stop"
  paused,       \* the app was paused and is about to stop the service
  budget        \* how often each bounded event may still happen

serviceVars == <<runToken, cancelledRuns, doneRuns, runChanged>>
taskVars == <<taskState, taskToken, globalLock>>
callerVars == <<processor, phase, awaited, handlerRun, paused>>
outboundVars == <<serviceVars, taskVars, workQueued, callerVars, budget>>

ServiceTypeOK ==
  /\ runToken \in [Procs -> [cancel : Nat, done : Nat]]
  /\ cancelledRuns \in [Procs -> SUBSET Nat]
  /\ doneRuns \in [Procs -> SUBSET Nat]
  /\ runChanged \in [Procs -> BOOLEAN]
  /\ taskState \in [Procs -> {"idle", "lock", "work", "swept"}]
  /\ taskToken \in [Procs -> [cancel : Nat, done : Nat]]
  /\ globalLock \in Procs \union {"free"}
  /\ workQueued \in BOOLEAN
  /\ processor \in {"ready", "stopping"}
  /\ phase \in {"closed", "connecting", "receiving", "drained"}
  /\ awaited \in [{"processor", "handler"} -> Nat]
  /\ handlerRun \in {"off", "start", "stop"}
  /\ paused \in BOOLEAN
  /\ budget \in [{"event", "queued", "run", "fault"} -> Nat]

\* RunToken::new_cancelled: cancelled and done.
OutboundInit ==
  /\ runToken = [p \in Procs |-> NoToken]
  /\ cancelledRuns = [p \in Procs |-> {0}]
  /\ doneRuns = [p \in Procs |-> {0}]
  /\ runChanged = [p \in Procs |-> FALSE]
  /\ taskState = [p \in Procs |-> "idle"]
  /\ taskToken = [p \in Procs |-> NoToken]
  /\ globalLock = "free"
  /\ workQueued = FALSE
  /\ processor = "ready"
  /\ phase = "closed"
  /\ awaited = [w \in {"processor", "handler"} |-> 0]
  /\ handlerRun = "off"
  /\ paused = FALSE
  /\ budget = [event |-> MaxStreamEvents, queued |-> MaxQueued,
               run |-> MaxRunOnce, fault |-> MaxServiceFaults]

Spend(k) ==
  /\ budget[k] > 0
  /\ budget' = [budget EXCEPT ![k] = @ - 1]

ServiceFault(k) == k \in ServiceFaults /\ Spend("fault")

-----------------------------------------------------------------------------
(***************************************************************************)
(* The operations of the service.                                          *)
(***************************************************************************)

Cancelled(p) == runToken[p].cancel \in cancelledRuns[p]

\* RunToken::rotate_done: a fresh done token if the current one is used up.
RotateDone(p, t) ==
  IF t.done \in doneRuns[p] THEN [t EXCEPT !.done = @ + 1] ELSE t

\* RunToken::rotate, or rotate_done when the token is not cancelled.
Rotate(p, t) ==
  IF Cancelled(p) THEN [cancel |-> t.cancel + 1, done |-> t.done + 1] ELSE RotateDone(p, t)

\* Mutant of Start: the receiver is not notified, as in stop.
StartSilently(p) ==
  /\ runToken' = [runToken EXCEPT ![p] = Rotate(p, @)]
  /\ UNCHANGED <<cancelledRuns, doneRuns, runChanged>>

\* OutboundService::start.
Start(p) ==
  /\ runToken' = [runToken EXCEPT ![p] = Rotate(p, @)]
  /\ runChanged' = [runChanged EXCEPT ![p] = TRUE]
  /\ UNCHANGED <<cancelledRuns, doneRuns>>

\* OutboundService::stop; the future it returns waits for runToken[p].done.
Stop(p) ==
  /\ cancelledRuns' = [cancelledRuns EXCEPT ![p] = @ \union {runToken[p].cancel}]
  /\ UNCHANGED <<runToken, doneRuns, runChanged>>

\* Mutant of NotifyWork: wakes a stopped service up as well.
NotifyWorkAlways(p) == Start(p)

\* OutboundService::notify_work: nothing happens while the service is stopped.
NotifyWork(p) ==
  /\ runToken' = [runToken EXCEPT ![p] = IF Cancelled(p) THEN @ ELSE RotateDone(p, @)]
  /\ runChanged' = [runChanged EXCEPT ![p] = @ \/ ~Cancelled(p)]
  /\ UNCHANGED <<cancelledRuns, doneRuns>>

-----------------------------------------------------------------------------
(***************************************************************************)
(* OutboundServiceTask::run.                                               *)
(***************************************************************************)

\* Mutant of SeeCancelled: a token that is already cancelled is only skipped.
SeeCancelledSkipped(p) ==
  /\ taskState[p] = "idle" /\ runChanged[p] /\ Cancelled(p)
  /\ runChanged' = [runChanged EXCEPT ![p] = FALSE]
  /\ UNCHANGED <<runToken, cancelledRuns, doneRuns, taskVars, workQueued, callerVars,
                 budget>>

\* The watch cell has changed and the new token is already cancelled.
SeeCancelled(p) ==
  /\ taskState[p] = "idle" /\ runChanged[p] /\ Cancelled(p)
  /\ runChanged' = [runChanged EXCEPT ![p] = FALSE]
  /\ doneRuns' = [doneRuns EXCEPT ![p] = @ \union {runToken[p].done}]
  /\ UNCHANGED <<runToken, cancelledRuns, taskVars, workQueued, callerVars, budget>>

\* The watch cell has changed and there is work to do.
SeeWork(p) ==
  /\ taskState[p] = "idle" /\ runChanged[p] /\ ~Cancelled(p)
  /\ runChanged' = [runChanged EXCEPT ![p] = FALSE]
  /\ taskState' = [taskState EXCEPT ![p] = "lock"]
  /\ taskToken' = [taskToken EXCEPT ![p] = runToken[p]]
  /\ UNCHANGED <<runToken, cancelledRuns, doneRuns, globalLock, workQueued, callerVars,
                 budget>>

\* The periodic wake, which borrows the token without marking it as seen.
PeriodicWake(p) ==
  /\ taskState[p] = "idle" /\ ~Cancelled(p)
  /\ taskState' = [taskState EXCEPT ![p] = "lock"]
  /\ taskToken' = [taskToken EXCEPT ![p] = runToken[p]]
  /\ UNCHANGED <<serviceVars, globalLock, workQueued, callerVars, budget>>

\* GlobalLock::lock.
AcquireGlobalLock(p) ==
  /\ taskState[p] = "lock" /\ globalLock = "free"
  /\ taskState' = [taskState EXCEPT ![p] = "work"]
  /\ globalLock' = p
  /\ UNCHANGED <<serviceVars, taskToken, workQueued, callerVars, budget>>

(* OutboundServiceContext::work: every loop checks the cancel token before *)
(* it takes the next element, and drains its queue otherwise.              *)
Work(p) ==
  /\ taskState[p] = "work"
  /\ taskState' = [taskState EXCEPT ![p] = "swept"]
  /\ workQueued' = (workQueued /\ taskToken[p].cancel \in cancelledRuns[p])
  /\ UNCHANGED <<serviceVars, taskToken, globalLock, callerVars, budget>>

\* work returns early because the network is down.
WorkFails(p) ==
  /\ ServiceFault("network")
  /\ taskState[p] = "work"
  /\ taskState' = [taskState EXCEPT ![p] = "swept"]
  /\ UNCHANGED <<serviceVars, taskToken, globalLock, workQueued, callerVars>>

\* The lock is released and the token of this run is marked as done.
FinishWork(p) ==
  /\ taskState[p] = "swept"
  /\ taskState' = [taskState EXCEPT ![p] = "idle"]
  /\ taskToken' = [taskToken EXCEPT ![p] = NoToken]
  /\ globalLock' = "free"
  /\ doneRuns' = [doneRuns EXCEPT ![p] = @ \union {taskToken[p].done}]
  /\ UNCHANGED <<runToken, cancelledRuns, runChanged, workQueued, callerVars, budget>>

-----------------------------------------------------------------------------
(***************************************************************************)
(* The callers.                                                            *)
(***************************************************************************)

\* The app is launched and opens its QS stream; the service is still stopped.
LaunchApp ==
  /\ phase = "closed"
  /\ phase' = "connecting"
  /\ UNCHANGED <<serviceVars, taskVars, workQueued, processor, awaited, handlerRun, paused,
                 budget>>

\* QsStreamProcessor::process_event, a message: stop and wait until stopped.
ProcessMessage ==
  /\ Spend("event")
  /\ processor = "ready" /\ phase # "closed"
  /\ Stop("app")
  /\ processor' = "stopping"
  /\ awaited' = [awaited EXCEPT !["processor"] = runToken["app"].done]
  /\ phase' = "receiving"
  /\ UNCHANGED <<taskVars, workQueued, handlerRun, paused>>

\* The future of stop has resolved; the message is accumulated.
ProcessorStopped ==
  /\ processor = "stopping" /\ awaited["processor"] \in doneRuns["app"]
  /\ processor' = "ready"
  /\ awaited' = [awaited EXCEPT !["processor"] = 0]
  /\ UNCHANGED <<serviceVars, taskVars, workQueued, phase, handlerRun, paused, budget>>

\* process_event, Empty: the batch is processed, the service started.
ProcessEmpty ==
  /\ processor = "ready" /\ phase \in {"connecting", "receiving"}
  /\ Start("app")
  /\ phase' = "drained"
  /\ UNCHANGED <<taskVars, workQueued, processor, awaited, handlerRun, paused, budget>>

\* A new stream that finds the queue empty: Empty again.
ProcessEmptyAgain ==
  /\ Spend("event")
  /\ processor = "ready" /\ phase = "drained"
  /\ Start("app")
  /\ UNCHANGED <<taskVars, workQueued, callerVars>>

(* An enqueue function: the row is written and notify_work called in one   *)
(* transaction; the task cannot dequeue before it commits.                 *)
QueueWork ==
  /\ Spend("queued")
  /\ phase # "closed"
  /\ workQueued' = TRUE
  /\ NotifyWork("app")
  /\ UNCHANGED <<taskVars, callerVars>>

(* The app is paused: the stream is closed, and the next one begins when   *)
(* the app is resumed (App._onStateChanged, modelled from its calls).      *)
PauseApp ==
  /\ ServiceFault("background")
  /\ phase # "closed"
  /\ phase' = IF phase = "receiving" THEN phase ELSE "connecting"
  /\ paused' = TRUE
  /\ UNCHANGED <<serviceVars, taskVars, workQueued, processor, awaited, handlerRun>>

(* User::prepare_for_background, called some time after: the service is    *)
(* stopped; nothing but the end of the platform's background task depends  *)
(* on the returned future.                                                 *)
PrepareForBackground ==
  /\ paused
  /\ Stop("app")
  /\ paused' = FALSE
  /\ UNCHANGED <<taskVars, workQueued, processor, phase, awaited, handlerRun, budget>>

\* The background handler's run_once: start().await; stop().await.
RunOnce ==
  /\ Spend("run")
  /\ handlerRun = "off"
  /\ Start("handler")
  /\ handlerRun' = "start"
  /\ awaited' = [awaited EXCEPT !["handler"] = runToken'["handler"].done]
  /\ UNCHANGED <<taskVars, workQueued, processor, phase, paused>>

RunOnceStop ==
  /\ handlerRun = "start" /\ awaited["handler"] \in doneRuns["handler"]
  /\ Stop("handler")
  /\ handlerRun' = "stop"
  /\ awaited' = [awaited EXCEPT !["handler"] = runToken["handler"].done]
  /\ UNCHANGED <<taskVars, workQueued, processor, phase, paused, budget>>

RunOnceDone ==
  /\ handlerRun = "stop" /\ awaited["handler"] \in doneRuns["handler"]
  /\ handlerRun' = "off"
  /\ awaited' = [awaited EXCEPT !["handler"] = 0]
  /\ UNCHANGED <<serviceVars, taskVars, workQueued, processor, phase, paused, budget>>

(* The app dies and is started again: a new service, the file lock is      *)
(* released by the operating system, the queues survive.                   *)
RestartApp ==
  /\ ServiceFault("crash")
  /\ phase # "closed"
  /\ cancelledRuns' = [cancelledRuns EXCEPT !["app"] = @ \union {runToken["app"].cancel}]
  /\ doneRuns' = [doneRuns EXCEPT !["app"] = @ \union {runToken["app"].done}]
  /\ runChanged' = [runChanged EXCEPT !["app"] = FALSE]
  /\ taskState' = [taskState EXCEPT !["app"] = "idle"]
  /\ taskToken' = [taskToken EXCEPT !["app"] = NoToken]
  /\ globalLock' = IF globalLock = "app" THEN "free" ELSE globalLock
  /\ processor' = "ready"
  /\ phase' = "connecting"
  /\ paused' = FALSE
  /\ UNCHANGED <<runToken, workQueued, awaited, handlerRun>>

TaskStep(p) == SeeCancelled(p) \/ SeeWork(p) \/ PeriodicWake(p) \/ Work(p) \/ FinishWork(p)
ProcessorStep == ProcessorStopped \/ ProcessEmpty
RunOnceStep == RunOnceStop \/ RunOnceDone

OutboundNext ==
  \/ \E p \in Procs : TaskStep(p) \/ AcquireGlobalLock(p) \/ WorkFails(p)
  \/ LaunchApp \/ ProcessMessage \/ ProcessorStep \/ ProcessEmptyAgain
  \/ QueueWork \/ PauseApp \/ PrepareForBackground
  \/ RunOnce \/ RunOnceStep
  \/ RestartApp

(* The tokio tasks run, requests time out, connections are re-established  *)
(* until the queue reports Empty, the ticker ticks.                        *)
OutboundFairness ==
  /\ \A p \in Procs : WF_outboundVars(TaskStep(p)) /\ SF_outboundVars(AcquireGlobalLock(p))
  /\ WF_outboundVars(ProcessorStep) /\ WF_outboundVars(RunOnceStep)
  /\ WF_outboundVars(PrepareForBackground)

OutboundSpec == OutboundInit /\ [][OutboundNext]_outboundVars /\ OutboundFairness

-----------------------------------------------------------------------------
(***************************************************************************)
(* Properties.                                                             *)
(***************************************************************************)

Working(p) == taskState[p] \in {"work", "swept"}

(* From a message to the Empty event that ends its batch no work of the    *)
(* app runs with a live token, whatever the user queues or the ticker does *)
(* meanwhile (process_event stops the service before it accumulates).      *)
NoLiveWorkWhileReceiving ==
  phase = "receiving" /\ processor = "ready" /\ Working("app")
    => taskToken["app"].cancel \in cancelledRuns["app"]

(* The processor's wait in stop always ends: a token that was replaced, or *)
(* cancelled before the task saw it, is marked as done all the same.       *)
ProcessorGoesOn == <>[](processor = "ready")

\* The app was resumed and has drained its queue before the stop of the pause
\* came: the service stays stopped until the next Empty event.
LeftStopped == phase = "drained" /\ Cancelled("app")

(* Queued work is sent in the end: a message stops the service, Empty      *)
(* starts it, failed runs are repeated by the periodic wake.               *)
QueuedWorkIsDone == <>[](~workQueued \/ LeftStopped)

=============================================================================
