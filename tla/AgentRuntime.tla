----------------------------- MODULE AgentRuntime -----------------------------
(***************************************************************************)
(* The agent process: the task stream that delivers tasks and cancels, one *)
(* goroutine per delivery that passes the limiter and the executor, the    *)
(* reports to the control plane, and run()'s ordered shutdown.             *)
(*   cmd/nodeping-agent/main.go              run                           *)
(*   cmd/nodeping-agent/agent_task_stream.go taskStreamLoop, consume...    *)
(*   cmd/nodeping-agent/agent_task_execute.go executeAndReport             *)
(*   cmd/nodeping-agent/agent_upgrade.go     runAgentUpgrade (its outcome) *)
(*                                                                         *)
(* One element of Goroutines stands for the goroutine that handles one     *)
(* delivery, and for the goroutine Start spawns in its place.              *)
(***************************************************************************)
EXTENDS TaskConcurrencyLimiter, AgentTaskExecutor

CONSTANTS
    UpgradeTasks,   \* the tasks whose type is agent_upgrade
    UpgradeMode,    \* normalizeUpgradeMode(cfg.UpgradeMode), "auto" resolved
    DeliveredIds,   \* the ids of the task events the control plane sends
    LimitRequests   \* the max_concurrency values they may carry

UpgradeModes == {"disabled", "container", "request_file", "systemd", "script"}

ASSUME RuntimeAssumption ==
    /\ UpgradeTasks \subseteq Tasks
    /\ UpgradeMode \in UpgradeModes
    /\ DeliveredIds \subseteq Tasks \cup {NoID}
    /\ LimitRequests \subseteq Nat

VARIABLES
    pc,         \* where each goroutine is
    job,        \* the task id it handles
    ctxDone,    \* its context (streamCtx, then taskCtx) is done
    outcome,    \* what executeTask returned to it
    stream,     \* the SSE connection: "closed", "open", or "stopped"
    main,       \* where run() is
    signalled,  \* run()'s ctx is done (SIGINT or SIGTERM)
    loopsCancelled,    \* cancelLoops was called
    restartRequested,  \* cfg.RestartRequested holds its one element
    cancelReports,     \* ids whose "cancelled before execution" report is pending
    reported,   \* what the control plane recorded of each task
    memory      \* history: how long ago each id finished or was cancelled

taskVars == <<pc, job, ctxDone, outcome>>
mainVars == <<main, signalled, loopsCancelled>>
reportVars == <<restartRequested, cancelReports, reported>>
vars == <<limiterVars, executorVars, taskVars, stream, mainVars, reportVars, memory>>

Ids == Tasks \cup {NoID}

Waiting == {"acquiring", "selecting", "admitted", "refused"}
Counted == {"executing", "reporting", "releasing", "unregistering"}
Pcs == {"idle"} \cup Waiting \cup Counted
Holding == {"admitted", "refused", "executing", "reporting", "releasing"}

At(states) == {g \in Goroutines : pc[g] \in states}

\* The goroutines e.wg counts.
Started == At(Counted)

Stopped == main \in {"drained", "gaveUp", "panicked"}
LoopsDone == signalled \/ loopsCancelled

Go(g, from, to) ==
    /\ ~Stopped
    /\ pc[g] = from
    /\ pc' = [pc EXCEPT ![g] = to]

\* The goroutine returns; nothing of it is left.
GoroutineEnds(g, from) ==
    /\ Go(g, from, "idle")
    /\ job' = [job EXCEPT ![g] = NoID]
    /\ ctxDone' = [ctxDone EXCEPT ![g] = FALSE]
    /\ UNCHANGED outcome

-----------------------------------------------------------------------------
(* History.  An id is settled when it finishes or when a cancel for it is  *)
(* recorded; memory[how][id] has the ticks since, up to TombstoneTTL, and  *)
(* the ids settled in the same way since.  Those of the same tick count as *)
(* newer, for their order is not modelled.                                 *)

Ways == {"finished", "cancelled"}
Forgotten == [age |-> TombstoneTTL, newer |-> {}]

Settle(t, how) ==
    LET before == memory[how]
        peers  == {v \in Tasks \ {t} : before[v].age = 0}
    IN  memory' = [memory EXCEPT ![how] = [u \in Tasks |->
            CASE u = t -> [age |-> 0, newer |-> peers]
              [] u # t /\ before[u].age < TombstoneTTL ->
                    [before[u] EXCEPT !.newer = @ \cup {t}]
              [] OTHER -> Forgotten]]

AgeMemory ==
    memory' = [how \in Ways |-> [u \in Tasks |->
        IF memory[how][u].age + 1 >= TombstoneTTL
        THEN Forgotten
        ELSE [memory[how][u] EXCEPT !.age = @ + 1]]]

-----------------------------------------------------------------------------
(* The task stream.                                                        *)

\* consumeTaskStream got its 2xx; a failed attempt changes nothing.
Connect ==
    /\ ~Stopped /\ ~LoopsDone
    /\ stream = "closed"
    /\ stream' = "open"
    /\ UNCHANGED <<limiterVars, executorVars, taskVars, mainVars, reportVars, memory>>

(* The handler of a task event: the limit the event carries is applied, a  *)
(* goroutine is spawned.  The server may send the same id any number of    *)
(* times; there are at most as many deliveries in flight as Goroutines.    *)
Deliver(g, t, n) ==
    /\ stream = "open"
    /\ SetLimit(n)
    /\ Go(g, "idle", "acquiring")
    /\ job' = [job EXCEPT ![g] = t]
    /\ UNCHANGED <<executorVars, ctxDone, outcome, stream, mainVars, reportVars, memory>>

\* The handler of a cancel event, which runs CancelTask in the reader itself.
CancelDelivered(t) ==
    /\ ~Stopped
    /\ stream = "open"
    /\ UNCHANGED <<limiterVars, pc, job, outcome, stream, mainVars, restartRequested, reported>>
    /\ \/ /\ CancelRunning(t)
          /\ ctxDone' = [g \in Goroutines |-> ctxDone[g] \/ (g \in Started /\ job[g] = t)]
          /\ UNCHANGED <<cancelReports, memory>>
       \/ /\ CancelAgain(t)
          /\ UNCHANGED <<ctxDone, cancelReports, memory>>
       \/ /\ CancelUnknown(t)
          /\ cancelReports' = cancelReports \cup {t}
          /\ Settle(t, "cancelled")
          /\ UNCHANGED ctxDone

\* readSSETasks returned: the deferred cancelStream reaches every waiter.
CloseStream ==
    /\ ~Stopped
    /\ stream = "open"
    /\ stream' = "closed"
    /\ ctxDone' = [g \in Goroutines |-> ctxDone[g] \/ g \in At(Waiting)]
    /\ UNCHANGED <<limiterVars, executorVars, pc, job, outcome, mainVars, reportVars, memory>>

\* The server closed the connection, it broke, or it was idle too long.
StreamLost == ~LoopsDone /\ CloseStream

\* The reader noticed that loopCtx is done.
StreamCancelled == LoopsDone /\ CloseStream

\* taskStreamLoop returns.
StreamLoopReturns ==
    /\ ~Stopped /\ LoopsDone
    /\ stream = "closed"
    /\ stream' = "stopped"
    /\ UNCHANGED <<limiterVars, executorVars, taskVars, mainVars, reportVars, memory>>

-----------------------------------------------------------------------------
(* The goroutine of a delivery: Acquire, then Start.                        *)

AcquireTakes(g) ==
    /\ Go(g, "acquiring", "admitted")
    /\ TakeSlot
    /\ UNCHANGED <<executorVars, job, ctxDone, outcome, stream, mainVars, reportVars, memory>>

AcquireParks(g) ==
    /\ Go(g, "acquiring", "selecting")
    /\ Park(g)
    /\ UNCHANGED <<executorVars, job, ctxDone, outcome, stream, mainVars, reportVars, memory>>

AcquireRetries(g) ==
    /\ Go(g, "selecting", "acquiring")
    /\ Unpark(g)
    /\ UNCHANGED <<executorVars, job, ctxDone, outcome, stream, mainVars, reportVars, memory>>

\* streamCtx is a child of loopCtx, so run()'s cancellation is seen at once.
AcquireGivesUp(g) ==
    /\ ctxDone[g] \/ LoopsDone
    /\ GoroutineEnds(g, "selecting")
    /\ Abandon(g)
    /\ UNCHANGED <<executorVars, stream, mainVars, reportVars, memory>>

\* executor.Start returned true; the task's context is new, a child of e.ctx.
StartAccepts(g) ==
    /\ Go(g, "admitted", "executing")
    /\ Register(job[g])
    /\ ctxDone' = [ctxDone EXCEPT ![g] = FALSE]
    /\ UNCHANGED <<limiterVars, job, outcome, stream, mainVars, reportVars, memory>>

\* executor.Start returned false...
StartRefuses(g) ==
    /\ Go(g, "admitted", "refused")
    /\ Refuse(job[g])
    /\ UNCHANGED <<limiterVars, job, ctxDone, outcome, stream, mainVars, reportVars, memory>>

\* Mutant: the slot of a refused delivery is never released.
ReleaseRefusedForgotten(g) ==
    /\ GoroutineEnds(g, "refused")
    /\ UNCHANGED <<limiterVars, executorVars, stream, mainVars, reportVars, memory>>

\* ...and the delivery gives its slot back.
ReleaseRefused(g) ==
    /\ GoroutineEnds(g, "refused")
    /\ Release
    /\ UNCHANGED <<executorVars, stream, mainVars, reportVars, memory>>

-----------------------------------------------------------------------------
(* executeAndReport and the epilogue Start deferred.                        *)

(* executeTask: whatever ends it, the deadline, an error or a cancelled     *)
(* context included, is a result the agent reports.  The "running" event    *)
(* posted before it changes nothing in the agent and is left out.           *)
Execute(g, result) ==
    /\ Go(g, "executing", "reporting")
    /\ outcome' = [outcome EXCEPT ![g] = result]
    /\ UNCHANGED <<limiterVars, executorVars, job, ctxDone, stream, mainVars, reportVars, memory>>

(* runAgentUpgrade stores its duration in the map a helper returned.  Except *)
(* in container mode that map is nil when the helper failed early, and      *)
(* nothing recovers the panic of writing to it: the process dies.           *)
UpgradePanics(g) ==
    /\ ~Stopped
    /\ pc[g] = "executing"
    /\ job[g] \in UpgradeTasks
    /\ UpgradeMode \in {"request_file", "systemd", "script"}
    /\ main' = "panicked"
    /\ UNCHANGED <<limiterVars, executorVars, taskVars, stream, signalled, loopsCancelled,
                   reportVars, memory>>

\* taskResultRequestsRestart: only containerUpgrade sets restart_required.
RequestsRestart(g) ==
    /\ job[g] \in UpgradeTasks
    /\ UpgradeMode = "container"
    /\ outcome[g] = "completed"

\* What the control plane learns from g's result: that there is one, and
\* whether it is the success of an upgrade that wants a restart.
ResultKinds(g) == {"result"} \cup {k \in {"upgraded"} : RequestsRestart(g)}

\* Mutant: the restart is requested before the answer to the post is looked at.
ReportUnchecked(g, recorded, acknowledged) ==
    /\ acknowledged => recorded
    /\ Go(g, "reporting", "releasing")
    /\ reported' = IF recorded /\ job[g] # NoID
                   THEN [reported EXCEPT ![job[g]] = @ \cup ResultKinds(g)]
                   ELSE reported
    /\ restartRequested' = (restartRequested \/ RequestsRestart(g))
    /\ outcome' = [outcome EXCEPT ![g] = "none"]
    /\ UNCHANGED <<limiterVars, executorVars, job, ctxDone, stream, mainVars, cancelReports, memory>>

(* postAgentResultWithRetry: the control plane may record the result and    *)
(* its answer still be lost, so that the agent counts the post as failed.   *)
Report(g, recorded, acknowledged) ==
    /\ acknowledged => recorded
    /\ Go(g, "reporting", "releasing")
    /\ reported' = IF recorded /\ job[g] # NoID
                   THEN [reported EXCEPT ![job[g]] = @ \cup ResultKinds(g)]
                   ELSE reported
    /\ restartRequested' = (restartRequested \/ (acknowledged /\ RequestsRestart(g)))
    /\ outcome' = [outcome EXCEPT ![g] = "none"]
    /\ UNCHANGED <<limiterVars, executorVars, job, ctxDone, stream, mainVars, cancelReports, memory>>

\* The innermost defer runs first: the slot is free while the id is registered.
ReleaseSlot(g) ==
    /\ Go(g, "releasing", "unregistering")
    /\ Release
    /\ UNCHANGED <<executorVars, job, ctxDone, outcome, stream, mainVars, reportVars, memory>>

\* Then the id becomes a tombstone and e.wg.Done is called.
Finish(g) ==
    /\ GoroutineEnds(g, "unregistering")
    /\ Unregister(job[g])
    /\ IF job[g] = NoID THEN UNCHANGED memory ELSE Settle(job[g], "finished")
    /\ UNCHANGED <<limiterVars, stream, mainVars, reportVars>>

\* The goroutine CancelTask spawned; e.wg does not count it.
PostCancelReport(t, recorded) ==
    /\ ~Stopped
    /\ t \in cancelReports
    /\ cancelReports' = cancelReports \ {t}
    /\ reported' = IF recorded THEN [reported EXCEPT ![t] = @ \cup {"unstarted"}]
                              ELSE reported
    /\ UNCHANGED <<limiterVars, executorVars, taskVars, stream, mainVars, restartRequested, memory>>

-----------------------------------------------------------------------------
(* run(), from its select to its return.                                    *)

MainGo(from, to) ==
    /\ main = from
    /\ main' = to

Signal ==
    /\ ~Stopped /\ ~signalled
    /\ signalled' = TRUE
    /\ UNCHANGED <<limiterVars, executorVars, taskVars, stream, main, loopsCancelled, reportVars, memory>>

SelectLeaves ==
    /\ MainGo("select", "stopAccepting")
    /\ \/ signalled /\ UNCHANGED restartRequested
       \/ restartRequested /\ restartRequested' = FALSE
    /\ UNCHANGED <<limiterVars, executorVars, taskVars, stream, signalled, loopsCancelled,
                   cancelReports, reported, memory>>

MainStopsAccepting ==
    /\ MainGo("stopAccepting", "cancelLoops")
    /\ StopAccepting
    /\ UNCHANGED <<limiterVars, taskVars, stream, signalled, loopsCancelled, reportVars, memory>>

MainCancelsLoops ==
    /\ MainGo("cancelLoops", "joinLoops")
    /\ loopsCancelled' = TRUE
    /\ UNCHANGED <<limiterVars, executorVars, taskVars, stream, signalled, reportVars, memory>>

MainJoinsLoops ==
    /\ MainGo("joinLoops", "draining")
    /\ stream = "stopped"
    /\ UNCHANGED <<limiterVars, executorVars, taskVars, stream, signalled, loopsCancelled, reportVars, memory>>

\* executor.Wait returns true, in either of its two calls, and run() returns.
MainDrained ==
    /\ MainGo("draining", "drained") \/ MainGo("lastWait", "drained")
    /\ Started = {}
    /\ UNCHANGED <<limiterVars, executorVars, taskVars, stream, signalled, loopsCancelled, reportVars, memory>>

\* The drain timer fired first: every task's context is cancelled.
MainCancelsTasks ==
    /\ MainGo("draining", "lastWait")
    /\ ctxDone' = [g \in Goroutines |-> ctxDone[g] \/ g \in Started]
    /\ UNCHANGED <<limiterVars, executorVars, pc, job, outcome, stream, signalled, loopsCancelled,
                   reportVars, memory>>

\* Mutant: the second executor.Wait is given a context without a deadline.
MainNeverGivesUp ==
    /\ MainGo("lastWait", "gaveUp")
    /\ Started = {}
    /\ UNCHANGED <<limiterVars, executorVars, taskVars, stream, signalled, loopsCancelled, reportVars, memory>>

\* The final reporting window closed with tasks still running.
MainGivesUp ==
    /\ MainGo("lastWait", "gaveUp")
    /\ UNCHANGED <<limiterVars, executorVars, taskVars, stream, signalled, loopsCancelled, reportVars, memory>>

Tick ==
    /\ ~Stopped
    /\ AgeTombstones
    /\ AgeMemory
    /\ UNCHANGED <<limiterVars, taskVars, stream, mainVars, reportVars>>

Terminated == Stopped /\ UNCHANGED vars

-----------------------------------------------------------------------------
Init ==
    /\ LimiterInit
    /\ ExecutorInit
    /\ pc = [g \in Goroutines |-> "idle"]
    /\ job = [g \in Goroutines |-> NoID]
    /\ ctxDone = [g \in Goroutines |-> FALSE]
    /\ outcome = [g \in Goroutines |-> "none"]
    /\ stream = "closed"
    /\ main = "select"
    /\ signalled = FALSE
    /\ loopsCancelled = FALSE
    /\ restartRequested = FALSE
    /\ cancelReports = {}
    /\ reported = [t \in Tasks |-> {}]
    /\ memory = [how \in Ways |-> [t \in Tasks |-> Forgotten]]

Streaming ==
    \/ Connect
    \/ \E g \in Goroutines, t \in DeliveredIds, n \in LimitRequests : Deliver(g, t, n)
    \/ \E t \in Tasks : CancelDelivered(t)
    \/ StreamLost
    \/ StreamCancelled
    \/ StreamLoopReturns

Admission(g) ==
    \/ AcquireTakes(g) \/ AcquireParks(g) \/ AcquireRetries(g) \/ AcquireGivesUp(g)
    \/ StartAccepts(g) \/ StartRefuses(g) \/ ReleaseRefused(g)

Execution(g) ==
    \/ \E result \in {"completed", "failed"} : Execute(g, result)
    \/ UpgradePanics(g)
    \/ \E recorded, acknowledged \in BOOLEAN : Report(g, recorded, acknowledged)
    \/ ReleaseSlot(g)
    \/ Finish(g)

Shutdown ==
    \/ SelectLeaves \/ MainStopsAccepting \/ MainCancelsLoops \/ MainJoinsLoops
    \/ MainDrained \/ MainCancelsTasks \/ MainGivesUp

Next ==
    \/ Streaming
    \/ \E g \in Goroutines : Admission(g) \/ Execution(g)
    \/ \E t \in Tasks, recorded \in BOOLEAN : PostCancelReport(t, recorded)
    \/ Signal
    \/ Shutdown
    \/ Tick
    \/ Terminated

Spec == Init /\ [][Next]_vars

(* What the Go scheduler and the timers guarantee: a goroutine that can     *)
(* step steps, a post ends within its deadline, a reader whose context is   *)
(* done returns, run() moves on and its two timers fire.  Nothing is        *)
(* assumed of the control plane, of signals, or of a task ever ending.      *)
Fairness ==
    /\ \A g \in Goroutines :
        /\ WF_vars(Admission(g))
        /\ WF_vars(\E recorded, acknowledged \in BOOLEAN : Report(g, recorded, acknowledged))
        /\ WF_vars(ReleaseSlot(g))
        /\ WF_vars(Finish(g))
    /\ WF_vars(StreamCancelled)
    /\ WF_vars(StreamLoopReturns)
    /\ WF_vars(Shutdown)

FairSpec == Spec /\ Fairness

-----------------------------------------------------------------------------
(* Types.  A goroutine has an id, a done context or an outcome only while   *)
(* it is doing something; memory mirrors the tombstone clock.               *)
TypeOK ==
    /\ LimiterTypeOK
    /\ ExecutorTypeOK
    /\ pc \in [Goroutines -> Pcs]
    /\ job \in [Goroutines -> Ids]
    /\ ctxDone \in [Goroutines -> BOOLEAN]
    /\ outcome \in [Goroutines -> {"none", "completed", "failed"}]
    /\ stream \in {"closed", "open", "stopped"}
    /\ main \in {"select", "stopAccepting", "cancelLoops", "joinLoops", "draining",
                 "lastWait", "drained", "gaveUp", "panicked"}
    /\ signalled \in BOOLEAN
    /\ loopsCancelled \in BOOLEAN
    /\ restartRequested \in BOOLEAN
    /\ cancelReports \subseteq Tasks
    /\ reported \in [Tasks -> SUBSET {"result", "upgraded", "unstarted"}]
    /\ memory \in [Ways -> [Tasks -> [age : 0..TombstoneTTL, newer : SUBSET Tasks]]]

(* The limiter's counter is exactly the number of goroutines between a      *)
(* successful Acquire and their Release, whichever of the three ways (task  *)
(* done, Start refused, delivery given up) they leave by: no slot is ever   *)
(* leaked or given back twice.                                              *)
SlotsAccounted == slots = Cardinality(At(Holding))

(* No lost wakeup: a delivery sleeps on the current `changed` channel only  *)
(* while every slot is taken, although slots and the limit change between   *)
(* its check and its select.                                                *)
NoLostWakeup ==
    /\ parked \subseteq At({"selecting"})
    /\ parked # {} => slots >= limit

(* The registry CancelTask and Start consult is exactly the set of ids that *)
(* goroutines counted by e.wg work on, and no id is worked on twice at once.*)
RegistryMatchesTasks ==
    /\ running = {job[g] : g \in Started} \ {NoID}
    /\ \A g, h \in Started : job[g] = job[h] /\ job[g] # NoID => g = h

(* A redelivered task does not start again, nor a cancelled one at all,     *)
(* before its tombstone expired or MaxTombstones younger ones displaced it. *)
NoStartWhileRemembered ==
    [][\A g \in Goroutines :
        (pc[g] = "admitted" /\ pc'[g] = "executing" /\ job[g] # NoID) =>
            \A how \in Ways :
                \/ memory[how][job[g]].age = TombstoneTTL
                \/ Cardinality(memory[how][job[g]].newer) >= MaxTombstones]_vars

(* executor.Wait: "Prevent any Add from racing with Wait": from the moment  *)
(* run() waits for its tasks none is added, although deliveries that were   *)
(* waiting for a slot are still on their way to Start.                      *)
NoAddAfterWait ==
    [][(main \in {"draining", "lastWait"}) => Started' \subseteq Started]_vars

(* Unless it was signalled, the agent leaves its main loop only after the   *)
(* control plane recorded the success of an upgrade: a failed upgrade, or   *)
(* one whose result was lost, never takes the agent down.                   *)
RestartOnlyAfterReport ==
    (restartRequested \/ (main # "select" /\ ~signalled)) =>
        \E t \in UpgradeTasks : "upgraded" \in reported[t]

(* "task cancelled before execution" is what CancelTask's report says of a  *)
(* task; the control plane never also holds a result of its execution.      *)
CancelReportIsTrue ==
    \A t \in Tasks :
        ~ {"unstarted", "result"} \subseteq reported[t]

(* The limiter with its goroutines, its mutex and its channels implements   *)
(* the resizable semaphore.                                                 *)
Semaphore == INSTANCE CountingSemaphore WITH holders <- At(Holding)
RefinesSemaphore == Semaphore!Spec

(* A signal or a requested restart ends the process, even when a task never *)
(* ends and the server goes on delivering: both waits are bounded.          *)
ShutdownCompletes == (signalled \/ restartRequested) ~> Stopped

(* If every started task ends, and the server does not deliver for ever,    *)
(* no delivery hangs: each reaches its end, whatever the order of releases, *)
(* limit changes, cancels and reconnections.                                *)
TasksEnd == \A g \in Goroutines : []<>(pc[g] # "executing")
DeliveriesStop == <>[][\A g \in Goroutines : pc[g] = "idle" => pc'[g] = "idle"]_vars
DeliveriesSettle ==
    (TasksEnd /\ DeliveriesStop) =>
        \A g \in Goroutines : []<>(pc[g] = "idle" \/ Stopped)
=============================================================================
