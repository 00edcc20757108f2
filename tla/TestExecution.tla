---------------------------- MODULE TestExecution -----------------------------
(***************************************************************************)
(* The runs of one test scenario: the Step Functions executions that       *)
(* orchestrate them over the regions, the Lambda functions those           *)
(* executions call, the ECS service each run needs in each region, and the *)
(* processes that act on a run from outside: the API that starts and       *)
(* cancels it, the task-canceler, the task-failure-handler and the         *)
(* sfn-failure-handler.                                                    *)
(*                                                                         *)
(* A step is one call that leaves a trace: one DynamoDB write, one ECS     *)
(* mutation, one transition of an execution.  Stopping an execution does   *)
(* not stop a Lambda function it has already invoked, so the steps of a    *)
(* function do not ask whether its execution still runs; only what the     *)
(* state machine does with the outcome does.                               *)
(***************************************************************************)
EXTENDS Naturals, FiniteSets, ScenarioStatus

CONSTANTS
  Runs,              \* testRunIds, one execution each
  Regions,           \* the regions of the scenario's testTaskConfigs
  NoRun,             \* marks "no service" and "no target"
  StartableStatuses, \* statuses in which the users of the API start a run
  MaxCancels,        \* bound on invocations of task-canceler
  Faults,            \* the calls that may fail: a subset of FaultNames
  QueuedWriteLags    \* may the API's "queued" write come after the run's own?

FaultNames ==
  {"runningCheck", "createService", "dashboard", "stabilization",
   "regionalSync", "start", "completionCheck", "threshold", "parse",
   "statusWrite", "increment", "cleanup", "invoke", "stopExecution",
   "cancelling"}

ASSUME RunsAssumption == IsFiniteSet(Runs) /\ Runs # {}
ASSUME RegionsAssumption == IsFiniteSet(Regions) /\ Regions # {}
ASSUME NoRunAssumption == NoRun \notin Runs
ASSUME StartableAssumption == StartableStatuses \subseteq Status
ASSUME BoundAssumption == MaxCancels \in Nat
ASSUME FaultsAssumption == Faults \subseteq FaultNames
ASSUME LagAssumption == QueuedWriteLags \in BOOLEAN

VARIABLES
  \* DynamoDB
  status,        \* ScenariosTable: status of the scenario
  history,       \* HistoryTable: status of each run
  totalTestRuns, \* ScenariosTable: totalTestRuns
  uncounted,     \* increments of it that failed: only the log knows of them
  \* Step Functions
  exec,          \* each execution's status
  phase,         \* the top-level state each execution is in
  lane,          \* each execution's map iteration for each region
  events,        \* runs whose status-change event is not delivered yet
  \* ECS: the service dlt-{testId}-{region} of each region
  owner,         \* the run that created it, NoRun when there is none
  desired,       \* its desired count, "full" or "zero"
  \* Lambda functions at work
  unqueued,      \* runs whose "queued" write the API still has to make
  updater,       \* test-metadata-updater, per run
  cleanup,       \* test-cleanup, per invoker, run and region
  canceler,      \* task-canceler
  target,        \* the run task-canceler found
  cancels        \* invocations of task-canceler so far

tableVars  == <<status, history, totalTestRuns, uncounted>>
sfnVars    == <<exec, phase, lane, events>>
ecsVars    == <<owner, desired>>
cancelVars == <<canceler, target, cancels>>
vars == <<status, history, totalTestRuns, uncounted, exec, phase, lane, events,
          owner, desired, unqueued, updater, cleanup, canceler, target, cancels>>

-------------------------------------------------------------------------------
\* One map iteration per run and region, and one test-cleanup per invoker.
Lanes    == Runs \X Regions
Invokers == {"sfn", "canceler", "handler"}
Jobs     == Invokers \X Runs \X Regions

LanesOf(run) == {l \in Lanes : l[1] = run}
SfnJob(l)    == <<"sfn", l[1], l[2]>>

ExecStatus == {"none", "RUNNING", "SUCCEEDED", "FAILED", "ABORTED"}

\* Top-level states.  A set* phase waits for test-metadata-updater.
Phases ==
  {"idle", "stabilization", "cancelAll", "setRunning", "execution",
   "setParsing", "parseResults", "setCleaningUp", "setCleaningUpAfterError",
   "cleanupMap", "errorCleanupMap", "setComplete", "setFailed", "end",
   "stopped"}

\* States of a map iteration: create .. runnerFailed are inside task-runner,
\* "stopped" is an iteration whose function outlived the execution.
LaneStates ==
  {"idle", "check", "create", "provision", "dashboard", "runnerFailed",
   "stabilizing", "ready", "notReady", "start", "polling", "success", "failed",
   "cleaning", "cleaned", "stopped"}

\* The phases in which the state machine waits for test-metadata-updater.
SetPhases ==
  {"setRunning", "setParsing", "setCleaningUp", "setCleaningUpAfterError",
   "setComplete", "setFailed"}

UpdaterStates == {"idle", "scenario", "history", "count", "returned", "threw"}
CleanupStates == {"idle", "drain", "delete", "record", "history", "failScenario",
                  "failHistory", "done", "threw"}
CancelerStates == {"idle", "find", "none", "stop", "cancelling", "history",
                   "count", "invoke"}

TypeOK ==
  /\ status \in Status
  /\ history \in [Runs -> HistoryStatus]
  /\ totalTestRuns \in Nat /\ uncounted \in Nat
  /\ exec \in [Runs -> ExecStatus]
  /\ phase \in [Runs -> Phases]
  /\ lane \in [Lanes -> LaneStates]
  /\ events \subseteq Runs
  /\ owner \in [Regions -> Runs \cup {NoRun}]
  /\ desired \in [Regions -> {"full", "zero"}]
  /\ unqueued \subseteq Runs
  /\ updater \in [Runs -> UpdaterStates]
  /\ cleanup \in [Jobs -> CleanupStates]
  /\ canceler \in CancelerStates
  /\ target \in Runs \cup {NoRun}
  /\ canceler \notin {"idle", "find", "none"} => target \in Runs
  /\ cancels \in 0 .. MaxCancels

Init ==
  /\ status = "created"
  /\ history = [r \in Runs |-> Absent]
  /\ totalTestRuns = 0 /\ uncounted = 0
  /\ exec = [r \in Runs |-> "none"]
  /\ phase = [r \in Runs |-> "idle"]
  /\ lane = [l \in Lanes |-> "idle"]
  /\ events = {}
  /\ owner = [g \in Regions |-> NoRun]
  /\ desired = [g \in Regions |-> "zero"]
  /\ unqueued = {}
  /\ updater = [r \in Runs |-> "idle"]
  /\ cleanup = [j \in Jobs |-> "idle"]
  /\ canceler = "idle"
  /\ target = NoRun
  /\ cancels = 0

-------------------------------------------------------------------------------
(***************************************************************************)
(* Pieces of the state machine.                                            *)
(***************************************************************************)
Running(run) == exec[run] = "RUNNING"

\* The timing assumption of the instances with QueuedWriteLags = FALSE: the
\* API's write lands before the execution's first Lambda function starts.
Queued(run) == QueuedWriteLags \/ run \notin unqueued

MoveLane(l, to) == lane' = [lane EXCEPT ![l] = to]

\* What the state machine does when a lane's function returns: the lane moves
\* on, unless the execution is over.
ReturnTo(l, to) == MoveLane(l, IF Running(l[1]) THEN to ELSE "stopped")

\* addCatch: the lane goes on with test-cleanup(failed, skipStatusUpdate).
CatchWithCleanup(l) ==
  /\ ReturnTo(l, "cleaning")
  /\ cleanup' = [cleanup EXCEPT ![SfnJob(l)] = IF Running(l[1]) THEN "drain" ELSE @]

EnterPhase(run, to) == phase' = [phase EXCEPT ![run] = to]

\* A state that invokes test-metadata-updater.
SetStatusIn(run, to) ==
  /\ EnterPhase(run, to)
  /\ updater' = [updater EXCEPT ![run] = "scenario"]

\* A map over $.stabilizationResults whose iterations run `to'.
FanOut(run, to) == lane' = [l \in Lanes |-> IF l[1] = run THEN to ELSE lane[l]]

InvokeCleanup(invoker, run, regions) ==
  cleanup' = [j \in Jobs |-> IF j[1] = invoker /\ j[2] = run /\ j[3] \in regions
                             THEN "drain" ELSE cleanup[j]]

\* A map that runs test-cleanup in every region.
CleanupInFailedRegions(run, to) ==
  /\ EnterPhase(run, to)
  /\ lane' = [l \in Lanes |-> IF l[1] # run THEN lane[l]
                              ELSE IF lane[l] = "ready" THEN "cleaned" ELSE "cleaning"]
  /\ InvokeCleanup("sfn", run, Regions)

CleanupInEveryRegion(run, to) ==
  /\ EnterPhase(run, to)
  /\ FanOut(run, "cleaning")
  /\ InvokeCleanup("sfn", run, Regions)

EndExecution(run, as) ==
  /\ exec' = [exec EXCEPT ![run] = as]
  /\ events' = IF as = "SUCCEEDED" THEN events ELSE events \cup {run}

-------------------------------------------------------------------------------
(***************************************************************************)
(* The API.                                                                *)
(***************************************************************************)

\* createTest starts the execution (the TestStart metric step it begins with
\* never fails it) and only then writes the scenario.
StartRun(run) ==
  /\ exec[run] = "none"
  /\ status \in StartableStatuses
  /\ exec' = [exec EXCEPT ![run] = "RUNNING"]
  /\ EnterPhase(run, "stabilization")
  /\ FanOut(run, "check")
  /\ unqueued' = unqueued \cup {run}
  /\ UNCHANGED <<tableVars, events, ecsVars, updater, cleanup, cancelVars>>

WriteQueued(run) ==
  /\ run \in unqueued
  /\ status' = "queued"
  /\ unqueued' = unqueued \ {run}
  /\ UNCHANGED <<history, totalTestRuns, uncounted, sfnVars, ecsVars, updater,
                 cleanup, cancelVars>>

-------------------------------------------------------------------------------
(***************************************************************************)
(* Phase 1: per region, check, create the service, wait until it is stable.*)
(***************************************************************************)

\* "Check Running Tests" and the choice after it.
CheckRunningTests(l) ==
  /\ lane[l] = "check" /\ Running(l[1]) /\ Queued(l[1])
  /\ MoveLane(l, IF status = "running" THEN "notReady" ELSE "create")
  /\ UNCHANGED <<tableVars, exec, phase, events, ecsVars, unqueued, updater,
                 cleanup, cancelVars>>

\* task-status-checker's catch block writes "failed" whatever the status is.
CheckRunningTestsFails(l) ==
  /\ "runningCheck" \in Faults
  /\ lane[l] = "check" /\ Queued(l[1])
  /\ status' = "failed"
  /\ CatchWithCleanup(l)
  /\ UNCHANGED <<history, totalTestRuns, uncounted, exec, phase, events,
                 ecsVars, unqueued, updater, cancelVars>>

CreateService(l) ==
  /\ lane[l] = "create"
  /\ owner[l[2]] = NoRun
  /\ owner' = [owner EXCEPT ![l[2]] = l[1]]
  /\ desired' = [desired EXCEPT ![l[2]] = "full"]
  /\ MoveLane(l, "provision")
  /\ UNCHANGED <<tableVars, exec, phase, events, unqueued, updater, cleanup,
                 cancelVars>>

\* ECS refuses a second active service of the same name.
CreateServiceFails(l) ==
  /\ lane[l] = "create"
  /\ owner[l[2]] # NoRun \/ "createService" \in Faults
  /\ MoveLane(l, "runnerFailed")
  /\ UNCHANGED <<tableVars, exec, phase, events, ecsVars, unqueued, updater,
                 cleanup, cancelVars>>

WriteProvisioning(l) ==
  /\ lane[l] = "provision"
  /\ status' = "provisioning"
  /\ MoveLane(l, "dashboard")
  /\ UNCHANGED <<history, totalTestRuns, uncounted, exec, phase, events,
                 ecsVars, unqueued, updater, cleanup, cancelVars>>

CreateDashboard(l) ==
  /\ lane[l] = "dashboard"
  /\ ReturnTo(l, "stabilizing")
  /\ UNCHANGED <<tableVars, exec, phase, events, ecsVars, unqueued, updater,
                 cleanup, cancelVars>>

\* Any call after createEcsService may throw.
RunnerThrows(l) ==
  /\ "dashboard" \in Faults
  /\ lane[l] \in {"provision", "dashboard"}
  /\ MoveLane(l, "runnerFailed")
  /\ UNCHANGED <<tableVars, exec, phase, events, ecsVars, unqueued, updater,
                 cleanup, cancelVars>>

\* task-runner's catch block writes "failed" whatever the status is.
RunnerWritesFailed(l) ==
  /\ lane[l] = "runnerFailed"
  /\ status' = "failed"
  /\ CatchWithCleanup(l)
  /\ UNCHANGED <<history, totalTestRuns, uncounted, exec, phase, events,
                 ecsVars, unqueued, updater, cancelVars>>

\* "Check Stabilization".  PENDING loops through the wait state and changes
\* nothing, so it is not a step.  The checker finds the service by its name.
StabilizationReady(l) ==
  /\ lane[l] = "stabilizing" /\ Running(l[1])
  /\ owner[l[2]] # NoRun /\ desired[l[2]] = "full"
  /\ MoveLane(l, "ready")
  /\ UNCHANGED <<tableVars, exec, phase, events, ecsVars, unqueued, updater,
                 cleanup, cancelVars>>

\* FAILED: circuit breaker, scaled to zero, INACTIVE, or 30 minutes gone, which
\* is why it may happen to any service.
StabilizationFailed(l) ==
  /\ lane[l] = "stabilizing" /\ Running(l[1])
  /\ MoveLane(l, "notReady")
  /\ UNCHANGED <<tableVars, exec, phase, events, ecsVars, unqueued, updater,
                 cleanup, cancelVars>>

\* The checker throws: the service is gone, or the call failed.
StabilizationThrows(l) ==
  /\ lane[l] = "stabilizing" /\ Running(l[1])
  /\ owner[l[2]] = NoRun \/ "stabilization" \in Faults
  /\ CatchWithCleanup(l)
  /\ UNCHANGED <<tableVars, exec, phase, events, ecsVars, unqueued, updater,
                 cancelVars>>

-------------------------------------------------------------------------------
(***************************************************************************)
(* Regional sync, and phase 2: START, then poll until done.                *)
(***************************************************************************)
RegionalSyncSomeReady(run) ==
  /\ Running(run) /\ phase[run] = "stabilization"
  /\ \A l \in LanesOf(run) : lane[l] \in {"ready", "notReady"}
  /\ \E l \in LanesOf(run) : lane[l] = "ready"
  /\ SetStatusIn(run, "setRunning")
  /\ UNCHANGED <<tableVars, exec, lane, events, ecsVars, unqueued, cleanup,
                 cancelVars>>

RegionalSyncReady(run) ==
  /\ Running(run) /\ phase[run] = "stabilization"
  /\ \A l \in LanesOf(run) : lane[l] = "ready"
  /\ SetStatusIn(run, "setRunning")
  /\ UNCHANGED <<tableVars, exec, lane, events, ecsVars, unqueued, cleanup,
                 cancelVars>>

\* Some region is not ready, or "Regional Sync" throws.
RegionalSyncNotReady(run) ==
  /\ Running(run) /\ phase[run] = "stabilization"
  /\ \A l \in LanesOf(run) : lane[l] \in {"ready", "notReady"}
  /\ "regionalSync" \in Faults \/ \E l \in LanesOf(run) : lane[l] = "notReady"
  /\ CleanupInEveryRegion(run, "cancelAll")
  /\ UNCHANGED <<tableVars, exec, events, ecsVars, unqueued, updater, cancelVars>>

SendStart(l) ==
  /\ lane[l] = "start" /\ Running(l[1])
  /\ MoveLane(l, "polling")
  /\ UNCHANGED <<tableVars, exec, phase, events, ecsVars, unqueued, updater,
                 cleanup, cancelVars>>

SendStartFails(l) ==
  /\ "start" \in Faults
  /\ lane[l] = "start" /\ Running(l[1])
  /\ CatchWithCleanup(l)
  /\ UNCHANGED <<tableVars, exec, phase, events, ecsVars, unqueued, updater,
                 cancelVars>>

\* "Check Completion": every marker is there.  (CompletionMonitor says when.)
RegionComplete(l) ==
  /\ lane[l] = "polling" /\ Running(l[1])
  /\ status = "running"
  /\ MoveLane(l, "success")
  /\ UNCHANGED <<tableVars, exec, phase, events, ecsVars, unqueued, updater,
                 cleanup, cancelVars>>

RegionShortCircuited(l) ==
  /\ lane[l] = "polling" /\ Running(l[1])
  /\ status # "running"
  /\ CatchWithCleanup(l)
  /\ UNCHANGED <<tableVars, exec, phase, events, ecsVars, unqueued, updater,
                 cancelVars>>

\* timedOut: the scenario is not "running" any more, or the deadline passed.
RegionTimedOut(l) ==
  /\ lane[l] = "polling" /\ Running(l[1])
  /\ CatchWithCleanup(l)
  /\ UNCHANGED <<tableVars, exec, phase, events, ecsVars, unqueued, updater,
                 cancelVars>>

CheckCompletionFails(l) ==
  /\ "completionCheck" \in Faults
  /\ lane[l] = "polling"
  /\ status' = "failed"
  /\ CatchWithCleanup(l)
  /\ UNCHANGED <<history, totalTestRuns, uncounted, exec, phase, events,
                 ecsVars, unqueued, updater, cancelVars>>

\* task-failure-handler: too many tasks stopped.
ThresholdBreached ==
  /\ "threshold" \in Faults
  /\ status = "running"
  /\ status' = ThresholdWrite(status)
  /\ UNCHANGED <<history, totalTestRuns, uncounted, sfnVars, ecsVars, unqueued,
                 updater, cleanup, cancelVars>>

EndExecutionMap(run) ==
  /\ Running(run) /\ phase[run] = "execution"
  /\ \A l \in LanesOf(run) : lane[l] \in {"success", "failed"}
  /\ SetStatusIn(run, "setParsing")
  /\ UNCHANGED <<tableVars, exec, lane, events, ecsVars, unqueued, cleanup,
                 cancelVars>>

-------------------------------------------------------------------------------
(***************************************************************************)
(* Results, phase 3 cleanup and the end of the execution.                  *)
(***************************************************************************)
ParseResults(run) ==
  /\ Running(run) /\ phase[run] = "parseResults"
  /\ SetStatusIn(run, "setCleaningUp")
  /\ UNCHANGED <<tableVars, exec, lane, events, ecsVars, unqueued, cleanup,
                 cancelVars>>

\* results-parser writes "failed" whatever the status is, then throws.
ParseResultsFails(run) ==
  /\ "parse" \in Faults
  /\ phase[run] = "parseResults"
  /\ status' = "failed"
  /\ IF Running(run) THEN SetStatusIn(run, "setCleaningUpAfterError")
                     ELSE EnterPhase(run, "stopped") /\ UNCHANGED updater
  /\ UNCHANGED <<history, totalTestRuns, uncounted, exec, lane, events, ecsVars,
                 unqueued, cleanup, cancelVars>>

AllCleaned(run) == \A l \in LanesOf(run) : lane[l] = "cleaned"

EndCleanupMap(run) ==
  /\ Running(run) /\ phase[run] = "cleanupMap" /\ AllCleaned(run)
  /\ SetStatusIn(run, "setComplete")
  /\ UNCHANGED <<tableVars, exec, lane, events, ecsVars, unqueued, cleanup,
                 cancelVars>>

EndFailureMap(run) ==
  /\ Running(run) /\ phase[run] \in {"errorCleanupMap", "cancelAll"}
  /\ AllCleaned(run)
  /\ SetStatusIn(run, "setFailed")
  /\ UNCHANGED <<tableVars, exec, lane, events, ecsVars, unqueued, cleanup,
                 cancelVars>>

(***************************************************************************)
(* test-metadata-updater: the scenario, then the run's history item, then  *)
(* the run counter if that item is new.                                    *)
(***************************************************************************)
StatusSetInMisspelt(ph) ==
  CASE ph = "setRunning" -> "running"
    [] ph = "setParsing" -> "parsing_results"
    [] ph \in {"setCleaningUp", "setCleaningUpAfterError"} -> "cleaning up"
    [] ph = "setComplete" -> "complete"
    [] OTHER -> "failed"

StatusSetIn(ph) ==
  CASE ph = "setRunning" -> "running"
    [] ph = "setParsing" -> "parsing results"
    [] ph \in {"setCleaningUp", "setCleaningUpAfterError"} -> "cleaning up"
    [] ph = "setComplete" -> "complete"
    [] OTHER -> "failed"

UpdateScenario(run) ==
  /\ updater[run] = "scenario"
  /\ status' = MetadataWrite(status, StatusSetIn(phase[run]))
  /\ updater' = [updater EXCEPT ![run] = "history"]
  /\ UNCHANGED <<history, totalTestRuns, uncounted, sfnVars, ecsVars, unqueued,
                 cleanup, cancelVars>>

\* Whatever the error, it is logged and the caller goes on: the run is recorded and
\* stays uncounted.
IncrementTestRunCount ==
  \/ totalTestRuns' = totalTestRuns + 1 /\ UNCHANGED uncounted
  \/ "increment" \in Faults /\ uncounted' = uncounted + 1 /\ UNCHANGED totalTestRuns

UpdateHistoryAndCount(run) ==
  /\ updater[run] = "history"
  /\ history' = [history EXCEPT ![run] =
                   MetadataWrite(history[run], StatusSetIn(phase[run]))]
  /\ updater' = [updater EXCEPT ![run] = "count"]
  /\ UNCHANGED <<status, totalTestRuns, uncounted, sfnVars, ecsVars, unqueued,
                 cleanup, cancelVars>>

UpdateHistory(run) ==
  /\ updater[run] = "history"
  /\ history' = [history EXCEPT ![run] =
                   MetadataWrite(history[run], StatusSetIn(phase[run]))]
  /\ updater' = [updater EXCEPT ![run] =
                   IF history[run] = Absent THEN "count" ELSE "returned"]
  /\ UNCHANGED <<status, totalTestRuns, uncounted, sfnVars, ecsVars, unqueued,
                 cleanup, cancelVars>>

CountRun(run) ==
  /\ updater[run] = "count"
  /\ IncrementTestRunCount
  /\ updater' = [updater EXCEPT ![run] = "returned"]
  /\ UNCHANGED <<status, history, sfnVars, ecsVars, unqueued, cleanup, cancelVars>>

UpdaterThrows(run) ==
  /\ "statusWrite" \in Faults
  /\ updater[run] \in {"scenario", "history"}
  /\ updater' = [updater EXCEPT ![run] = "threw"]
  /\ UNCHANGED <<tableVars, sfnVars, ecsVars, unqueued, cleanup, cancelVars>>

\* The state machine goes on when the update returned...
StatusSet(run) ==
  /\ Running(run) /\ updater[run] = "returned"
  /\ updater' = [updater EXCEPT ![run] = "idle"]
  /\ CASE phase[run] = "setRunning" ->
            /\ EnterPhase(run, "execution")
            /\ FanOut(run, "start")
            /\ UNCHANGED <<cleanup, exec, events>>
       [] phase[run] = "setParsing" ->
            /\ EnterPhase(run, "parseResults")
            /\ UNCHANGED <<lane, cleanup, exec, events>>
       [] phase[run] = "setCleaningUp" /\ \A l \in LanesOf(run) : lane[l] = "success" ->
            /\ CleanupInEveryRegion(run, "cleanupMap")
            /\ UNCHANGED <<exec, events>>
       [] phase[run] \in {"setComplete", "setFailed"} ->
            /\ EnterPhase(run, "end")
            /\ EndExecution(run, "SUCCEEDED")
            /\ UNCHANGED <<lane, cleanup>>
       [] OTHER ->
            /\ CleanupInEveryRegion(run, "errorCleanupMap")
            /\ UNCHANGED <<exec, events>>
  /\ UNCHANGED <<tableVars, ecsVars, unqueued, cancelVars>>

\* ... and fails when it threw: these states have no catch.
StatusSetFails(run) ==
  /\ Running(run) /\ updater[run] = "threw"
  /\ EndExecution(run, "FAILED")
  /\ UNCHANGED <<tableVars, phase, lane, ecsVars, unqueued, updater, cleanup,
                 cancelVars>>

-------------------------------------------------------------------------------
(***************************************************************************)
(* test-cleanup j = <<invoker, run, region>>.                              *)
(***************************************************************************)
Step(j, to) == cleanup' = [cleanup EXCEPT ![j] = to]

\* finalStatus of the two asynchronous invokers; the state machine's own
\* invocations carry skipStatusUpdate.
FinalStatus(j) ==
  IF j[1] = "canceler" \/ exec[j[2]] = "ABORTED" THEN "cancelled" ELSE "failed"

ScaleToZeroUnlessDraining(j) ==
  /\ cleanup[j] = "drain"
  /\ IF owner[j[3]] = NoRun \/ desired[j[3]] = "zero"
     THEN Step(j, "record") /\ UNCHANGED desired
     ELSE Step(j, "delete") /\ desired' = [desired EXCEPT ![j[3]] = "zero"]
  /\ UNCHANGED <<tableVars, sfnVars, owner, unqueued, updater, cancelVars>>

ScaleToZero(j) ==
  /\ cleanup[j] = "drain"
  /\ IF owner[j[3]] = NoRun
     THEN Step(j, "record") /\ UNCHANGED desired
     ELSE Step(j, "delete") /\ desired' = [desired EXCEPT ![j[3]] = "zero"]
  /\ UNCHANGED <<tableVars, sfnVars, owner, unqueued, updater, cancelVars>>

\* Whatever service has the name by now is deleted: without force when it has
\* drained, by force after the drain timeout.
DeleteService(j) ==
  /\ cleanup[j] = "delete"
  /\ owner' = [owner EXCEPT ![j[3]] = NoRun]
  /\ Step(j, "record")
  /\ desired' = [desired EXCEPT ![j[3]] = "zero"]
  /\ UNCHANGED <<tableVars, sfnVars, unqueued, updater, cancelVars>>

\* Without force ECS refuses a service whose desired count is not zero.
DeleteServiceRefused(j) ==
  /\ cleanup[j] = "delete"
  /\ owner[j[3]] # NoRun /\ desired[j[3]] = "full"
  /\ Step(j, "failScenario")
  /\ UNCHANGED <<tableVars, sfnVars, ecsVars, unqueued, updater, cancelVars>>

RecordStatusForCanceler(j) ==
  /\ cleanup[j] = "record"
  /\ IF j[1] # "canceler" THEN Step(j, "done") /\ UNCHANGED status
     ELSE Step(j, "history") /\ status' = CleanupWrite(status, FinalStatus(j))
  /\ UNCHANGED <<history, totalTestRuns, uncounted, sfnVars, ecsVars, unqueued,
                 updater, cancelVars>>

\* Task definitions and metric filters gone; then the scenario's status.
RecordStatus(j) ==
  /\ cleanup[j] = "record"
  /\ IF j[1] = "sfn" THEN Step(j, "done") /\ UNCHANGED status
     ELSE Step(j, "history") /\ status' = CleanupWrite(status, FinalStatus(j))
  /\ UNCHANGED <<history, totalTestRuns, uncounted, sfnVars, ecsVars, unqueued,
                 updater, cancelVars>>

RecordHistory(j) ==
  /\ cleanup[j] = "history"
  /\ history' = [history EXCEPT ![j[2]] = CleanupHistoryWrite(@, FinalStatus(j))]
  /\ Step(j, "done")
  /\ UNCHANGED <<status, totalTestRuns, uncounted, sfnVars, ecsVars, unqueued,
                 updater, cancelVars>>

CleanupThrows(j) ==
  /\ "cleanup" \in Faults
  /\ cleanup[j] \in {"drain", "delete", "record", "history"}
  /\ Step(j, "failScenario")
  /\ UNCHANGED <<tableVars, sfnVars, ecsVars, unqueued, updater, cancelVars>>

\* The catch block records "failed" even under skipStatusUpdate.
RecordCleanupFailure(j) ==
  \/ /\ cleanup[j] = "failScenario"
     /\ status' = CleanupWrite(status, "failed")
     /\ Step(j, "failHistory")
     /\ UNCHANGED <<history, totalTestRuns, uncounted, sfnVars, ecsVars,
                    unqueued, updater, cancelVars>>
  \/ /\ cleanup[j] = "failHistory"
     /\ history' = [history EXCEPT ![j[2]] = CleanupHistoryWrite(@, "failed")]
     /\ Step(j, "threw")
     /\ UNCHANGED <<status, totalTestRuns, uncounted, sfnVars, ecsVars,
                    unqueued, updater, cancelVars>>

\* Lambda tries an asynchronous invocation that threw again.
RetryCleanup(j) ==
  /\ cleanup[j] = "threw" /\ j[1] # "sfn"
  /\ Step(j, "drain")
  /\ UNCHANGED <<tableVars, sfnVars, ecsVars, unqueued, updater, cancelVars>>

\* A lane's own cleanup returns.
AfterCleanup(ph) ==
  CASE ph = "stabilization" -> "notReady"
    [] ph = "execution" -> "failed"
    [] OTHER -> "cleaned"

LaneCleaned(l) ==
  /\ lane[l] = "cleaning" /\ Running(l[1]) /\ cleanup[SfnJob(l)] = "done"
  /\ MoveLane(l, AfterCleanup(phase[l[1]]))
  /\ Step(SfnJob(l), "idle")
  /\ UNCHANGED <<tableVars, exec, phase, events, ecsVars, unqueued, updater,
                 cancelVars>>

\* It throws: no catch, so the map and the execution fail.
LaneCleanupFails(l) ==
  /\ lane[l] = "cleaning" /\ Running(l[1]) /\ cleanup[SfnJob(l)] = "threw"
  /\ EndExecution(l[1], "FAILED")
  /\ UNCHANGED <<tableVars, phase, lane, ecsVars, unqueued, updater, cleanup,
                 cancelVars>>

-------------------------------------------------------------------------------
(***************************************************************************)
(* sfn-failure-handler: one test-cleanup per region.  An invocation that   *)
(* fails is logged and forgotten.                                          *)
(***************************************************************************)
HandleAbortOnly(run) ==
  /\ run \in events
  /\ events' = events \ {run}
  /\ InvokeCleanup("handler", run, IF exec[run] = "ABORTED" THEN Regions ELSE {})
  /\ UNCHANGED <<tableVars, exec, phase, lane, ecsVars, unqueued, updater,
                 cancelVars>>

HandleFailure(run) ==
  /\ run \in events
  /\ events' = events \ {run}
  /\ \E regions \in IF "invoke" \in Faults THEN SUBSET Regions ELSE {Regions} :
       InvokeCleanup("handler", run, regions)
  /\ UNCHANGED <<tableVars, exec, phase, lane, ecsVars, unqueued, updater,
                 cancelVars>>

(***************************************************************************)
(* cancelTest, and the task-canceler it invokes.                           *)
(***************************************************************************)
CancelTest ==
  /\ cancels < MaxCancels
  /\ canceler = "idle"
  /\ cancels' = cancels + 1
  /\ status' = "cancelling"
  /\ canceler' = "find"
  /\ target' = NoRun
  /\ UNCHANGED <<history, totalTestRuns, uncounted, sfnVars, ecsVars, unqueued,
                 updater, cleanup>>

FindActiveExecution ==
  /\ canceler = "find"
  /\ \/ \E run \in Runs : /\ Running(run)
                          /\ target' = run
                          /\ canceler' = "stop"
     \/ /\ \A run \in Runs : ~Running(run)
        /\ canceler' = "none"
        /\ UNCHANGED target
  /\ UNCHANGED <<tableVars, sfnVars, ecsVars, unqueued, updater, cleanup, cancels>>

NothingToCancel ==
  /\ canceler = "none"
  /\ status' = NothingToCancelWrite(status)
  /\ canceler' = "idle"
  /\ UNCHANGED <<history, totalTestRuns, uncounted, sfnVars, ecsVars, unqueued,
                 updater, cleanup, target, cancels>>

StopNothing ==
  /\ canceler = "stop"
  /\ canceler' = "cancelling"
  /\ UNCHANGED <<tableVars, sfnVars, ecsVars, unqueued, updater, cleanup, target,
                 cancels>>

\* StopExecution does nothing to an execution that has ended meanwhile.
StopExecution ==
  /\ canceler = "stop"
  /\ canceler' = "cancelling"
  /\ IF Running(target) THEN EndExecution(target, "ABORTED")
                        ELSE UNCHANGED <<exec, events>>
  /\ UNCHANGED <<tableVars, phase, lane, ecsVars, unqueued, updater, cleanup,
                 target, cancels>>

WriteCancelling ==
  /\ canceler = "cancelling"
  /\ status' = "cancelling"
  /\ canceler' = "history"
  /\ UNCHANGED <<history, totalTestRuns, uncounted, sfnVars, ecsVars, unqueued,
                 updater, cleanup, target, cancels>>

PutCancelledRunAlways ==
  /\ canceler = "history"
  /\ history' = [history EXCEPT ![target] = "cancelling"]
  /\ canceler' = "count"
  /\ UNCHANGED <<status, totalTestRuns, uncounted, sfnVars, ecsVars, unqueued,
                 updater, cleanup, target, cancels>>

\* Put, if the run has no history item yet.
PutCancelledRun ==
  /\ canceler = "history"
  /\ IF history[target] = Absent
     THEN /\ history' = [history EXCEPT ![target] = "cancelling"]
          /\ canceler' = "count"
     ELSE canceler' = "invoke" /\ UNCHANGED history
  /\ UNCHANGED <<status, totalTestRuns, uncounted, sfnVars, ecsVars, unqueued,
                 updater, cleanup, target, cancels>>

CountCancelledRun ==
  /\ canceler = "count"
  /\ IncrementTestRunCount
  /\ canceler' = "invoke"
  /\ UNCHANGED <<status, history, sfnVars, ecsVars, unqueued, updater, cleanup,
                 target, cancels>>

InvokeCancelCleanup ==
  /\ canceler = "invoke"
  /\ canceler' = "idle"
  /\ \E regions \in IF "invoke" \in Faults THEN SUBSET Regions ELSE {Regions} :
       InvokeCleanup("canceler", target, regions)
  /\ UNCHANGED <<tableVars, sfnVars, ecsVars, unqueued, updater, target, cancels>>

\* The function throws or is cut off before it reached the history item, before
\* or after it stopped the execution; Lambda runs it again from the start, as one
\* of the MaxCancels invocations.
RetryCanceler ==
  /\ cancels < MaxCancels
  /\ \/ "stopExecution" \in Faults /\ canceler \in {"none", "stop"}
     \/ "cancelling" \in Faults /\ canceler = "cancelling"
  /\ cancels' = cancels + 1
  /\ canceler' = "find"
  /\ target' = NoRun
  /\ UNCHANGED <<tableVars, sfnVars, ecsVars, unqueued, updater, cleanup>>

-------------------------------------------------------------------------------
\* What the functions and the state machine do by themselves...
LaneWork(l) ==
  \/ CheckRunningTests(l)
  \/ CreateService(l) \/ CreateServiceFails(l)
  \/ WriteProvisioning(l) \/ CreateDashboard(l) \/ RunnerWritesFailed(l)
  \/ StabilizationFailed(l)
  \/ SendStart(l) \/ RegionTimedOut(l)
  \/ LaneCleaned(l) \/ LaneCleanupFails(l)

\* ... what goes wrong at times ...
LaneFault(l) ==
  \/ CheckRunningTestsFails(l) \/ RunnerThrows(l) \/ StabilizationThrows(l)
  \/ SendStartFails(l) \/ CheckCompletionFails(l)

\* ... and what takes healthy tasks.
LaneStep(l) ==
  LaneWork(l) \/ LaneFault(l) \/ StabilizationReady(l) \/ RegionComplete(l)

RunStep(run) ==
  \/ RegionalSyncReady(run) \/ RegionalSyncNotReady(run)
  \/ EndExecutionMap(run)
  \/ ParseResults(run) \/ ParseResultsFails(run)
  \/ EndCleanupMap(run) \/ EndFailureMap(run)
  \/ StatusSet(run) \/ StatusSetFails(run)

UpdaterStep(run) ==
  UpdateScenario(run) \/ UpdateHistory(run) \/ CountRun(run) \/ UpdaterThrows(run)

CleanupStep(j) ==
  \/ ScaleToZero(j) \/ DeleteService(j) \/ DeleteServiceRefused(j)
  \/ RecordStatus(j) \/ RecordHistory(j)
  \/ CleanupThrows(j) \/ RecordCleanupFailure(j) \/ RetryCleanup(j)

CancelerStep ==
  \/ FindActiveExecution \/ NothingToCancel \/ StopExecution \/ WriteCancelling
  \/ PutCancelledRun \/ CountCancelledRun \/ InvokeCancelCleanup
  \/ RetryCanceler

Next ==
  \/ \E run \in Runs : \/ StartRun(run) \/ WriteQueued(run) \/ RunStep(run)
                       \/ UpdaterStep(run) \/ HandleFailure(run)
  \/ \E l \in Lanes : LaneStep(l)
  \/ \E j \in Jobs : CleanupStep(j)
  \/ ThresholdBreached
  \/ CancelTest
  \/ CancelerStep

(***************************************************************************)
(* Step Functions and Lambda keep working: every invoked function gets to  *)
(* its next call, the state machine follows every result, the API writes   *)
(* what it set out to write, EventBridge delivers.  Nobody has to start or *)
(* cancel a test, no call has to fail, no threshold has to be breached, no *)
(* service has to become stable and no task has to finish.                 *)
(***************************************************************************)
Fairness ==
  /\ \A run \in Runs : /\ WF_vars(WriteQueued(run))
                       /\ WF_vars(RunStep(run))
                       /\ WF_vars(UpdaterStep(run))
                       /\ WF_vars(HandleFailure(run))
  /\ \A l \in Lanes : WF_vars(LaneWork(l))
  /\ \A j \in Jobs : WF_vars(CleanupStep(j))
  /\ WF_vars(CancelerStep)

Spec == Init /\ [][Next]_vars
FairSpec == Spec /\ Fairness

-------------------------------------------------------------------------------
(***************************************************************************)
(* Safety.                                                                 *)
(***************************************************************************)

\* Once a run's history item says complete, cancelled or failed it says so for
\* ever, whichever of the state machine, the canceler, the failure handler and
\* the retries of their cleanups comes last.
HistoryIsFinal ==
  [][\A run \in Runs : history[run] \in Terminal => history'[run] = history[run]]_vars

\* totalTestRuns counts every history item once, but for the increments that failed:
\* test-metadata-updater and the canceler may both try to create the item, whoever
\* does increments, and nobody increments again for one that got lost.
UpdatersCounting == {run \in Runs : updater[run] = "count"}
RecordedRuns     == {run \in Runs : history[run] # Absent}

RunsCountedOnce ==
  totalTestRuns + uncounted + Cardinality(UpdatersCounting)
    + (IF canceler = "count" THEN 1 ELSE 0) = Cardinality(RecordedRuns)

\* An execution that succeeded, or a run recorded as complete, has left no ECS
\* service behind in any region, whatever failed on the way.
FinishedRunsLeaveNoService ==
  \A run \in Runs : exec[run] = "SUCCEEDED" \/ history[run] = "complete"
                      => \A g \in Regions : owner[g] # run

\* From START to the end of the poll a region works on the service of its own
\* run, at full size: no cleanup of a live execution drains it.
StartedRegionsKeepTheirService ==
  \A l \in Lanes : Running(l[1]) /\ lane[l] \in {"start", "polling", "success"}
                      => owner[l[2]] = l[1] /\ desired[l[2]] = "full"

\* A run recorded as cancelled is one whose execution was stopped (or failed
\* before it could be): it neither runs on nor succeeds.
CancelledRunsDoNotFinish ==
  \A run \in Runs : history[run] = "cancelled" => exec[run] \in {"ABORTED", "FAILED"}

(***************************************************************************)
(* What the proofs of the last properties need to know besides.            *)
(***************************************************************************)
Ended == {"SUCCEEDED", "FAILED", "ABORTED"}

\* An updater is at work or has answered only while the state machine is in the
\* state that invoked it.
UpdaterAwaited ==
  \A run \in Runs : /\ phase[run] \notin SetPhases => updater[run] = "idle"
                    /\ exec[run] = "none" => phase[run] = "idle"

\* When the final update has returned, the history item is final.
FinalUpdateRecorded ==
  \A run \in Runs :
    phase[run] \in {"setComplete", "setFailed"} /\ updater[run] \in {"count", "returned"}
      => history[run] \in Terminal

\* An execution succeeds only after its run was recorded as complete or failed.
SuccessRecorded ==
  \A run \in Runs :
    exec[run] = "SUCCEEDED" => history[run] \in Terminal \ {"cancelled"}

\* The canceler goes on only with an execution that has ended, and a cleanup
\* from outside the state machine works for such an execution.
TargetEnded ==
  /\ canceler = "stop" => exec[target] # "none"
  /\ canceler \in {"cancelling", "history", "count", "invoke"} => exec[target] \in Ended

CleanupsAfterTheEnd ==
  /\ \A run \in events : exec[run] \in {"FAILED", "ABORTED"}
  /\ \A j \in Jobs : cleanup[j] # "idle" =>
       /\ j[1] = "canceler" => exec[j[2]] \in Ended
       /\ j[1] = "handler" => exec[j[2]] \in {"FAILED", "ABORTED"}
       /\ j[1] = "sfn" => cleanup[j] # "history"

\* The inductive invariant behind CancelledRunsDoNotFinish.
OutcomeInvariant ==
  /\ UpdaterAwaited
  /\ FinalUpdateRecorded
  /\ SuccessRecorded
  /\ TargetEnded
  /\ CleanupsAfterTheEnd
  /\ CancelledRunsDoNotFinish

(***************************************************************************)
(* What the proof of FinishedRunsLeaveNoService needs to know besides.     *)
(***************************************************************************)

\* A run that has not begun has not created anything, and the state machine gets
\* to its last update when every region is cleaned.
LanesFollow ==
  \A l \in Lanes :
    /\ phase[l[1]] = "idle" => lane[l] = "idle"
    /\ phase[l[1]] \in {"setComplete", "setFailed", "end"} => lane[l] = "cleaned"

\* A lane has no service before it creates one and once its cleanup has deleted it.
ReleasedLane(l) ==
  \/ lane[l] \in {"idle", "check", "create", "cleaned"}
  \/ lane[l] = "cleaning" /\ cleanup[SfnJob(l)] \in {"record", "done"}

NoServiceLeft == \A l \in Lanes : ReleasedLane(l) => owner[l[2]] # l[1]

\* An execution succeeds in its last state; a run is recorded as complete by its
\* last update, which does not start in an execution that failed.
EndReached ==
  \A run \in Runs :
    /\ exec[run] = "SUCCEEDED" => phase[run] = "end"
    /\ history[run] = "complete" => phase[run] \in {"setComplete", "end"}
    /\ phase[run] = "setComplete" /\ updater[run] \in {"scenario", "history"}
         => exec[run] \in {"RUNNING", "ABORTED"}

ReleaseInvariant == LanesFollow /\ NoServiceLeft /\ EndReached

(***************************************************************************)
(* What the proof of StartedRegionsKeepTheirService needs to know besides. *)
(***************************************************************************)

\* The users' side of it: a cleanup acts on names, so no run may be under way while
\* the cleanup of another one still scales down or deletes.
NoCleanupCrossesARun ==
  \A j \in Jobs, run \in Runs :
    cleanup[j] \in {"drain", "delete"} /\ Running(run) => j[2] = run

\* The state machine's own cleanup of a region works only for an iteration that
\* waits for it, and START is sent when every region is ready.
LanesAwaitCleanups == \A l \in Lanes : cleanup[SfnJob(l)] # "idle" => lane[l] = "cleaning"

StartsWhenReady == \A l \in Lanes : phase[l[1]] = "setRunning" => lane[l] = "ready"

\* From its creation on the service is the iteration's own, at full size.
ServicesHeld ==
  \A l \in Lanes :
    Running(l[1]) /\ lane[l] \in {"provision", "dashboard", "stabilizing", "ready",
                                  "start", "polling", "success"}
      => owner[l[2]] = l[1] /\ desired[l[2]] = "full"

KeepingInvariant == LanesAwaitCleanups /\ StartsWhenReady /\ ServicesHeld

(***************************************************************************)
(* The abstract specification that the executions implement.               *)
(***************************************************************************)
RecordOf(found) ==
  IF found = Absent THEN "absent" ELSE IF found \in Terminal THEN found ELSE "underWay"

Ledger == INSTANCE RunLedger WITH
  record <- [run \in Runs |-> RecordOf(history[run])], total <- totalTestRuns

\* Whatever the state machine, the canceler, the failure handler and the retries
\* of their cleanups do, a reader of the history sees what RunLedger allows: one
\* record a run, one outcome that fits the execution, no run counted unrecorded.
ImplementsRunLedger == Ledger!Spec

\* A run that got past its first update has a history item, so that "complete" is
\* never the first thing recorded of it (for the proof).
BegunRun(run) ==
  \/ phase[run] \in {"execution", "setParsing", "parseResults", "setCleaningUp",
                     "setCleaningUpAfterError", "cleanupMap", "setComplete"}
  \/ phase[run] = "setRunning" /\ updater[run] \in {"count", "returned"}

BegunRunsAreRecorded == \A run \in Runs : BegunRun(run) => history[run] # Absent

(***************************************************************************)
(* Liveness.                                                               *)
(***************************************************************************)

\* Every execution ends.
ExecutionsEnd == \A run \in Runs : Running(run) ~> ~Running(run)

\* Every service is deleted in the end.
ServicesAreReleased == \A g \in Regions : owner[g] # NoRun ~> owner[g] = NoRun

\* Every run gets a final history record.
RunsAreRecorded == \A run \in Runs : Running(run) ~> history[run] \in Terminal

\* Once a run was started the scenario's status ends up terminal and stays so.
StatusSettles == \A run \in Runs : Running(run) ~> [](status \in Terminal)

\* A cancel request is carried out: the scenario does not stay "cancelling".
CancelIsCarriedOut == status = "cancelling" ~> status # "cancelling"
===============================================================================
