--------------------------- MODULE CompletionMonitor ---------------------------
(***************************************************************************)
(* Phase 2 of a run from the inside: the tasks of the ECS services that    *)
(* wait for START, work and write their completion markers, the tasks ECS  *)
(* puts in the place of those that stop, the polls of task-status-checker  *)
(* that count the markers, and task-failure-handler, which counts the      *)
(* tasks that stopped for a reason and fails the scenario when too few are *)
(* healthy.                                                                *)
(*                                                                         *)
(* TestExecution has one step for all of this per region, RegionComplete   *)
(* or RegionTimedOut, and one for the handler, ThresholdBreached.          *)
(***************************************************************************)
EXTENDS Integers, FiniteSets, ScenarioStatus

CONSTANTS
  Regions,          \* the regions of the test
  Places,           \* the places of a region's service, one task in each
  HealthyThreshold, \* per cent of the tasks that have to be healthy
  RoundsBelow,      \* is a share that equals the threshold computed below it?
  MaxStops,         \* bound on the tasks that stop in one place
  MaxSpurious,      \* bound on failure events delivered again or left over
  IdleTasksStop     \* may a task stop after it has written its marker?

ASSUME RegionsAssumption == IsFiniteSet(Regions) /\ Regions # {}
ASSUME PlacesAssumption == IsFiniteSet(Places) /\ Places # {}
ASSUME ThresholdAssumption == HealthyThreshold \in 0 .. 100 /\ RoundsBelow \in BOOLEAN
ASSUME BoundsAssumption == MaxStops \in Nat /\ MaxSpurious \in Nat
ASSUME IdleAssumption == IdleTasksStop \in BOOLEAN

Slots == Regions \X Places
Tasks == Slots \X (0 .. MaxStops)
SlotsOf(g) == {s \in Slots : s[1] = g}

VARIABLES
  status,           \* ScenariosTable: status of the scenario
  taskFailureCount, \* ScenariosTable: taskFailureCount
  signal,           \* S3: the start signal of each region, and its age
  markers,          \* S3: the completion markers, one per task
  task,             \* what the container in each place does
  gen,              \* how many tasks stopped there before it
  failed,           \* tasks that stopped other than gracefully
  undelivered,      \* those whose event has not arrived yet
  spurious,         \* events that were delivered without a failure
  deciding,         \* has a task-failure-handler seen the threshold breached?
  poll,             \* where the poll of each region is
  outcome           \* what the execution map reports

scenarioVars == <<status, taskFailureCount>>
taskVars     == <<markers, task, gen, failed>>
handlerVars  == <<undelivered, spurious, deciding>>
pollVars     == <<signal, poll, outcome>>
vars == <<status, taskFailureCount, signal, markers, task, gen, failed,
          undelivered, spurious, deciding, poll, outcome>>

TypeOK ==
  /\ status \in {"provisioning", "running", "parsing results", "failed"}
  /\ taskFailureCount \in Nat
  /\ signal \in [Regions -> {"none", "fresh", "stale"}]
  /\ markers \subseteq Tasks
  /\ task \in [Slots -> {"starting", "waiting", "loading", "idle", "gone"}]
  /\ gen \in [Slots -> 0 .. MaxStops]
  /\ failed \subseteq Tasks
  /\ undelivered \subseteq failed
  /\ spurious \in 0 .. MaxSpurious
  /\ deciding \in BOOLEAN
  /\ poll \in [Regions -> {"none", "polling", "listing", "success", "failed",
                           "cleaned"}]
  /\ outcome \in {"none", "success", "failed"}

\* Every service was found stable, the scenario's counter has been reset.
Init ==
  /\ status = "provisioning"
  /\ taskFailureCount = 0
  /\ signal = [g \in Regions |-> "none"]
  /\ markers = {}
  /\ task = [s \in Slots |-> "waiting"]
  /\ gen = [s \in Slots |-> 0]
  /\ failed = {}
  /\ undelivered = {}
  /\ spurious = 0
  /\ deciding = FALSE
  /\ poll = [g \in Regions |-> "none"]
  /\ outcome = "none"

-------------------------------------------------------------------------------
(***************************************************************************)
(* The state machine before and after the polls.                           *)
(***************************************************************************)
SetRunning ==
  /\ status = "provisioning"
  /\ status' = MetadataWrite(status, "running")
  /\ UNCHANGED <<taskFailureCount, taskVars, handlerVars, pollVars>>

SendStart(g) ==
  /\ status # "provisioning"
  /\ poll[g] = "none"
  /\ signal' = [signal EXCEPT ![g] = "fresh"]
  /\ poll' = [poll EXCEPT ![g] = "polling"]
  /\ UNCHANGED <<scenarioVars, taskVars, handlerVars, outcome>>

\* A region that failed is cleaned up at once; SIGTERM is a graceful stop.
CleanRegion(g) ==
  /\ poll[g] = "failed"
  /\ poll' = [poll EXCEPT ![g] = "cleaned"]
  /\ task' = [s \in Slots |-> IF s[1] = g THEN "gone" ELSE task[s]]
  /\ UNCHANGED <<scenarioVars, markers, gen, failed, handlerVars, signal, outcome>>

EndExecutionMap ==
  /\ outcome = "none"
  /\ \A g \in Regions : poll[g] \in {"success", "cleaned"}
  /\ outcome' = IF \A g \in Regions : poll[g] = "success" THEN "success" ELSE "failed"
  /\ status' = MetadataWrite(status, "parsing results")
  /\ UNCHANGED <<taskFailureCount, taskVars, handlerVars, signal, poll>>

-------------------------------------------------------------------------------
(***************************************************************************)
(* The container: wait for START, work, write the marker, stay until       *)
(* SIGTERM.  A task that finds an old signal is a replacement: it writes   *)
(* its marker without working.                                             *)
(***************************************************************************)
TaskId(s) == <<s, gen[s]>>

TaskComesUp(s) ==
  /\ task[s] = "starting"
  /\ task' = [task EXCEPT ![s] = "waiting"]
  /\ UNCHANGED <<scenarioVars, markers, gen, failed, handlerVars, pollVars>>

\* A waiting task looks every two seconds: no signal gets old before it.
SignalAges(g) ==
  /\ signal[g] = "fresh"
  /\ \A s \in SlotsOf(g) : task[s] # "waiting"
  /\ signal' = [signal EXCEPT ![g] = "stale"]
  /\ UNCHANGED <<scenarioVars, taskVars, handlerVars, poll, outcome>>

StartLoading(s) ==
  /\ task[s] = "waiting" /\ signal[s[1]] = "fresh"
  /\ task' = [task EXCEPT ![s] = "loading"]
  /\ UNCHANGED <<scenarioVars, markers, gen, failed, handlerVars, pollVars>>

SkipWithoutMarker(s) ==
  /\ task[s] = "waiting" /\ signal[s[1]] = "stale"
  /\ task' = [task EXCEPT ![s] = "idle"]
  /\ UNCHANGED <<scenarioVars, markers, gen, failed, handlerVars, pollVars>>

SkipLoading(s) ==
  /\ task[s] = "waiting" /\ signal[s[1]] = "stale"
  /\ markers' = markers \cup {TaskId(s)}
  /\ task' = [task EXCEPT ![s] = "idle"]
  /\ UNCHANGED <<scenarioVars, gen, failed, handlerVars, pollVars>>

FinishLoading(s) ==
  /\ task[s] = "loading"
  /\ markers' = markers \cup {TaskId(s)}
  /\ task' = [task EXCEPT ![s] = "idle"]
  /\ UNCHANGED <<scenarioVars, gen, failed, handlerVars, pollVars>>

\* The event of a stopped task names the task that stopped.
StopTaskBlamesNext(s, withFailure) ==
  /\ task[s] \in {"starting", "waiting", "loading"} \/ (task[s] = "idle" /\ IdleTasksStop)
  /\ gen[s] < MaxStops
  /\ task' = [task EXCEPT ![s] = "starting"]
  /\ gen' = [gen EXCEPT ![s] = @ + 1]
  /\ IF withFailure
     THEN /\ failed' = failed \cup {TaskId(s)}
          /\ undelivered' = undelivered \cup {<<s, gen'[s]>>}
     ELSE UNCHANGED <<failed, undelivered>>
  /\ UNCHANGED <<scenarioVars, markers, spurious, deciding, pollVars>>

\* ECS puts another task in the place of one that stops.  Exit codes 143
\* (SIGTERM) and 0 are graceful and raise no failure.
StopTask(s, withFailure) ==
  /\ task[s] \in {"starting", "waiting", "loading"} \/ (task[s] = "idle" /\ IdleTasksStop)
  /\ gen[s] < MaxStops
  /\ task' = [task EXCEPT ![s] = "starting"]
  /\ gen' = [gen EXCEPT ![s] = @ + 1]
  /\ IF withFailure
     THEN /\ failed' = failed \cup {TaskId(s)}
          /\ undelivered' = undelivered \cup {TaskId(s)}
     ELSE UNCHANGED <<failed, undelivered>>
  /\ UNCHANGED <<scenarioVars, markers, spurious, deciding, pollVars>>

-------------------------------------------------------------------------------
(***************************************************************************)
(* task-failure-handler: increment and read back, then fail the scenario.  *)
(***************************************************************************)
Desired == Cardinality(Slots)

\* The code divides and multiplies in floating point.  Only one number of failures
\* makes the share equal the threshold; that share comes out as the threshold or
\* just below it (29 of 100 tasks: 28.999999999999996 per cent).
IsThresholdBreached(failures) ==
  \/ (Desired - failures) * 100 < HealthyThreshold * Desired
  \/ (Desired - failures) * 100 = HealthyThreshold * Desired /\ RoundsBelow

IncrementFailureCount ==
  /\ taskFailureCount' = taskFailureCount + 1
  /\ deciding' = \/ deciding
                 \/ status = "running" /\ IsThresholdBreached(taskFailureCount')
  /\ UNCHANGED <<status, taskVars, pollVars>>

\* A handler that throws after it has counted gets its event again.
HandleFailureRetried(t) ==
  /\ t \in undelivered
  /\ undelivered' \in {undelivered, undelivered \ {t}}
  /\ IncrementFailureCount
  /\ UNCHANGED spurious

HandleFailure(t) ==
  /\ t \in undelivered
  /\ undelivered' = undelivered \ {t}
  /\ IncrementFailureCount
  /\ UNCHANGED spurious

\* EventBridge delivers an event twice, or one that the last run left.
HandleSpurious ==
  /\ spurious < MaxSpurious
  /\ spurious' = spurious + 1
  /\ IncrementFailureCount
  /\ UNCHANGED undelivered

MarkFailed ==
  /\ deciding
  /\ deciding' = FALSE
  /\ status' = ThresholdWrite(status)
  /\ UNCHANGED <<taskFailureCount, taskVars, undelivered, spurious, pollVars>>

-------------------------------------------------------------------------------
(***************************************************************************)
(* task-status-checker: read the status, then list the markers.            *)
(***************************************************************************)
MarkersOf(g) == {t \in markers : t[1][1] = g}

ReadStatus(g) ==
  /\ poll[g] = "polling"
  /\ poll' = [poll EXCEPT ![g] = IF status = "running" THEN "listing" ELSE "failed"]
  /\ UNCHANGED <<scenarioVars, taskVars, handlerVars, signal, outcome>>

AllButOneMarker(g) ==
  /\ poll[g] = "listing"
  /\ poll' = [poll EXCEPT ![g] =
                IF Cardinality(MarkersOf(g)) >= Cardinality(Places) - 1
                THEN "success" ELSE "polling"]
  /\ UNCHANGED <<scenarioVars, taskVars, handlerVars, signal, outcome>>

MonitorCompletion(g) ==
  /\ poll[g] = "listing"
  /\ poll' = [poll EXCEPT ![g] =
                IF Cardinality(MarkersOf(g)) >= Cardinality(Places)
                THEN "success" ELSE "polling"]
  /\ UNCHANGED <<scenarioVars, taskVars, handlerVars, signal, outcome>>

\* testDuration and the grace period are over and markers are missing.
DeadlineExceeded(g) ==
  /\ poll[g] = "listing"
  /\ Cardinality(MarkersOf(g)) < Cardinality(Places)
  /\ poll' = [poll EXCEPT ![g] = "failed"]
  /\ UNCHANGED <<scenarioVars, taskVars, handlerVars, signal, outcome>>

-------------------------------------------------------------------------------
TaskWork(s) ==
  TaskComesUp(s) \/ StartLoading(s) \/ SkipLoading(s) \/ FinishLoading(s)

RegionWork(g) ==
  \/ SendStart(g) \/ ReadStatus(g) \/ MonitorCompletion(g) \/ CleanRegion(g)
  \/ SignalAges(g)

HandlerWork == MarkFailed \/ \E t \in Tasks : HandleFailure(t)

Next ==
  \/ SetRunning \/ EndExecutionMap
  \/ \E g \in Regions : RegionWork(g) \/ DeadlineExceeded(g)
  \/ \E s \in Slots : TaskWork(s) \/ \E withFailure \in BOOLEAN : StopTask(s, withFailure)
  \/ HandlerWork \/ HandleSpurious

(***************************************************************************)
(* The deadline is not among the fair actions: the liveness properties say *)
(* what the polls achieve without it, in a test whose tasks finish and     *)
(* whose regions can be polled often enough.                               *)
(***************************************************************************)
Fairness ==
  /\ WF_vars(SetRunning) /\ WF_vars(EndExecutionMap) /\ WF_vars(HandlerWork)
  /\ \A g \in Regions : /\ WF_vars(SendStart(g))
                        /\ WF_vars(ReadStatus(g))
                        /\ WF_vars(MonitorCompletion(g))
                        /\ WF_vars(CleanRegion(g))
                        /\ WF_vars(SignalAges(g))
  /\ \A s \in Slots : WF_vars(TaskWork(s))

Spec == Init /\ [][Next]_vars
FairSpec == Spec /\ Fairness

-------------------------------------------------------------------------------
(***************************************************************************)
(* Safety.                                                                 *)
(***************************************************************************)

\* A region is reported complete only when no task of it works any more: the
\* markers of replacements stand for the tasks they replaced and no others.
\* (Only while idle tasks stay: see completion.ts.)
CompletedRegionsAreQuiet ==
  \A g \in Regions : poll[g] = "success" => \A s \in SlotsOf(g) : task[s] = "idle"

\* The scenario is failed only when that many events arrived: the failures of
\* this run, and those delivered twice or left by another, breach the threshold.
FailedOnlyOnBreach ==
  status = "failed" => IsThresholdBreached(Cardinality(failed) + spurious)

(***************************************************************************)
(* What the proofs of these two need to know besides.                      *)
(***************************************************************************)

\* A place's marker is that of the task in it, which has nothing more to do.
MarkersAreCurrent ==
  \A t \in markers : t[2] = gen[t[1]] /\ task[t[1]] \in {"idle", "gone"}

GoneRegionsAreCleaned ==
  \A s \in Slots : task[s] = "gone" => poll[s[1]] = "cleaned"

\* The inductive invariant behind CompletedRegionsAreQuiet.
QuietInvariant ==
  /\ MarkersAreCurrent
  /\ GoneRegionsAreCleaned
  /\ CompletedRegionsAreQuiet

\* Every failure is of a task that is no more, and is counted once it is delivered.
FailuresAreCounted ==
  /\ \A t \in failed : t[2] < gen[t[1]]
  /\ taskFailureCount = Cardinality(failed \ undelivered) + spurious

\* Whoever is about to fail the scenario, or has, saw a count that breaches.
BreachWasSeen == deciding \/ status = "failed" => IsThresholdBreached(taskFailureCount)

BreachInvariant == FailuresAreCounted /\ BreachWasSeen

(***************************************************************************)
(* Liveness.                                                               *)
(***************************************************************************)

\* Tasks that stop do not keep a region from its end: replacements write the
\* markers that are missing, or the threshold ends the poll.
PollsEnd == \A g \in Regions : poll[g] = "polling" ~> poll[g] \in {"success", "cleaned"}
===============================================================================
