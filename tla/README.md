# Distributed Load Testing on AWS: specifications

TLA+ models of the back end of Distributed Load Testing (DLT): what the API, the
Step Functions state machine, the Lambda functions it calls and the functions
that act on a run from outside do to the shared state in DynamoDB, ECS,
EventBridge Scheduler, the DevOps Agent and Step Functions. TLC checks small
instances, TLAPS proves the properties that matter most for any number of runs,
regions, requests or days.

All paths below are relative to `src/source/` unless they say otherwise.

## 1. The system

| Component | State it keeps | Operations |
|---|---|---|
| State machine (`infrastructure/lib/back-end/step-functions.ts`) | one execution per run: its status, its top-level state, one map iteration per region | stabilise all regions, START, poll, parse results, clean up, set the final status |
| `task-runner` | ECS service `dlt-{testId}-{region}`, task definition, metric filters, dashboard; scenario status `provisioning`, `failed` | create everything a region needs |
| `stabilization-checker` | none | READY / PENDING / FAILED of a service |
| `regional-sync` | none | all regions READY, or not |
| `start-command` | S3 start signal of a region | write it |
| `task-status-checker` | scenario status `failed` (catch block) | running check; completion poll: short circuit, markers, deadline |
| `test-metadata-updater` | status of the scenario and of the run, run counter | status change with both items, count a new run |
| `results-parser` | history item of the run (results); scenario status `failed` | parse, aggregate, store |
| `test-cleanup` | ECS service, metric filters, task definitions, both statuses | drain and delete, record the outcome |
| `task-canceler` | both statuses, run counter, the execution | stop the execution, invoke the cleanups |
| `sfn-failure-handler` | none | one `test-cleanup` per region of an execution that failed, timed out or was aborted |
| `task-failure-handler` | `taskFailureCount`; scenario status `failed` | count stopped tasks, compare with `healthyThreshold` |
| API, scenarios (`api-services/lib/scenarios/index.js`) | ScenariosTable, HistoryTable, S3, two schedules of EventBridge per scenario | create, start, save, schedule, cancel, delete, baselines, delete runs |
| API, investigations (`api-services/lib/investigations/`) | investigation records and the active lock; the agent's backlog tasks and assets | create, cancel, archive |
| Load tester (`src/deployment/ecr/.../load-test.sh`) | S3 completion marker per task | wait for START, run, write the marker |
| `orphan-cleanup` | ECS services | hourly: delete services of scenarios without an execution |
| CLI, web console, MCP server, live data, metrics, custom resources, CDK | none the runs depend on | clients, reporting, deployment |

How they interact. The API starts an execution and afterwards writes the
scenario item. The execution invokes Lambda functions synchronously. It is not
the only writer of anything: nine functions write the scenario's `status`, three
the history item's; some of these writes carry a condition, some do not. The
canceler and the failure handler invoke `test-cleanup` asynchronously, once per
region, and Lambda retries those. Failure events (`FAILED`, `TIMED_OUT`,
`ABORTED`) arrive some time after the fact. The ECS service of a region has one
name for all runs of a scenario.

What is hard.

* Stopping an execution leaves the functions it invoked at work.
* The outcome of a run is recorded by whoever comes first: the updater, the
  cleanups of the canceler, the cleanups of the failure handler, all of them
  once per region and with retries.
* A run's history item is created by the updater or by the canceler, and
  counted by the one that created it, in a second call whose failure is logged and
  forgotten.
* Every call may fail, in one region of several, after part of its effect.
* A scenario may be started again while the cleanups of its last run are at work
  on a service of the same name.
* Progress depends on deadlines, on catch states, on a second layer of cleanup
  for executions that die and on the hourly scan behind both.
* The API locks nothing: each request is a sequence of calls to three tables and
  two services, and any two requests, a schedule that fires and the executions
  may act between them; it may be cut off after any of them.
* The next run of a schedule is computed by cron-parser on one expression, and
  started by EventBridge on another one made from it.
* The one lock there is, that of the investigations, is a DynamoDB item with an
  age: it must survive its holder's slowness and not its holder's death.

What makes each component correct, in short: the state machine ends and leaves no
service behind whatever fails; the updater and the cleanups never replace a
terminal status; the canceler ends with a recorded, counted, cancelled run; the
failure handler makes up for what a dead execution could not do; the status
checker ends every poll; the API leaves scenario, counter and baseline in step.
PROJECT.json lists the hazards line by line with the property that would catch
each.

## 2. Modules

| Module | What it models |
|---|---|
| `ScenarioStatus` | the values of `status` and what each conditional DynamoDB write leaves in the item |
| `TestExecution` | all runs of one scenario: state machine, Lambda functions, ECS services, canceler, failure handlers |
| `RunLedger` | abstract: what a reader of the history may rely on; implemented by `TestExecution` |
| `OrphanCleanup` | `TestExecution` composed with the hourly scan |
| `CompletionMonitor` | phase 2 of one run from the inside: tasks, replacements, markers, polls, failure counter |
| `ScenarioApi` | the API's requests to one scenario, call by call, with its schedules and its runs' updates |
| `TestSchedule` | one scheduled test from its request to its last run, by days and hours |
| `PollInterval` | the poll interval and the history of the loop it paces |
| `InvestigationLock` | the investigations of one test run: creates, closing requests, lock, tasks, assets |
| `MCTestExecution`, `MCOrphanCleanup`, `MCCompletionMonitor`, `MCScenarioApi`, `MCTestSchedule`, `MCInvestigationLock` | symmetry sets, thresholds, requests and assumptions about users for TLC |
| `TestExecutionProofs` | type correctness and finality of the run's record |
| `RunOutcomeProofs` | every run is counted once; cancelled runs never succeed |
| `ServiceReleaseProofs` | finished runs leave no service, started regions keep theirs; the refinement of `RunLedger` |
| `OrphanCleanupProofs` | the scan spares the runs it saw, and every invariant and the refinement hold beside it |
| `CompletionMonitorProofs` | type correctness; complete regions are quiet, scenarios fail only on a breach |
| `ScenarioApiProofs` | type correctness; the baseline is a run; safe statuses, deletions, schedules and the counter |
| `TestScheduleProofs` | the two cron expressions agree; promised runs take place; poll loops fit their history; weekday runs do not overlap |
| `InvestigationLockProofs` | type correctness; one active investigation; nothing is left behind |

### State of `TestExecution`

* `status`, `totalTestRuns`: the scenario item. `history[run]`: the run's status
  in HistoryTable, `absent` before there is an item. `uncounted` is a history
  variable: the increments of `totalTestRuns` that failed.
* `exec[run]`, `phase[run]`, `lane[run, region]`: the execution's status, the
  top-level state it is in and the state of its map iteration for a region. A
  lane also says where inside `task-runner` its function is (`create`,
  `provision`, `dashboard`, `runnerFailed`), because that function outlives a
  stopped execution. `events`: status-change events not yet delivered.
* `owner[region]`, `desired[region]`: the service of the region's name, by the
  run that created it, and whether it is scaled to zero.
* `updater[run]`, `cleanup[invoker, run, region]`, `canceler`/`target`,
  `unqueued`: the functions at work, each as the next call it will make.

One step is one call that leaves a trace: a DynamoDB write, an ECS mutation, a
transition of the execution. Reading and then writing are two steps wherever the
code has a call between them. `ReturnTo` and `CatchWithCleanup` are the only
places that ask whether the execution still runs when a function returns; the
functions themselves do not know.

### Actions and code

* API: `StartRun`, `WriteQueued` (createTest starts the execution first),
  `CancelTest`.
* Phase 1, per region: `CheckRunningTests`, `CreateService`(`Fails`),
  `WriteProvisioning`, `CreateDashboard`, `RunnerThrows`, `RunnerWritesFailed`,
  `StabilizationReady`/`Failed`/`Throws`.
* Regional sync and phase 2: `RegionalSyncReady`/`NotReady`, `SendStart`,
  `RegionComplete`, `RegionTimedOut`, `CheckCompletionFails`, `EndExecutionMap`.
* Results and phase 3: `ParseResults`(`Fails`), `EndCleanupMap`,
  `EndFailureMap`; `StatusSet`/`StatusSetFails` follow every state that invokes
  the updater, whose own steps are `UpdateScenario`, `UpdateHistory`, `CountRun`.
  `CountRun` and `CountCancelledRun` both go through `IncrementTestRunCount`: whatever
  the error (fault `increment`), it is logged and the caller goes on.
* `test-cleanup`: `ScaleToZero`, `DeleteService`(`Refused`), `RecordStatus`,
  `RecordHistory`, `CleanupThrows`, `RecordCleanupFailure`, `RetryCleanup`.
* From outside: `HandleFailure`, `ThresholdBreached`, `FindActiveExecution`,
  `NothingToCancel`, `StopExecution`, `WriteCancelling`, `PutCancelledRun`,
  `CountCancelledRun`, `InvokeCancelCleanup`, `RetryCanceler`.

`CancelTest` is one step, the API's write of "cancelling" and the asynchronous
invocation, and waits until an earlier invocation of the canceler has ended. The API
does not wait; cancels that cross each other are left out (section 6).

Which call may fail is the constant `Faults`, so that a run can name the
failures it is about. Two more constants are assumptions about the environment:

* `StartableStatuses`: the API starts a run whatever the status says. `AnyTime`
  is that; `WhenIdle` is a user of the web console, which offers a start only
  for a scenario that is not under way.
* `QueuedWriteLags`: createTest's write of `queued` may in principle come after
  the first steps of the execution it has started. FALSE assumes it comes before
  the first Lambda function of the execution.

The names ending in a description of a bug (`CleanupInFailedRegions`,
`PutCancelledRunAlways`, `StopNothing`, ...) are mutated forms of the definition
after them. No specification uses them; they exist to show that a property can
fail.

### `RunLedger`

Four things can happen to a run, in the eyes of a reader of ScenariosTable and
HistoryTable: it begins, it is recorded, it is concluded with one outcome that
fits how its execution ends, it is counted. `TestExecution` implements it with the
mapping `record <- RecordOf(history)`, which forgets the statuses between (
`provisioning`, `running`, `cleaning up`, ...), and `total <- totalTestRuns`.
Functions that died, retried, or came second are stutters of the ledger.

### `OrphanCleanup`

EXTENDS `TestExecution` with the scan's own variables. `ListExecutions` reads
which executions run, `ListServices(g)` a region's services, and from then on the
scan acts on names: `ScaleOrphan`, `DeleteOrphan` hit whatever service has the
name by then. `SkipOrphan` and `ScanFails` are the two levels of error handling.
Every step of `TestExecution` may happen between two of the scan's. `known` is a
history variable: the runs that had begun when the executions were listed.

### `CompletionMonitor`

`TestExecution` takes one step, `RegionComplete`, `RegionTimedOut` or
`ThresholdBreached`, for what this module shows in detail. Its state starts where
every service has been found stable:

* `task[region, place]`, `gen`: what the container in each of a service's
  `desiredCount` places does and how many stopped there before it; ECS replaces
  every task that stops.
* `signal[region]`: the S3 start signal, `fresh` for the first 30 seconds and
  `stale` afterwards, which is how a replacement recognises itself. `markers`: the
  completion markers, named by task.
* `failed`, `undelivered`, `spurious`, `taskFailureCount`, `deciding`: the
  failures, those whose event is still to come, the events without a failure of
  this run (delivered twice, or left by an earlier run; STOPPED events carry no
  run), the counter in the scenario item, and whether a `task-failure-handler` is
  between its read-back and its write.
* `poll[region]`: `listing` is the checker between reading the status and
  listing the markers. `outcome`: what the execution map reports.

Actions: `SetRunning`, `SendStart`, `CleanRegion`, `EndExecutionMap` (state
machine); `TaskComesUp`, `StartLoading`, `SkipLoading`, `FinishLoading`,
`StopTask`, `SignalAges` (`load-test.sh`); `HandleFailure`, `HandleSpurious`,
`MarkFailed` (handler); `ReadStatus`, `MonitorCompletion`, `DeadlineExceeded`
(checker). A stop is graceful (exit codes 0 and 143) or raises a failure event, and may come at
any time: while the container still starts (`load-test.sh` may exit before it waits for
START), while it waits, while it loads.
Calls of the checker and of `start-command` do not fail here; they do in
`TestExecution`.

* `IdleTasksStop` says whether a task may stop after it has written its marker
  (a retired Fargate task, a host failure). The code's count is right only while
  that does not happen, see section 5.
* `RoundsBelow` says whether the one share of healthy tasks that equals the
  threshold is computed below it: `isThresholdBreached` divides and multiplies
  in floating point, and 29 of 100 comes out as 28.999999999999996 per cent.
* `SignalAges` assumes that a task waiting when START is written looks at it
  within 30 seconds (it looks every two seconds).

### `ScenarioApi`

State: the scenario item (`exists`, `status`, `baseline`, `counter`), `drift`, a history
variable that adds up the changes of `counter` that failed (`AddToCounter` logs the error
and its caller goes on; `Drifts` bounds the sum for TLC), the runs
with a history item, the two schedules, whether the cron expiry date has passed,
each run's execution reduced to the updater's three writes, and for each request
in flight its operation, its next call and what it has read. A request reads in
one step and writes in a later one, exactly as the code does; a loop of calls
over the runs of a request is one step.

Actions: `AskFor` (a user), `CreateFires` and `ScheduledFires` (EventBridge);
`DropCreate`, `DropScheduled`, `PutSchedule` (deleteSchedules, scheduleTest);
`StartExpired`, `Incompatible`, `PutFailedRun`, `CountFailedRun`, `StartExecution`,
`ReadForSave`, `UpdateTestDBEntry` (createTest); `ReadForDelete`, `DeleteItem`,
`QueryHistory`, `DeleteHistory` (deleteTest); `ReadForDeleteRuns`,
`ReadExistingRuns`, `DecrementCounter`; `ReadForBaseline`, `ReadBaselineRun`,
`SetBaseline`, `ReadForClear`, `ClearBaseline`; `UpdaterReads`, `UpdateScenario`,
`UpdateHistory`, `CountRun`, `FailEarly` (the executions); `CutOff`.

Because the API locks nothing, most of its properties hold only while certain
requests do not cross. Which ones is three constants: `Apart` (pairs of operations
never in flight together), `IdleOnly` (operations nobody asks for while a run is
under way) and `BetweenUpdates` (operations that no update of a run crosses). The
values of the run `scenarios`, `UsersKeepApart`, `StatusOps` and `{"delete"}`, are
minimal: each entry was left out in turn, and TLC found a property violated.

| Left out | What breaks |
|---|---|
| delete × save, delete × start | `StaysDeleted`: the later write creates the item anew |
| delete × schedule, delete × scheduleStart | `DeletedScenariosLeaveNothing`, `StaysDeleted`: a schedule survives its scenario |
| delete × setBaseline, delete × clearBaseline | `CounterInStep`: the update creates an item without a counter |
| start × start, start × schedule, start × scheduleStart | `SafeStatusMeansNoRun` |
| start × save | `SafeStatusMeansNoRun`: the old status is written back over a run |
| deleteRuns × deleteRuns | `CounterInStep`: one run is subtracted twice |
| deleteRuns × setBaseline | `BaselineIsARun`: the baseline is a deleted run |
| `BetweenUpdates` = {delete} | `DeletedScenariosLeaveNothing`: the updater recreates the item |
| any of `IdleOnly` | `SafeStatusMeansNoRun`: a status written over a run under way |

The last two rows are no rules that users could keep alone: `IdleOnly` also holds back
EventBridge's firings, and `BetweenUpdates` the updater. They state when the properties
hold, and the code sees to neither.

So everything else may cross: a save with a deletion of runs, a baseline with a
start or a schedule, a deletion of runs with a run being recorded and counted.

### `TestSchedule` and `PollInterval`

Time is counted in days, over the months of `MonthLengths`, starting on any
weekday, and each day has the hours at which the schedule runs. A request is a
recurrence with its first date, or the two day fields of a Linux cron expression with
its `hours` and an expiry date. Both readers read hours and minutes alike and months
are copied as they are, so only the day fields are converted; the minute is a single
value. `madeAt` is the hour of the request, and `noRampUp` says that ramp-up or
hold-for is missing or the number 0, in which case `checkEnoughIntervalDiff` returns
at once (`index.js:482`). `since` is the hour of the last run, counted from day 1.

`Create` is scheduleTest's step "create" (interval check, next run, one-time schedule),
`Start` its step "start" when the one-time schedule fires, `Fire` is createTest
called by the recurring schedule at the next of the day's hours, `NextDay` passes the
night and EventBridge is punctual. `CronDays` is what cron-parser makes of the user's
expression, `GetSchedule` and `AwsFires` what EventBridge makes of the expression the
API has written: two definitions of the days of a schedule that must agree. The requests of
which they do are `WellFormedRequest`: at most one day field is restricted, neither is
"?" or "wL", a cron expression has an expiry date, a monthly test runs on a day that
every month has. All requests of `MCTestSchedule` that the run `schedules` uses are of
this kind; section 5 says what becomes of the others.

### `InvestigationLock`

`lock` is the lock item, identified by the create that put it (its `createdAt`),
`lockAge` its age. `create[c]` is the next call of a create request, `age[c]` how
long it has been running (less than `LambdaTimeout` ticks), `seen[c]` the stale lock
it read, `undo[c]` what a catch block has still to undo, in any order. `closer`
and `target` are cancel and archive requests. `record`, `task`, `asset` are what a
create makes. `StaleAfter >= 2 * LambdaTimeout` is the comment at
`index.js:41-48`; `ClosersWait` says that closing requests and creates take turns.
Actions have the names of the code's functions and steps; `UndoFails`,
`CreateCutOff`, `CloserCallFails` and `CloserCutOff` are the lost work that the code
swallows or cannot see.

## 3. What is checked

| Run | Instance | Shows |
|---|---|---|
| `regions` | 1 run, 2 regions, every fault but the canceler's | `TypeOK`; `FinishedRunsLeaveNoService`: a succeeded execution, or a run recorded complete, has no service in any region; `StartedRegionsKeepTheirService`: no cleanup of a live execution drains a started region |
| `overlap` | 2 runs, 1 region, started at any time, 1 cancel, no other faults | `FinishedRunsLeaveNoService`, `CancelledRunsDoNotFinish`, `HistoryIsFinal` when the runs share a service name and the canceler, the updaters and the failure handler race; `ImplementsRunLedger` |
| `progress` | 1 run, 2 regions, every fault inside the execution, fairness | `ExecutionsEnd`, `ServicesAreReleased`, `StatusSettles` |
| `cancel_progress` | 1 run, 1 region, 2 invocations of the canceler, `queued` as late as it likes, increments that fail, fairness | `RunsCountedOnce`: updater and canceler count a run once, or miss it with an error in the log; `RunsAreRecorded`, `CancelIsCarriedOut` |
| `orphans` | 1 run, 1 region, 1 cancel, lost invocations, failing status writes and a throwing `task-runner`, the scan at any time, fairness | `ScanTypeOK`; `ScanSparesTheRunsItSaw`; `FinishedRunsLeaveNoService`; `ServicesAreReleased` also when every other layer has failed |
| `completion` | 1 region of 2 tasks, each place replaced twice, threshold 1 of 2, 1 spurious event, fairness | `TypeOK`; `CompletedRegionsAreQuiet`: a region is reported complete only when all its tasks are idle; `FailedOnlyOnBreach`; `PollsEnd`: tasks that stop do not keep a poll from its end, even without the deadline |
| `scenarios` | 2 requests in flight, 2 runs, 1 of them cut off or failing early, failed updates of the counter that add up to 0 or 1 | `TypeOK`; `BaselineIsARun`; `CounterInStep`; `SafeStatusMeansNoRun`; `DeletedScenariosLeaveNothing`; `StaysDeleted`; `ScheduledMeansASchedule` |
| `investigations` | 3 creates, 1 closing request, 1 failing call, 1 lost work, timeout 2 ticks, stale after 4, fairness | `TypeOK`; `AtMostOneActive`; `InFlightCreateKeepsItsLock`; `NothingIsLeftBehind`; `ArchivedTasksHaveEnded`; `InvestigationsResume` |
| `schedules` | December to March, 7 first weekdays, 84 requests at one or several hours a day | `TypeOK`; `NoPromiseIsMissed`; `FiringsArePromised`; `RunsDoNotOverlap`: if the dates of a schedule of weekdays were compared, no run starts before the last one can have ended; `PollsFitTheHistory` |
| `two_active` | 3 creates, 1 closing request that crosses them | violation, see section 5 |
| `deleted_runs` | batch deletes may leave items unprocessed | violation, see section 5 |
| `lost_schedule` | expressions with "?" | violation, see section 5 |

**Bounds.** Two regions are the smallest number in which one can fail while the
other succeeds, and in which the maps have to wait; regions do not interact
otherwise, so a third repeats the second. Two runs are what it takes for one
run's cleanup to meet the other's service. One cancel races with everything; the
second invocation of the canceler in `cancel_progress` meets the leftovers of the
first (nothing to cancel any more, cleanups still at work), or is Lambda's retry of
a first one that threw. `totalTestRuns` is bounded by the number of
runs. The scan of `orphans` acts on each region by itself and meets one run at a
time, so one of each.

`MaxStops` bounds the replacements of one place and `MaxSpurious` the spurious
events of `completion`: with two places, a replacement and an original can be counted
side by side, a second stop is that of a replacement, and with a threshold of 50 per
cent one failure of two leaves the share of healthy tasks exactly at the threshold,
where nothing is breached, and two are a breach.

Two requests in `scenarios` make every pair of operations cross, with runs that
EventBridge and the executions move on meanwhile, and two runs let a deletion and a
baseline mean different ones; one loss cuts off any of them anywhere.
`Drifts = {0, 1}` lets an increment be lost, and the decrement that would make up for it
as well; in `cancel_progress` any increment may be lost. Three
creates in `investigations` are one that left a lock behind, one that reclaims it
and one that comes in between; a timeout of two ticks lets a create go on after a
tick, and four is the code's ratio of staleness to it.

`schedules` starts in December and ends in March, on each of the seven weekdays:
months of 31 and of 28 days, a change of year, all weeks. The expiry date is in
either year, the tests take a minute, three hours or 46 hours, the day fields are those
with one day, a list, a range, an occurrence in the month (`Nth`) and the last weekday
of a range. The hours are one a day, {0, 12} or {6, 9, 23}, the request is made before,
between or after them. Six and nine o'clock are too close for a test of three hours,
which is refused, and for one of 46 hours, which is accepted because it has no ramp-up.

Deadlock is looked for in `investigations`, `orphans` and `two_active`, where something can
always happen (time passes, the next scan begins). Elsewhere the system may really
stop: every run has ended, no request is left, the calendar is over.

**Abstractions.** Polling without a result (PENDING, markers missing) is a
stutter. The 30 minute stabilisation limit, the circuit breaker, and the
`testDuration + 300 s` deadline are choices that may be taken at any time: these
models have no clock, so each safety property also holds for deadlines that fire
too early. The drain of a service and its waiting are one pair of steps (scale,
delete), and another actor may act between them. S3, metrics and logs leave no
trace the properties see. A loop of calls over the runs of one request is one step
of `ScenarioApi`. `TestSchedule` counts days and their hours: the time zone of a
schedule and a change to summer time are left out, and lists of minutes.
`CompletionMonitor` and `TestExecution` take the writes of one DynamoDB call as one step:
a call that takes effect although it reports an error is left out (section 7).

**Fairness.** Weak fairness of each function's next call, of each state of the
execution, of event delivery and of the API's write. That is what Lambda and
Step Functions do: an invoked function runs to its end or times out, which
is a throw of the model. It is stated per process, so one process cannot starve
another. There is none for `StabilizationReady`, `RegionComplete`,
`ThresholdBreached`, `StartRun` and `CancelTest`: no service has to become
stable and no task has to finish.

`progress` has no fault `cleanup` and `invoke`: a cleanup that throws for ever is
retried twice by Lambda and then dropped, and a lost invocation is dropped at once.
Then the service waits for `orphan-cleanup`, which is the run `orphans`; the scenario
keeps the status it has, for nothing in the code sets it later.
The scan of `orphans` is weakly fair, since EventBridge invokes it every
hour (`infrastructure/lib/back-end/test-task-lambdas.ts:1079-1083`). Its calls may fail in any
scan; strong fairness for each says that a call that is made again and again, hour
after hour, succeeds some time.

`PollsEnd` assumes more: that tasks finish and replacements come up. It leaves out
the deadline instead, so it says what the replacement markers are for. A task
that stops is not fair: it need not stop.

`InvestigationsResume` assumes that an invoked create or closing request takes its
next call (or times out), that time passes, and that somebody keeps asking for an
investigation. No investigation has to be closed and no agent has to end its task:
only a lock that nobody holds has to go.

## 4. What is proved

For all finite non-empty sets of runs and regions, all `Faults`, all bounds
(the named assumptions of `TestExecution`):

* `TypeCorrect == Spec => []TypeOK`.
* `FinalHistory == Spec => HistoryIsFinal`. Only three actions write `history` with a
  value that may be terminal, each through a guarded write; `HistoryWriters`
  isolates them and `WritesKeepTerminal` is the fact about the guards. The put of
  the canceler is guarded by the item's absence.
* `EveryRunCountedOnce == Spec => []RunsCountedOnce`: counter, increments under way and
  increments that failed are as many as the recorded runs. A failed increment is never
  made up for, so that is all the code promises: a run is missed only with an error in
  the log, and none is counted twice. The sum is not inductive by itself: one needs to know that an updater is idle whenever the state machine is
  not waiting for it (`UpdaterAwaited`), else a second invocation could
  overwrite a count that is still to come. The cardinality argument is in
  `LedgerFrame` and `CountStep`.
* `CancelledRunsStayStopped == Spec => []CancelledRunsDoNotFinish`, from the
  inductive invariant `OutcomeInvariant`. That a cancelled run cannot have
  succeeded needs to know: that an execution succeeds only after its final update
  has returned, and then the history item is terminal already
  (`FinalUpdateRecorded`, `SuccessRecorded`); that the canceler goes beyond
  StopExecution only when its target has ended (`TargetEnded`); and that cleanups
  from outside work only for ended executions, those of the failure handler
  only for failed or aborted ones (`CleanupsAfterTheEnd`). Hence when a late
  canceler hits a succeeded execution, its cleanups find a terminal record and
  leave it.
* `SuccessIsRecorded == Spec => []SuccessRecorded`, a conjunct of the same
  invariant.
* `FinishedRunsReleaseTheirServices == Spec => []FinishedRunsLeaveNoService`, from
  `ReleaseInvariant`: the map iterations follow the top level (`LanesFollow`), an
  iteration that has not created its service yet or has cleaned it up has none
  (`NoServiceLeft`; another run's service of the same name is not its own), and the
  last update is the only way to succeed or to be recorded as complete
  (`EndReached`). Most of the proof is `NoServiceLeft` across the cleanups of the
  state machine, of the canceler and of the failure handler.
* `StartedRegionsAreSpared`: `[]StartedRegionsKeepTheirService` for behaviours in
  which no cleanup of one run scales down or deletes while another run is under way
  (`[]NoCleanupCrossesARun`). The code does not see to that: services have one name
  for all runs of a scenario, and a user who starts a run into the cleanup of the last
  one loses the new service to it. With one run the assumption always holds, so the
  theorem then says that no cleanup of the execution itself, of the canceler or of the
  failure handler drains a region the execution still counts on.
  `KeepingInvariant` says that the state machine's cleanup of a region works only for
  the iteration that waits for it (`LanesAwaitCleanups`), that START is sent to regions
  that are ready (`StartsWhenReady`) and that a ready region has its service in full
  (`ServicesHeld`).
* `ExecutionsImplementTheLedger == Spec => ImplementsRunLedger`, the refinement: the
  initial state maps to the ledger's, and under the invariants above and
  `BegunRunsAreRecorded` every step maps to a step of `RunLedger` or to a stutter.

For the same with the scan of `OrphanCleanup` at any time (`ScanSpec`):

* `ScanTypeCorrect`, and `ScanSparesRuns == ScanSpec => []ScanSparesTheRunsItSaw`.
  `ScanInvariant`: a scan that is over has forgotten its orphans, a service becomes an
  orphan only when no execution was listed, and a run that had begun by then and still
  runs was listed. A run never runs again after it stopped, so an orphan of a known
  run remains one.
* `FinishedRunsReleaseUnderScan`, `CancelledRunsStayStoppedUnderScan`,
  `RunsCountedOnceUnderScan`: the invariants of `TestExecution` survive the scan. It
  takes services away and never gives one, and writes no item.
* `ScannedExecutionsImplementTheLedger == ScanSpec => ImplementsRunLedger`: the
  composition implements `RunLedger` too. The step lemma of the refinement
  (`StepRefines`) is used as it is; the scan's own steps are stutters.

For all finite non-empty sets of regions and places, thresholds, `MaxStops`,
`MaxSpurious` and `RoundsBelow` (the named assumptions of `CompletionMonitor`):

* `MonitorTypeCorrect == Spec => []TypeOK`.
* `CompletionIsQuiet == ~IdleTasksStop => (Spec => []CompletedRegionsAreQuiet)`.
  The inductive invariant `QuietInvariant` adds that each marker is the marker of
  the task now in its place, so that a place has at most one. As many markers as
  places then means one in every place: `OneMarkerPerPlace`, an injection from
  the markers into the places. The assumption is needed, see section 5.
* `FailureNeedsBreach == Spec => []FailedOnlyOnBreach`. `BreachInvariant` adds that
  the counter is exactly the failures delivered plus the spurious events, and that
  whoever decided saw a count that breaches; more failures breach what fewer did
  (`BreachIsMonotone`).

For any finite sets of requests and runs (`ScenarioApi`):

* `ApiTypeCorrect == Spec => []TypeOK`.
* `BaselinesAreRuns`: `[]BaselineIsARun`, provided that setBaseline crosses neither
  deletion, `{"setBaseline", "deleteRuns"}` and `{"setBaseline", "delete"}` in `Apart`.
  Nothing else has to be kept apart for it. The invariant says that requests kept
  apart are (`RequestsApart`) and what each request has in hand at its next call
  (`HoldsItsRuns`): a run about to become the baseline is still recorded, the runs
  about to be deleted do not contain the baseline.

* Four more assume what users have to see to, the table in section 2
  (`DeletionAssumption`: `UsersKeepApart` are kept apart, `StatusOps` asked for only while
  no run is under way, no update crosses a deletion). These are the values of the run
  `scenarios`, and without any of them TLC finds one of the properties violated:
  * `SafeStatusCanBeTrusted == Spec => []SafeStatusMeansNoRun`
  * `DeletionIsForGood == Spec => StaysDeleted`
  * `DeletionLeavesNothing == Spec => []DeletedScenariosLeaveNothing`, if batch deletes
    leave nothing unprocessed (the run `deleted_runs` is why)
  * `CounterStaysInStep == Spec => []CounterInStep`, with the same addition: `counter` and
    `drift`, with the changes under way, are as many as the history items

  The first three follow from `DeletionInvariant`: requests make their calls in order
  (`CallsInOrder`), at most one run is under way and none while another is asked for
  (`OneRunAtATime`), a deletion has taken the schedules before it takes the item and
  then has nothing but deletions beside it (`DeletionsPrepared`), what it has in hand
  covers the history (`HistoryInHand`), and unless something was lost the status
  tells of every run whose update is to come (`StatusTellsOfRuns`). `CounterInvariant`
  adds that runs recorded as incompatible are new and that the runs about to be
  deleted still have their items; the rest is cardinalities, one lemma for each way
  in which the history and the changes to come move together.
* `ScheduledScenariosHaveSchedules == Spec => []ScheduledMeansASchedule` needs only that
  `UsersKeepApart` are kept apart. By `ScheduleInvariant` a status "scheduled" has, at
  each moment, a schedule, an expiry date that has passed, or a request that is about to
  make the schedule or to delete the scenario.

`losses = 0` in the properties themselves excludes requests that were cut off and
executions that failed before their first update.

For any number of creates and closing requests, `StaleAfter >= 2 * LambdaTimeout`
(`InvestigationLock`):

* `LockTypeCorrect == Spec => []TypeOK`.
* `OneInvestigationActive` and `CreatesKeepTheirLock`, `[]AtMostOneActive` and
  `[]InFlightCreateKeepsItsLock`, provided that closing requests and creates take
  turns (`ClosersWait`). `GateHolds` proves the inductive `GateInvariant`, whose
  core is about time: a lock is no older than its live holder
  (`HeldLocksAreFresh`), a lock about to be reclaimed is stale
  (`ReclaimedLocksAreStale`), so it is not a live holder's; and while a record is
  active or a create is past its gate no second create passes (`GateIsShut`).
  Without `ClosersWait` it is false: run `two_active`.

* `ArchivedInvestigationsAreOver == Spec => []ArchivedTasksHaveEnded` and
  `NothingLeftBehind == Spec => []NothingIsLeftBehind`, both without `ClosersWait`. The
  first from `ArchivingInvariant`: a record comes after its task, and every path that
  archives ends the task first. The second from `LeftoverInvariant`: what a create has
  not reached yet it has not made (`MadeInOrder`), and if nothing was lost the undo of a
  failed create and the calls a closing request still makes cover all that there is
  (`UndoCovers`, `ClosersCover`).

For schedules and polls:

* `ExpressionsAgree`: on every day of every calendar the expression given to
  EventBridge and the user's match alike, if at most one day field is restricted
  and neither is "?".
* `IntervalIsClamped`, and `PollLoopsFitTheHistory`: a test of up to 166 199 seconds
  (46 h 9 min) never exhausts the history of its poll loop; `EventsAround` is for the
  states before and after the loop. The loop of a longer one does; the API allows tests of more than that.
* `SchedulesFitTheHistory == Spec => []PollsFitTheHistory`, if all requests are that
  short (`TestsAreShort`).
* For every calendar and every set of well-formed requests (`RequestsAreWellFormed`):
  `ScheduleTypeCorrect`, `PromisesAreKept == Spec => []NoPromiseIsMissed`,
  `RunsAreAnnounced == Spec => FiringsArePromised` and
  `WellFormedSchedulesStart == Spec => []AcceptedSchedulesStart` (which the run
  `lost_schedule` finds violated for "?"). All from `PromiseInvariant`: a pending
  schedule shows a date of its request; an installed one is what the request asks for
  (`MadeFrom`), and the date shown is today if it has still to fire today, and otherwise
  the next day on which it fires (`FiresNext`). The cron case is
  `CronNextDayIsNext`, `CronFiresOnItsDays` and `ExpressionsAgree`; the monthly case
  is arithmetic on the calendar (`SameDayNextMonth`: `setMonth` finds the same day
  of the next month, if there is one).
* `WeekdayRunsDoNotOverlap == Spec => RunsDoNotOverlap`, for every set of well-formed
  requests, at one hour or several hours a day. The property is about the schedules of
  which ten dates cover a week (`WeekIsCompared`): the interval check was not skipped,
  the days are weekdays or all days, and a week has at most nine dates.
  `checkEnoughIntervalDiff` compares ten dates from the request on; they contain nine
  consecutive gaps, the gaps between dates of a week come again a week later, so the
  ten stand for all (`FirstWeekIsCompared`, `AllDatesAreFarApart`, and
  `IntervalInvariant` for the runs). It is not true of schedules with more dates a
  week, of lists of days of the month, or when the check is skipped, see section 5.

The least date of a set, the last month that has begun and the table `FirstDay` need
induction over the natural numbers. They get it from `LeastElement`, that a non-empty
set of naturals has a least element, which follows from the well-foundedness of strict
inclusion of finite sets and needs no induction theorem with an operator parameter.

The hypotheses named above are satisfied by the run that checks the property, and
each is either checked there as part of the instance (`Apart`, `IdleOnly`, `ClosersWait`,
the requests) or, for `NoCleanupCrossesARun`, true of its single run.

Only model-checked are the liveness properties: `ExecutionsEnd`, `ServicesAreReleased`,
`StatusSettles`, `RunsAreRecorded`, `CancelIsCarriedOut`, `PollsEnd`, `InvestigationsResume`
(TLAPS has no rule for ENABLED here).
Every other invariant and action property of the passing runs has a theorem. The
inductive invariants were checked with TLC as well.

## 5. Where code and comments disagree

Three runs find the code against its own words:

* `two_active`: `releaseActiveLock` (`api-services/lib/investigations/index.js:296`) deletes
  the lock item without a condition. A request that archives or cancels an old
  investigation, and is between its record and its release while a create passes the
  gate, deletes the create's lock; the next create passes as well and both write
  an active record. Lines 395-396 call the lock "the atomic gate that prevents two
  concurrent creates from both producing an active investigation".
* `deleted_runs`: the retry of unprocessed items
  (`api-services/lib/scenarios/index.js:1666`) is not awaited and wraps the response's map into
  an array that is no list of write requests. The items stay while the counter is
  decremented for them. Line 1651: "If there are some unprocessed items, calls itself
  to run again".
* `lost_schedule`: an expression with "?" as day of month and restricted weekdays
  passes validation (`common/test/cron.test.ts:26-28`) and becomes "?" in both day
  fields. EventBridge refuses it, but only when the one-time schedule
  fires; then there is no schedule although the scenario shows a next run.
  Line 643: "Verify that the cron expression is acceptable before we move on."

More about executions, seen while modelling; each is a
behaviour of the models, and the properties checked are those it leaves true:

* `task-canceler/src/index.ts:139-140` says that stopping the execution keeps
  "cancelled" from being overwritten with "failed". A `task-runner` that is
  already invoked goes on; if one of its calls throws, its catch block
  (`task-runner/src/index.ts:225`) writes "failed" without a condition.
* `step-functions.ts:592-594` calls the last state the single point where a
  terminal status is set. The catch blocks of `task-runner`,
  `task-status-checker` and `results-parser` set "failed" before the execution
  cleans up, so a polling client sees a finished test and may start the next run
  into the old one's cleanup.
* `running-check.ts:11-14` says the running check lets the state machine skip
  service creation when the user has cancelled. The choice after it
  (`step-functions.ts:188-190`) skips only when the scenario is running.
* `completion.ts:36-37` says the poll tells whether all tasks have finished. It
  counts markers, and a replacement writes one too (`load-test.sh:522`), also
  when the task it replaces had finished: two markers for one share of the work
  complete a region in which another task still works. Hence `IdleTasksStop`.
* `task-failure-handler/src/index.ts:53` says the polling loops see a breach and
  clean up. A breach after the last poll is seen by none: the scenario says
  failed, the run is recorded as complete.
* A cleanup of the state machine that throws in one region fails the execution while
  a `task-runner` of another region is still at work; its `provisioning` then is the
  status the scenario keeps. `StatusSettles` fails when `cleanup` is among the faults.

* A `task-canceler` that throws after it stopped the execution and before it put the
  history item (`task-canceler/src/index.ts:218-249`) is run again by Lambda, finds no active
  execution and only replaces "cancelling". The run then has no record, or one that
  an updater still at work puts afterwards and that says "running" for ever:
  `RunsAreRecorded` fails when `cancelling` is among the faults. A throw before the
  stop (`stopExecution`) does no harm, which `cancel_progress` shows. A put that
  fails is logged and forgotten with the same result, and is left out.

* `incrementTestRunCount` and `decrementTestRunCount` log every error and return
  (`common/src/scenario-counter.ts:23-25`), and no caller can tell. A run whose increment
  fails is recorded and never counted, since a second invocation finds the item and does
  not count again; deleted runs whose decrement fails stay counted. `uncounted` and
  `drift` are what the counter is off by from then on, and `RunsCountedOnce` and
  `CounterInStep` say that nothing else puts it out of step.

The unconditional writes contradict the comments that call terminal states
immutable (`test-metadata-updater/src/index.ts:95`,
`test-cleanup/src/index.ts:170`); of the run's history item the claim is true and
proved (`FinalHistory`), of the scenario item it is not.

And about schedules, each found by adding the request to the instance:

* Both day fields restricted ("1" and "3"): cron-parser fires on either, the AWS
  expression keeps one. Runs the scenario shows do not come (`NoPromiseIsMissed`).
* "2L", the last Tuesday, is not shifted to EventBridge's weekday numbers and is the
  last Monday there.
* "*" and "?" become "?" in both fields.
* Without an expiry date the year field is that of the creation, and the schedule
  ends at New Year without a word.
* A monthly recurrence from the 31st shows its next run by `setMonth`, which
  overflows into the month after the next.
* `checkEnoughIntervalDiff` compares nothing when ramp-up or hold-for is missing or the
  number 0 (`index.js:482`; the schema makes ramp-up optional and accepts 0,
  `validation/schemas.ts:158-170` and 303). A schedule is then accepted however
  close its runs are, and these runs share their services' names.
* Otherwise it compares the first ten dates. On the weekdays 0, 2, 4 and 6 at 0, 12 and
  23 h, a request made on Saturday at 23 h has the ten dates from Sunday to the next
  Saturday at 0 h; the hour from that Saturday's 23 h to Sunday's 0 h is not among their
  gaps, and tests of three hours overlap every week. With `*/3` as day of month and a
  test of 46 hours, the step from the 31st to the 1st may come after the ten.
* A test of 24 h ramp-up and 24 h hold-for is accepted and exhausts the history of
  its poll loop (`PollsFitTheHistory`).
* The schema accepts durations that `getTestDurationSeconds` throws on (units other
  than s and m, plain numbers).

## 6. What is not modelled, and why

* Requests that only read (scenarios, runs, baseline, regions, stack information,
  status and findings of an investigation), agent spaces (single writes that
  nothing else reads again), validation and routing of requests.
* `results-parser`'s aggregation, metrics, logs, live data: computations and output
  that no state of a run depends on.
* Clients (CLI, web console, MCP server): what they let a user do is the API's
  actions and the constants `StartableStatuses`, `Apart`, `IdleOnly`, `ClosersWait`.
* CDK stacks and custom resources: declarations. What they decide (event rules,
  retries, the hour of the scan, timeouts, the state machine) is in the actions and
  the fairness above.
* Clocks, apart from the investigations' ages and the schedules' days and hours. Deadlines are
  choices; the age of the start signal has two values. Time zones and summer time.
* Cancels of one scenario that cross each other: the second `CancelTest` waits for the
  canceler to end, and the API's write of "cancelling" is one step with the invocation.
* The service quotas, and Step Functions' history limit apart from the poll loop.

Most of the repository's lines are of these kinds: web console, stacks, CLI, MCP
server, validation, reporting. The models cover the functions that write what a
run, a scenario, a schedule or an investigation is; they are a small part of the
lines and nearly all of the concurrent behaviour.

## 7. What is left

1. A condition on the users from which `NoCleanupCrossesARun` follows: when a start is
   safe, in terms of what the API shows. An abstract specification of the API's
   scenario, with deletion as one step, for `ScenarioApi` to implement.
2. A refinement of the two cleanup steps: scale, drain, forced deletion, with
   deadlines in each.
3. A schedule's time zone, with the hour that summer time drops or repeats.
4. The retries inside the AWS SDK of a call whose reply was lost: the conditional put of
   a run's record, made again, finds its own item and reports it as somebody else's;
   the ADD of the run counter, made again, counts twice.
5. Two cancelers of one scenario at work at the same time.
