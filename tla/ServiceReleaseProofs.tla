------------------------- MODULE ServiceReleaseProofs --------------------------
(***************************************************************************)
(* Theorems about TestExecution, concluded: a run that finished has left   *)
(* no ECS service behind, and the executions implement RunLedger.          *)
(***************************************************************************)
EXTENDS RunOutcomeProofs

-------------------------------------------------------------------------------
(***************************************************************************)
(* The map iterations follow the top level.                                *)
(***************************************************************************)

\* A step of a map iteration leaves every other iteration alone, and is taken by
\* one that is neither idle nor ready nor cleaned.
LEMMA LaneMoves ==
  ASSUME TypeOK, NEW l \in Lanes, LaneStep(l)
  PROVE  /\ phase' = phase
         /\ \A k \in Lanes \ {l} : lane'[k] = lane[k]
         /\ lane[l] \notin {"idle", "cleaned", "ready"}
<1> USE DEF TypeOK, MoveLane, ReturnTo, CatchWithCleanup, tableVars
<1>1. phase' = phase
  BY DEF LaneStep, LaneWork, LaneFault, CheckRunningTests, CheckRunningTestsFails,
         CreateService, CreateServiceFails, WriteProvisioning, CreateDashboard,
         RunnerThrows, RunnerWritesFailed, StabilizationReady,
         StabilizationFailed, StabilizationThrows, SendStart, SendStartFails,
         RegionComplete, RegionTimedOut, CheckCompletionFails, LaneCleaned,
         LaneCleanupFails
<1>2. lane[l] \notin {"idle", "cleaned", "ready"}
  BY DEF LaneStep, LaneWork, LaneFault, CheckRunningTests, CheckRunningTestsFails,
         CreateService, CreateServiceFails, WriteProvisioning, CreateDashboard,
         RunnerThrows, RunnerWritesFailed, StabilizationReady,
         StabilizationFailed, StabilizationThrows, SendStart, SendStartFails,
         RegionComplete, RegionTimedOut, CheckCompletionFails, LaneCleaned,
         LaneCleanupFails
<1>3. \/ lane' = lane
      \/ \E to : lane' = [lane EXCEPT ![l] = to]
  BY DEF LaneStep, LaneWork, LaneFault, CheckRunningTests, CheckRunningTestsFails,
         CreateService, CreateServiceFails, WriteProvisioning, CreateDashboard,
         RunnerThrows, RunnerWritesFailed, StabilizationReady,
         StabilizationFailed, StabilizationThrows, SendStart, SendStartFails,
         RegionComplete, RegionTimedOut, CheckCompletionFails, LaneCleaned,
         LaneCleanupFails
<1> QED  BY <1>1, <1>2, <1>3

\* The steps that are neither of the state machine nor of its iterations.
Elsewhere ==
  \/ \E j \in Jobs : CleanupStep(j)
  \/ \E run \in Runs : WriteQueued(run) \/ HandleFailure(run) \/ UpdaterStep(run)
  \/ ThresholdBreached \/ CancelTest \/ CancelerStep
  \/ UNCHANGED vars

\* They move no phase and no lane.
LEMMA ElsewhereFrame ==
  ASSUME Elsewhere
  PROVE  phase' = phase /\ lane' = lane
<1>1. ASSUME NEW j \in Jobs, CleanupStep(j)
      PROVE  phase' = phase /\ lane' = lane
  BY <1>1
     DEF CleanupStep, ScaleToZero, DeleteService, DeleteServiceRefused,
         RecordStatus, RecordHistory, CleanupThrows, RecordCleanupFailure,
         RetryCleanup, sfnVars
<1>2. ASSUME NEW run \in Runs,
             WriteQueued(run) \/ HandleFailure(run) \/ UpdaterStep(run)
      PROVE  phase' = phase /\ lane' = lane
  BY <1>2
     DEF WriteQueued, HandleFailure, UpdaterStep, UpdateScenario, UpdateHistory,
         CountRun, UpdaterThrows, sfnVars
<1>3. CASE CancelerStep
  BY <1>3
     DEF CancelerStep, FindActiveExecution, NothingToCancel, StopExecution,
         WriteCancelling, PutCancelledRun, CountCancelledRun,
         InvokeCancelCleanup, RetryCanceler, sfnVars
<1>4. CASE ThresholdBreached \/ CancelTest \/ UNCHANGED vars
  BY <1>4 DEF ThresholdBreached, CancelTest, vars, sfnVars
<1> QED  BY <1>1, <1>2, <1>3, <1>4 DEF Elsewhere

\* The state machine enters its last two updates when every region is cleaned,
\* and its end from them.
LEMMA RunStepFollows ==
  ASSUME TypeOK, LanesFollow, NEW run \in Runs, RunStep(run)
  PROVE  LanesFollow'
<1> USE LaneParts
<1> USE DEF TypeOK, LanesFollow, LanesOf, SetStatusIn, EnterPhase, AllCleaned
<1>1. CASE RegionalSyncReady(run) \/ EndExecutionMap(run) \/ ParseResults(run)
  BY <1>1 DEF RegionalSyncReady, EndExecutionMap, ParseResults
<1>2. CASE RegionalSyncNotReady(run)
  BY <1>2 DEF RegionalSyncNotReady, CleanupInEveryRegion, FanOut
<1>3. CASE ParseResultsFails(run)
  BY <1>3 DEF ParseResultsFails
<1>4. CASE EndCleanupMap(run) \/ EndFailureMap(run)
  BY <1>4 DEF EndCleanupMap, EndFailureMap
<1>5. CASE StatusSet(run)
  <2>1. CASE phase[run] = "setRunning"
    BY <1>5, <2>1 DEF StatusSet, FanOut
  <2>2. CASE phase[run] = "setParsing"
    BY <1>5, <2>2 DEF StatusSet
  <2>3. CASE phase[run] \in {"setComplete", "setFailed"}
    BY <1>5, <2>3 DEF StatusSet
  <2>4. CASE phase[run] \notin {"setRunning", "setParsing", "setComplete", "setFailed"}
    BY <1>5, <2>4 DEF StatusSet, CleanupInEveryRegion, FanOut
  <2> QED  BY <2>1, <2>2, <2>3, <2>4
<1>6. CASE StatusSetFails(run)
  BY <1>6 DEF StatusSetFails
<1> QED  BY <1>1, <1>2, <1>3, <1>4, <1>5, <1>6 DEF RunStep

\* LanesFollow is kept by every step.
LEMMA LanesFollowStep ==
  ASSUME TypeOK, LanesFollow, [Next]_vars
  PROVE  LanesFollow'
<1>1. ASSUME NEW l \in Lanes, LaneStep(l)
      PROVE  LanesFollow'
  BY <1>1, LaneMoves DEF LanesFollow
<1>2. ASSUME NEW run \in Runs, StartRun(run)
      PROVE  LanesFollow'
  BY <1>2, LaneParts DEF StartRun, EnterPhase, FanOut, TypeOK, LanesFollow
<1>3. CASE Elsewhere
  BY <1>3, ElsewhereFrame DEF LanesFollow
<1> QED  BY <1>1, <1>2, <1>3, RunStepFollows DEF Next, Elsewhere

-------------------------------------------------------------------------------
(***************************************************************************)
(* A cleaned region has no service of the run.                             *)
(***************************************************************************)

\* A service is created by the iteration whose region it is, which is then busy
\* with it; every other step of an iteration keeps what NoServiceLeft says.
LEMMA LaneReleases ==
  ASSUME TypeOK, NoServiceLeft, NEW l \in Lanes, LaneStep(l)
  PROVE  NoServiceLeft'
<1> USE LaneParts
<1> USE DEF TypeOK
<1> SUFFICES ASSUME NEW k \in Lanes, ReleasedLane(k)'
             PROVE  owner'[k[2]] # k[1]
  BY DEF NoServiceLeft
<1>1. CASE CreateService(l)
  <2>1. CASE k = l
    BY <1>1, <2>1 DEF CreateService, MoveLane, ReleasedLane
  <2>2. CASE k # l
    <3>1. /\ lane'[k] = lane[k] /\ cleanup' = cleanup
          /\ owner' = [owner EXCEPT ![l[2]] = l[1]]
      BY <1>1, <2>2 DEF CreateService, MoveLane
    <3>2. CASE k[2] = l[2]
      <4>1. k[1] # l[1]
        BY <2>2, <3>2 DEF Lanes
      <4> QED  BY <3>1, <3>2, <4>1
    <3>3. CASE k[2] # l[2]
      BY <3>1, <3>3 DEF NoServiceLeft, ReleasedLane
    <3> QED  BY <3>2, <3>3
  <2> QED  BY <2>1, <2>2
<1>2. CASE ~CreateService(l)
  <2>1. owner' = owner
    BY <1>2
       DEF LaneStep, LaneWork, LaneFault, CheckRunningTests, CheckRunningTestsFails,
           CreateServiceFails, WriteProvisioning, CreateDashboard,
           RunnerThrows, RunnerWritesFailed, StabilizationReady,
           StabilizationFailed, StabilizationThrows, SendStart, SendStartFails,
           RegionComplete, RegionTimedOut, CheckCompletionFails, LaneCleaned,
           LaneCleanupFails, ecsVars
  <2>2. CASE k # l
    <3>1. SfnJob(k) # SfnJob(l)
      BY <2>2 DEF SfnJob, Lanes
    <3>2. \/ cleanup' = cleanup
          \/ \E to : cleanup' = [cleanup EXCEPT ![SfnJob(l)] = to]
      BY DEF LaneStep, LaneWork, LaneFault, CheckRunningTests, CheckRunningTestsFails,
             CreateService, CreateServiceFails, WriteProvisioning,
             CreateDashboard, RunnerThrows, RunnerWritesFailed,
             StabilizationReady, StabilizationFailed, StabilizationThrows,
             SendStart, SendStartFails, RegionComplete, RegionTimedOut,
             CheckCompletionFails, LaneCleaned, LaneCleanupFails,
             CatchWithCleanup, Step
    <3>3. cleanup'[SfnJob(k)] = cleanup[SfnJob(k)]
      BY <3>1, <3>2
    <3> QED
      BY <2>1, <2>2, <3>3, LaneMoves DEF NoServiceLeft, ReleasedLane
  <2>3. CASE k = l
    <3>1. ReleasedLane(l)
      <4>1. CASE CheckRunningTests(l) \/ CheckRunningTestsFails(l)
        BY <4>1 DEF CheckRunningTests, CheckRunningTestsFails, ReleasedLane
      <4>2. CASE LaneCleaned(l) \/ CreateServiceFails(l)
        BY <4>2 DEF LaneCleaned, CreateServiceFails, ReleasedLane
      <4>3. CASE LaneCleanupFails(l)
        BY <2>3, <4>3 DEF LaneCleanupFails, ReleasedLane
      <4>4. CASE \/ WriteProvisioning(l) \/ CreateDashboard(l) \/ RunnerThrows(l)
                 \/ StabilizationReady(l) \/ StabilizationFailed(l)
                 \/ SendStart(l) \/ RegionComplete(l)
        BY <2>3, <4>4
           DEF WriteProvisioning, CreateDashboard, RunnerThrows,
               StabilizationReady, StabilizationFailed, SendStart,
               RegionComplete, MoveLane, ReturnTo, ReleasedLane
      <4>5. CASE \/ RunnerWritesFailed(l) \/ StabilizationThrows(l)
                 \/ SendStartFails(l) \/ RegionTimedOut(l) \/ CheckCompletionFails(l)
        <5>1. CatchWithCleanup(l)
          BY <4>5
             DEF RunnerWritesFailed, StabilizationThrows, SendStartFails,
                 RegionTimedOut, CheckCompletionFails
        <5>2. \/ lane'[l] = "stopped"
              \/ lane'[l] = "cleaning" /\ cleanup'[SfnJob(l)] = "drain"
          BY <5>1 DEF CatchWithCleanup, ReturnTo, MoveLane
        <5> QED  BY <2>3, <5>2 DEF ReleasedLane
      <4> QED
        BY <1>2, <4>1, <4>2, <4>3, <4>4, <4>5 DEF LaneStep, LaneWork, LaneFault
    <3> QED  BY <2>1, <2>3, <3>1 DEF NoServiceLeft, ReleasedLane
  <2> QED  BY <2>2, <2>3
<1> QED  BY <1>1, <1>2

\* The state machine never takes an iteration for cleaned before its cleanup ran.
LEMMA RunStepReleases ==
  ASSUME TypeOK, NoServiceLeft, NEW run \in Runs, RunStep(run)
  PROVE  NoServiceLeft'
<1> USE LaneParts
<1> USE DEF TypeOK
<1>1. owner' = owner
  BY DEF RunStep, RegionalSyncReady, RegionalSyncNotReady, EndExecutionMap,
         ParseResults, ParseResultsFails, EndCleanupMap, EndFailureMap,
         StatusSet, StatusSetFails, ecsVars
<1>2. CASE lane' = lane /\ cleanup' = cleanup
  BY <1>1, <1>2 DEF NoServiceLeft, ReleasedLane
<1>3. CASE FanOut(run, "start") /\ cleanup' = cleanup
  BY <1>1, <1>3 DEF FanOut, NoServiceLeft, ReleasedLane
<1>4. CASE FanOut(run, "cleaning") /\ InvokeCleanup("sfn", run, Regions)
  <2>1. ASSUME NEW l \in Lanes, l[1] = run
        PROVE  lane'[l] = "cleaning" /\ cleanup'[SfnJob(l)] = "drain"
    BY <1>4, <2>1 DEF FanOut, InvokeCleanup, SfnJob
  <2>2. ASSUME NEW l \in Lanes, l[1] # run
        PROVE  lane'[l] = lane[l] /\ cleanup'[SfnJob(l)] = cleanup[SfnJob(l)]
    BY <1>4, <2>2 DEF FanOut, InvokeCleanup, SfnJob
  <2> QED  BY <1>1, <2>1, <2>2 DEF NoServiceLeft, ReleasedLane
<1>5. CASE \/ RegionalSyncReady(run) \/ RegionalSyncNotReady(run)
           \/ EndExecutionMap(run) \/ ParseResults(run) \/ ParseResultsFails(run)
           \/ EndCleanupMap(run) \/ EndFailureMap(run) \/ StatusSetFails(run)
  BY <1>2, <1>4, <1>5
     DEF RegionalSyncReady, RegionalSyncNotReady, EndExecutionMap, ParseResults,
         ParseResultsFails, EndCleanupMap, EndFailureMap, StatusSetFails,
         CleanupInEveryRegion
<1>6. CASE StatusSet(run)
  <2>1. CASE phase[run] = "setRunning"
    BY <1>3, <1>6, <2>1 DEF StatusSet
  <2>2. CASE phase[run] = "setParsing"
    BY <1>2, <1>6, <2>2 DEF StatusSet
  <2>3. CASE phase[run] \in {"setComplete", "setFailed"}
    BY <1>2, <1>6, <2>3 DEF StatusSet
  <2>4. CASE phase[run] \notin {"setRunning", "setParsing", "setComplete", "setFailed"}
    BY <1>4, <1>6, <2>4 DEF StatusSet, CleanupInEveryRegion
  <2> QED  BY <2>1, <2>2, <2>3, <2>4
<1> QED  BY <1>5, <1>6 DEF RunStep

\* A cleanup goes on to "record" when there is no service, or none any more.
LEMMA CleanupReleases ==
  ASSUME TypeOK, NoServiceLeft, CleanupsAfterTheEnd, NEW j \in Jobs, CleanupStep(j)
  PROVE  NoServiceLeft'
<1> USE LaneParts, JobParts, NoRunAssumption
<1> USE DEF TypeOK, Step
<1>1. lane' = lane
  BY DEF CleanupStep, ScaleToZero, DeleteService, DeleteServiceRefused,
         RecordStatus, RecordHistory, CleanupThrows, RecordCleanupFailure,
         RetryCleanup, sfnVars
<1> SUFFICES ASSUME NEW l \in Lanes, ReleasedLane(l)'
             PROVE  owner'[l[2]] # l[1]
  BY DEF NoServiceLeft, ReleasedLane
<1>2. \A g \in Regions : owner'[g] = owner[g] \/ owner'[g] = NoRun
  BY DEF CleanupStep, ScaleToZero, DeleteService, DeleteServiceRefused,
         RecordStatus, RecordHistory, CleanupThrows, RecordCleanupFailure,
         RetryCleanup, ecsVars
<1>3. CASE ReleasedLane(l)
  BY <1>2, <1>3 DEF NoServiceLeft, ReleasedLane
<1>4. CASE ~ReleasedLane(l)
  <2>1. /\ lane[l] = "cleaning" /\ j = SfnJob(l)
        /\ cleanup[j] \notin {"record", "done"} /\ cleanup'[j] \in {"record", "done"}
    <3>1. \/ cleanup' = cleanup
          \/ \E to : cleanup' = [cleanup EXCEPT ![j] = to]
      BY DEF CleanupStep, ScaleToZero, DeleteService, DeleteServiceRefused,
             RecordStatus, RecordHistory, CleanupThrows, RecordCleanupFailure,
             RetryCleanup
    <3> QED  BY <1>1, <1>4, <3>1 DEF ReleasedLane
  <2>2. j[1] = "sfn" /\ j[2] = l[1] /\ j[3] = l[2]
    BY <2>1 DEF SfnJob
  <2>3. CASE ScaleToZero(j)
    BY <2>1, <2>2, <2>3 DEF ScaleToZero
  <2>4. CASE DeleteService(j)
    BY <2>2, <2>4 DEF DeleteService
  <2>5. CASE RecordHistory(j)
    BY <2>2, <2>5 DEF RecordHistory, CleanupsAfterTheEnd
  <2>6. CASE \/ DeleteServiceRefused(j) \/ RecordStatus(j) \/ CleanupThrows(j)
             \/ RecordCleanupFailure(j) \/ RetryCleanup(j)
    BY <2>1, <2>2, <2>6
       DEF DeleteServiceRefused, RecordStatus, CleanupThrows,
           RecordCleanupFailure, RetryCleanup
  <2> QED  BY <2>3, <2>4, <2>5, <2>6 DEF CleanupStep
<1> QED  BY <1>3, <1>4

\* NoServiceLeft is kept by every step.
LEMMA NoServiceLeftStep ==
  ASSUME TypeOK, OutcomeInvariant, LanesFollow, NoServiceLeft, [Next]_vars
  PROVE  NoServiceLeft'
<1> USE LaneParts
<1>1. ASSUME NEW run \in Runs, StartRun(run)
      PROVE  NoServiceLeft'
  <2>1. \A l \in Lanes : l[1] = run => lane[l] = "idle"
    BY <1>1 DEF StartRun, OutcomeInvariant, UpdaterAwaited, LanesFollow
  <2>2. /\ owner' = owner /\ cleanup' = cleanup
        /\ \A l \in Lanes : l[1] # run => lane'[l] = lane[l]
    BY <1>1 DEF StartRun, FanOut, ecsVars
  <2> QED  BY <2>1, <2>2 DEF NoServiceLeft, ReleasedLane
<1>2. ASSUME NEW run \in Runs,
             WriteQueued(run) \/ HandleFailure(run) \/ UpdaterStep(run)
      PROVE  NoServiceLeft'
  <2>1. owner' = owner /\ lane' = lane
    BY <1>2
       DEF WriteQueued, HandleFailure, UpdaterStep, UpdateScenario, UpdateHistory,
           CountRun, UpdaterThrows, sfnVars, ecsVars
  <2>2. \A l \in Lanes : cleanup'[SfnJob(l)] = cleanup[SfnJob(l)]
    BY <1>2
       DEF WriteQueued, HandleFailure, UpdaterStep, UpdateScenario, UpdateHistory,
           CountRun, UpdaterThrows, InvokeCleanup, SfnJob
  <2> QED  BY <2>1, <2>2 DEF NoServiceLeft, ReleasedLane
<1>3. CASE CancelerStep
  <2>1. owner' = owner /\ lane' = lane
    BY <1>3
       DEF CancelerStep, FindActiveExecution, NothingToCancel, StopExecution,
           WriteCancelling, PutCancelledRun, CountCancelledRun,
           InvokeCancelCleanup, RetryCanceler, sfnVars, ecsVars
  <2>2. \A l \in Lanes : cleanup'[SfnJob(l)] = cleanup[SfnJob(l)]
    BY <1>3
       DEF CancelerStep, FindActiveExecution, NothingToCancel, StopExecution,
           WriteCancelling, PutCancelledRun, CountCancelledRun,
           InvokeCancelCleanup, RetryCanceler, InvokeCleanup, SfnJob
  <2> QED  BY <2>1, <2>2 DEF NoServiceLeft, ReleasedLane
<1>4. CASE ThresholdBreached \/ CancelTest \/ UNCHANGED vars
  BY <1>4
     DEF ThresholdBreached, CancelTest, NoServiceLeft, ReleasedLane, vars, sfnVars,
         ecsVars
<1> QED
  BY <1>1, <1>2, <1>3, <1>4, LaneReleases, RunStepReleases, CleanupReleases
     DEF Next, OutcomeInvariant

-------------------------------------------------------------------------------
(***************************************************************************)
(* An execution succeeds, and a run is complete, in the last states.       *)
(***************************************************************************)

\* Nothing but the top level of a live execution changes its phase, and what
\* has reached its last update goes to the end only.
LEMMA LastPhases ==
  ASSUME TypeOK, UpdaterAwaited, [Next]_vars, NEW run \in Runs
  PROVE  /\ phase[run] = "end" => phase'[run] = "end"
         /\ phase[run] = "setComplete" =>
              \/ phase'[run] = "setComplete"
              \/ phase'[run] = "end" /\ updater'[run] = "idle"
         /\ phase'[run] = "setComplete" /\ phase[run] # "setComplete"
              => exec[run] = "RUNNING" /\ exec' = exec /\ history' = history
<1> USE DEF TypeOK, SetPhases
<1>1. ASSUME NEW r \in Runs, StartRun(r)
      PROVE  phase[r] = "idle" /\ phase' = [phase EXCEPT ![r] = "stabilization"]
  BY <1>1 DEF StartRun, EnterPhase, UpdaterAwaited
<1>2. ASSUME NEW r \in Runs, RunStep(r), r # run
      PROVE  phase'[run] = phase[run]
  BY <1>2
     DEF RunStep, RegionalSyncReady, RegionalSyncNotReady, EndExecutionMap,
         ParseResults, ParseResultsFails, EndCleanupMap, EndFailureMap,
         StatusSet, StatusSetFails, SetStatusIn, EnterPhase, CleanupInEveryRegion
<1>3. CASE \/ RegionalSyncReady(run) \/ EndExecutionMap(run)
           \/ ParseResults(run) \/ ParseResultsFails(run)
           \/ RegionalSyncNotReady(run) \/ EndFailureMap(run)
  BY <1>3
     DEF RegionalSyncReady, RegionalSyncNotReady, EndExecutionMap, ParseResults,
         ParseResultsFails, EndFailureMap, SetStatusIn, EnterPhase,
         CleanupInEveryRegion
<1>4. CASE EndCleanupMap(run)
  BY <1>4 DEF EndCleanupMap, SetStatusIn, EnterPhase, Running, tableVars
<1>5. CASE StatusSetFails(run)
  BY <1>5 DEF StatusSetFails
<1>6. CASE StatusSet(run)
  <2>1. updater'[run] = "idle" /\ updater[run] # "idle"
    BY <1>6 DEF StatusSet
  <2>2. CASE phase[run] \in {"setComplete", "setFailed"}
    BY <1>6, <2>1, <2>2 DEF StatusSet, EnterPhase
  <2>3. CASE phase[run] \notin {"setComplete", "setFailed"}
    <3>1. phase'[run] # "setComplete" /\ phase[run] \in SetPhases
      BY <1>6, <2>1, <2>3
         DEF StatusSet, EnterPhase, CleanupInEveryRegion, UpdaterAwaited
    <3> QED  BY <2>3, <3>1
  <2> QED  BY <2>2, <2>3
<1>7. CASE phase' = phase
  BY <1>7
<1> QED
  BY <1>1, <1>2, <1>3, <1>4, <1>5, <1>6, <1>7, LaneMoves, ElsewhereFrame
     DEF Next, Elsewhere, RunStep

\* The only steps that begin or end an execution.
LEMMA ExecWriters ==
  ASSUME [Next]_vars
  PROVE  \/ exec' = exec
         \/ \E run \in Runs : StartRun(run) \/ StatusSet(run) \/ StatusSetFails(run)
         \/ \E l \in Lanes : LaneCleanupFails(l)
         \/ StopExecution
<1>1. ASSUME NEW l \in Lanes, LaneStep(l), ~LaneCleanupFails(l)
      PROVE  exec' = exec
  BY <1>1
     DEF LaneStep, LaneWork, LaneFault, CheckRunningTests, CheckRunningTestsFails,
         CreateService, CreateServiceFails, WriteProvisioning, CreateDashboard,
         RunnerThrows, RunnerWritesFailed, StabilizationReady,
         StabilizationFailed, StabilizationThrows, SendStart, SendStartFails,
         RegionComplete, RegionTimedOut, CheckCompletionFails, LaneCleaned
<1>2. ASSUME NEW run \in Runs, RunStep(run), ~StatusSet(run), ~StatusSetFails(run)
      PROVE  exec' = exec
  BY <1>2
     DEF RunStep, RegionalSyncReady, RegionalSyncNotReady, EndExecutionMap,
         ParseResults, ParseResultsFails, EndCleanupMap, EndFailureMap
<1>3. ASSUME NEW j \in Jobs, CleanupStep(j)
      PROVE  exec' = exec
  BY <1>3
     DEF CleanupStep, ScaleToZero, DeleteService, DeleteServiceRefused,
         RecordStatus, RecordHistory, CleanupThrows, RecordCleanupFailure,
         RetryCleanup, sfnVars
<1>4. ASSUME NEW run \in Runs,
             WriteQueued(run) \/ HandleFailure(run) \/ UpdaterStep(run)
      PROVE  exec' = exec
  BY <1>4
     DEF WriteQueued, HandleFailure, UpdaterStep, UpdateScenario, UpdateHistory,
         CountRun, UpdaterThrows, sfnVars
<1>5. ASSUME CancelerStep, ~StopExecution
      PROVE  exec' = exec
  BY <1>5
     DEF CancelerStep, FindActiveExecution, NothingToCancel, WriteCancelling,
         PutCancelledRun, CountCancelledRun, InvokeCancelCleanup, RetryCanceler,
         sfnVars
<1>6. CASE ThresholdBreached \/ CancelTest \/ UNCHANGED vars
  BY <1>6 DEF ThresholdBreached, CancelTest, vars, sfnVars
<1> QED  BY <1>1, <1>2, <1>3, <1>4, <1>5, <1>6 DEF Next

\* An execution succeeds from the last two states only.
LEMMA SuccessHasOneSource ==
  ASSUME TypeOK, [Next]_vars, NEW run \in Runs,
         exec[run] # "SUCCEEDED", exec'[run] = "SUCCEEDED"
  PROVE  StatusSet(run) /\ phase[run] \in {"setComplete", "setFailed"}
<1> USE DEF TypeOK, EndExecution
<1>1. ASSUME NEW r \in Runs, StartRun(r) \/ StatusSetFails(r)
      PROVE  FALSE
  BY <1>1 DEF StartRun, StatusSetFails
<1>2. ASSUME NEW l \in Lanes, LaneCleanupFails(l)
      PROVE  FALSE
  BY <1>2, LaneParts DEF LaneCleanupFails
<1>3. ASSUME StopExecution
      PROVE  FALSE
  BY <1>3 DEF StopExecution
<1>4. PICK r \in Runs : StatusSet(r)
  BY <1>1, <1>2, <1>3, ExecWriters
<1>5. r = run /\ phase[r] \in {"setComplete", "setFailed"}
  BY <1>4 DEF StatusSet
<1> QED  BY <1>4, <1>5

\* A run becomes complete by its last update only.
LEMMA CompleteHasOneSource ==
  ASSUME TypeOK, [Next]_vars, NEW run \in Runs,
         history[run] # "complete", history'[run] = "complete"
  PROVE  UpdateHistory(run) /\ phase[run] = "setComplete" /\ phase' = phase
<1> USE DEF TypeOK
<1>1. ASSUME NEW j \in Jobs, RecordHistory(j)
      PROVE  FALSE
  BY <1>1, JobParts
     DEF RecordHistory, CleanupHistoryWrite, CleanupWrite, FinalStatus, Absent
<1>2. ASSUME NEW j \in Jobs, RecordCleanupFailure(j)
      PROVE  FALSE
  BY <1>2, JobParts
     DEF RecordCleanupFailure, CleanupHistoryWrite, CleanupWrite, Absent
<1>3. ASSUME PutCancelledRun
      PROVE  FALSE
  BY <1>3 DEF PutCancelledRun
<1>4. PICK r \in Runs : UpdateHistory(r)
  BY <1>1, <1>2, <1>3, HistoryWriters
<1>5. r = run /\ phase[run] = "setComplete" /\ phase' = phase
  BY <1>4 DEF UpdateHistory, MetadataWrite, StatusSetIn, sfnVars
<1> QED  BY <1>4, <1>5

\* The last update starts when the state machine enters its phase, not later.
LEMMA UpdateGoesOn ==
  ASSUME TypeOK, [Next]_vars, NEW run \in Runs,
         phase[run] = "setComplete", updater'[run] \in {"scenario", "history"}
  PROVE  updater[run] \in {"scenario", "history"}
<1> USE DEF TypeOK
<1>1. ASSUME NEW r \in Runs, UpdaterStep(r)
      PROVE  updater[run] \in {"scenario", "history"}
  BY <1>1 DEF UpdaterStep, UpdateScenario, UpdateHistory, CountRun, UpdaterThrows
<1>2. ASSUME NEW r \in Runs, RunStep(r), r # run
      PROVE  updater'[run] = updater[run]
  BY <1>2
     DEF RunStep, RegionalSyncReady, RegionalSyncNotReady, EndExecutionMap,
         ParseResults, ParseResultsFails, EndCleanupMap, EndFailureMap,
         StatusSet, StatusSetFails, SetStatusIn
<1>3. CASE RunStep(run)
  BY <1>3
     DEF RunStep, RegionalSyncReady, RegionalSyncNotReady, EndExecutionMap,
         ParseResults, ParseResultsFails, EndCleanupMap, EndFailureMap,
         StatusSet, StatusSetFails
<1>4. ASSUME NEW r \in Runs, StartRun(r)
      PROVE  updater' = updater
  BY <1>4 DEF StartRun
<1> QED  BY <1>1, <1>2, <1>3, <1>4, PhaseFrame DEF Next

\* While the last update is under way its execution can only be stopped.
LEMMA LastUpdateIsNotFailed ==
  ASSUME TypeOK, LanesFollow, [Next]_vars, NEW run \in Runs,
         phase[run] = "setComplete", updater[run] \in {"scenario", "history"},
         exec[run] \in {"RUNNING", "ABORTED"}
  PROVE  exec'[run] \in {"RUNNING", "ABORTED"}
<1> USE DEF TypeOK, EndExecution
<1>1. ASSUME NEW r \in Runs, StartRun(r)
      PROVE  exec'[run] \in {"RUNNING", "ABORTED"}
  BY <1>1 DEF StartRun
<1>2. ASSUME NEW r \in Runs, StatusSet(r) \/ StatusSetFails(r)
      PROVE  exec'[run] = exec[run]
  <2>1. r # run
    BY <1>2 DEF StatusSet, StatusSetFails
  <2> QED
    BY <1>2, <2>1 DEF StatusSet, StatusSetFails
<1>3. ASSUME NEW l \in Lanes, LaneCleanupFails(l)
      PROVE  exec'[run] = exec[run]
  <2>1. l[1] # run
    BY <1>3 DEF LaneCleanupFails, LanesFollow
  <2> QED  BY <1>3, <2>1, LaneParts DEF LaneCleanupFails
<1>4. CASE StopExecution
  BY <1>4 DEF StopExecution
<1> QED  BY <1>1, <1>2, <1>3, <1>4, ExecWriters

\* EndReached is kept by every step.
LEMMA EndReachedStep ==
  ASSUME TypeOK, OutcomeInvariant, LanesFollow, EndReached, [Next]_vars
  PROVE  EndReached'
<1> USE DEF TypeOK
<1> UpdaterAwaited
  BY DEF OutcomeInvariant
<1> SUFFICES ASSUME NEW run \in Runs
             PROVE  /\ exec'[run] = "SUCCEEDED" => phase'[run] = "end"
                    /\ history'[run] = "complete" => phase'[run] \in {"setComplete", "end"}
                    /\ phase'[run] = "setComplete" /\ updater'[run] \in {"scenario", "history"}
                         => exec'[run] \in {"RUNNING", "ABORTED"}
  BY DEF EndReached
<1>1. exec'[run] = "SUCCEEDED" => phase'[run] = "end"
  <2>1. CASE exec[run] = "SUCCEEDED"
    BY <2>1, LastPhases DEF EndReached
  <2>2. CASE exec[run] # "SUCCEEDED" /\ exec'[run] = "SUCCEEDED"
    <3>1. StatusSet(run) /\ phase[run] \in {"setComplete", "setFailed"}
      BY <2>2, SuccessHasOneSource
    <3> QED  BY <3>1 DEF StatusSet, EnterPhase
  <2> QED  BY <2>1, <2>2
<1>2. history'[run] = "complete" => phase'[run] \in {"setComplete", "end"}
  <2>1. CASE history[run] = "complete"
    BY <2>1, LastPhases DEF EndReached
  <2>2. CASE history[run] # "complete" /\ history'[run] = "complete"
    <3>1. phase[run] = "setComplete" /\ phase' = phase
      BY <2>2, CompleteHasOneSource
    <3> QED  BY <3>1
  <2> QED  BY <2>1, <2>2
<1>3. ASSUME phase'[run] = "setComplete", updater'[run] \in {"scenario", "history"}
      PROVE  exec'[run] \in {"RUNNING", "ABORTED"}
  <2>1. CASE phase[run] # "setComplete"
    BY <1>3, <2>1, LastPhases
  <2>2. CASE phase[run] = "setComplete"
    <3>1. updater[run] \in {"scenario", "history"}
      BY <1>3, <2>2, UpdateGoesOn
    <3>2. exec[run] \in {"RUNNING", "ABORTED"}
      BY <2>2, <3>1 DEF EndReached
    <3> QED  BY <2>2, <3>1, <3>2, LastUpdateIsNotFailed
  <2> QED  BY <2>1, <2>2
<1> QED  BY <1>1, <1>2, <1>3

-------------------------------------------------------------------------------
\* ReleaseInvariant is kept by every step ...
LEMMA NextKeepsRelease ==
  ASSUME TypeOK, OutcomeInvariant, ReleaseInvariant, [Next]_vars
  PROVE  ReleaseInvariant'
  BY LanesFollowStep, NoServiceLeftStep, EndReachedStep DEF ReleaseInvariant

\* ... holds at first, and so of every behaviour.
LEMMA ReleaseAtFirst == ASSUME Init PROVE ReleaseInvariant
  BY NoRunAssumption, LaneParts
     DEF Init, ReleaseInvariant, LanesFollow, NoServiceLeft, EndReached, Absent

\* So it holds of every behaviour.
LEMMA Released == Spec => []ReleaseInvariant
<1>1. Init => ReleaseInvariant
  BY ReleaseAtFirst
<1>2. TypeOK /\ OutcomeInvariant /\ ReleaseInvariant /\ [Next]_vars
        => ReleaseInvariant'
  BY NextKeepsRelease
<1> QED  BY <1>1, <1>2, TypeCorrect, Outcome, PTL DEF Spec

\* What it says of runs that finished.
LEMMA ReleasedMeansNoService ==
  ASSUME ReleaseInvariant PROVE FinishedRunsLeaveNoService
<1> SUFFICES ASSUME NEW run \in Runs, NEW g \in Regions,
                    exec[run] = "SUCCEEDED" \/ history[run] = "complete"
             PROVE  owner[g] # run
  BY DEF FinishedRunsLeaveNoService
<1> DEFINE l == <<run, g>>
<1>1. l \in Lanes /\ l[1] = run /\ l[2] = g
  BY DEF Lanes
<1>2. phase[run] \in {"setComplete", "end"}
  BY DEF ReleaseInvariant, EndReached
<1>3. lane[l] = "cleaned"
  BY <1>1, <1>2 DEF ReleaseInvariant, LanesFollow
<1> QED  BY <1>1, <1>3 DEF ReleaseInvariant, NoServiceLeft, ReleasedLane

\* An execution that succeeded, or a run recorded as complete, has no ECS service
\* in any region: the state machine gets to its last update only when the cleanup
\* of every region has returned, and a cleanup returns when no service has the
\* run's name any more, whatever failed, was cancelled or was retried before.
THEOREM FinishedRunsReleaseTheirServices == Spec => []FinishedRunsLeaveNoService
<1>1. ReleaseInvariant => FinishedRunsLeaveNoService
  BY ReleasedMeansNoService
<1> QED  BY <1>1, Released, PTL

-------------------------------------------------------------------------------
(***************************************************************************)
(* The executions implement RunLedger.                                     *)
(***************************************************************************)

\* Nobody removes a history item.
LEMMA HistoryStays ==
  ASSUME TypeOK, [Next]_vars, NEW run \in Runs, history[run] # Absent
  PROVE  history'[run] # Absent
<1> USE WritesAndAbsence, WrittenStatuses
<1> USE DEF TypeOK
<1>1. ASSUME NEW r \in Runs, UpdateHistory(r)
      PROVE  history'[run] # Absent
  BY <1>1 DEF UpdateHistory
<1>2. ASSUME NEW j \in Jobs, RecordHistory(j)
      PROVE  history'[run] # Absent
  BY <1>2, JobParts DEF RecordHistory
<1>3. ASSUME NEW j \in Jobs, RecordCleanupFailure(j)
      PROVE  history'[run] # Absent
  BY <1>3, JobParts DEF RecordCleanupFailure
<1>4. CASE PutCancelledRun
  BY <1>4 DEF PutCancelledRun, Absent
<1> QED  BY <1>1, <1>2, <1>3, <1>4, HistoryWriters

\* A run that got past its first update keeps its history item.
LEMMA BegunStep ==
  ASSUME TypeOK, OutcomeInvariant, BegunRunsAreRecorded, [Next]_vars
  PROVE  BegunRunsAreRecorded'
<1> USE DEF TypeOK
<1> UpdaterAwaited
  BY DEF OutcomeInvariant
<1> SUFFICES ASSUME NEW run \in Runs, BegunRun(run)'
             PROVE  history'[run] # Absent
  BY DEF BegunRunsAreRecorded
<1>1. history[run] # Absent => history'[run] # Absent
  BY HistoryStays
<1>2. CASE BegunRun(run)
  BY <1>1, <1>2 DEF BegunRunsAreRecorded
<1>3. CASE ~BegunRun(run)
  <2>1. ASSUME NEW r \in Runs, StartRun(r)
        PROVE  FALSE
    BY <1>3, <2>1 DEF StartRun, EnterPhase, BegunRun
  <2>2. ASSUME NEW r \in Runs, UpdaterStep(r)
        PROVE  history'[run] # Absent
    <3>1. UpdateHistory(run)
      BY <1>3, <2>2
         DEF UpdaterStep, UpdateScenario, UpdateHistory, CountRun, UpdaterThrows,
             BegunRun, sfnVars
    <3> QED
      BY <3>1, WritesAndAbsence, WrittenStatuses DEF UpdateHistory
  <2>3. ASSUME NEW r \in Runs, RunStep(r)
        PROVE  FALSE
    <3>1. r = run
      BY <1>3, <2>3
         DEF RunStep, RegionalSyncReady, RegionalSyncNotReady, EndExecutionMap,
             ParseResults, ParseResultsFails, EndCleanupMap, EndFailureMap,
             StatusSet, StatusSetFails, SetStatusIn, EnterPhase,
             CleanupInEveryRegion, BegunRun
    <3>2. CASE \/ RegionalSyncReady(run) \/ RegionalSyncNotReady(run)
               \/ EndExecutionMap(run) \/ ParseResults(run)
               \/ ParseResultsFails(run) \/ EndCleanupMap(run) \/ EndFailureMap(run)
      BY <1>3, <3>2
         DEF RegionalSyncReady, RegionalSyncNotReady, EndExecutionMap,
             ParseResults, ParseResultsFails, EndCleanupMap, EndFailureMap,
             SetStatusIn, EnterPhase, CleanupInEveryRegion, BegunRun
    <3>3. CASE StatusSet(run) \/ StatusSetFails(run)
      <4>1. phase[run] \in SetPhases
        BY <3>3 DEF StatusSet, StatusSetFails, UpdaterAwaited
      <4> QED
        BY <1>3, <3>3, <4>1
           DEF StatusSet, StatusSetFails, EnterPhase, CleanupInEveryRegion,
               BegunRun, SetPhases
    <3> QED  BY <2>3, <3>1, <3>2, <3>3 DEF RunStep
  <2>4. CASE phase' = phase /\ updater' = updater
    BY <1>3, <2>4 DEF BegunRun
  <2> QED  BY <2>1, <2>2, <2>3, <2>4, PhaseFrame DEF Next
<1> QED  BY <1>2, <1>3

\* At first no run has begun.
LEMMA BegunAtFirst == ASSUME Init PROVE BegunRunsAreRecorded
  BY DEF Init, BegunRunsAreRecorded, BegunRun

\* BegunRunsAreRecorded holds of every behaviour.
LEMMA BegunRecorded == Spec => []BegunRunsAreRecorded
<1>1. Init => BegunRunsAreRecorded
  BY BegunAtFirst
<1>2. TypeOK /\ OutcomeInvariant /\ BegunRunsAreRecorded /\ [Next]_vars
        => BegunRunsAreRecorded'
  BY BegunStep
<1> QED  BY <1>1, <1>2, TypeCorrect, Outcome, PTL DEF Spec

\* What a step reads and keeps of the invariants.
LedgerInvariant ==
  /\ TypeOK /\ UpdaterAwaited
  /\ OutcomeInvariant /\ ReleaseInvariant
  /\ BegunRunsAreRecorded /\ RunsCountedOnce

\* RecordOf keeps apart what RunLedger keeps apart.
LEMMA Records ==
  ASSUME NEW found \in HistoryStatus
  PROVE  /\ RecordOf(found) = "absent" <=> found = Absent
         /\ \A outcome \in Terminal : RecordOf(found) = outcome <=> found = outcome
         /\ found \notin Terminal \cup {Absent} => RecordOf(found) = "underWay"
  BY DEF RecordOf, HistoryStatus, Status, Terminal, Absent

\* A step that changes an execution begins or ends it.
LEMMA ExecRefines ==
  ASSUME LedgerInvariant, LedgerInvariant', [Next]_vars, exec' # exec
  PROVE  Ledger!Next
<1> USE DEF TypeOK, LedgerInvariant
<1>1. PICK run \in Runs, as \in ExecStatus :
        exec' = [exec EXCEPT ![run] = as] /\ UNCHANGED tableVars
  <2>1. ASSUME NEW run \in Runs, StartRun(run)
        PROVE  exec' = [exec EXCEPT ![run] = "RUNNING"] /\ UNCHANGED tableVars
    BY <2>1 DEF StartRun
  <2>2. ASSUME NEW run \in Runs, StatusSet(run)
        PROVE  exec' = [exec EXCEPT ![run] = "SUCCEEDED"] /\ UNCHANGED tableVars
    BY <2>2 DEF StatusSet, EndExecution
  <2>3. ASSUME NEW run \in Runs, StatusSetFails(run)
        PROVE  exec' = [exec EXCEPT ![run] = "FAILED"] /\ UNCHANGED tableVars
    BY <2>3 DEF StatusSetFails, EndExecution
  <2>4. ASSUME NEW l \in Lanes, LaneCleanupFails(l)
        PROVE  exec' = [exec EXCEPT ![l[1]] = "FAILED"] /\ UNCHANGED tableVars
    BY <2>4 DEF LaneCleanupFails, EndExecution
  <2>5. ASSUME StopExecution
        PROVE  /\ exec' = [exec EXCEPT ![target] = "ABORTED"]
               /\ target \in Runs /\ UNCHANGED tableVars
    BY <2>5 DEF StopExecution, EndExecution
  <2> QED
    BY <2>1, <2>2, <2>3, <2>4, <2>5, ExecWriters, LaneParts DEF ExecStatus
<1>2. /\ history' = history /\ totalTestRuns' = totalTestRuns
      /\ exec[run] # as /\ exec'[run] = as
  BY <1>1 DEF tableVars
<1>3. CASE exec[run] = "none" /\ as = "RUNNING"
  BY <1>1, <1>2, <1>3 DEF Ledger!Next, Ledger!Begin
<1>4. CASE exec[run] = "RUNNING" /\ as \in {"FAILED", "ABORTED"}
  BY <1>1, <1>2, <1>4 DEF Ledger!Next, Ledger!End
<1>5. CASE Succeeds(run)
  <2>1. as = "SUCCEEDED" /\ exec[run] = "RUNNING"
    BY <1>2, <1>5 DEF Succeeds
  <2>2. history[run] \in {"complete", "failed"}
    BY <1>2, <2>1 DEF OutcomeInvariant, SuccessRecorded, Terminal
  <2>3. RecordOf(history[run]) \in {"complete", "failed"}
    BY <2>2 DEF RecordOf, Terminal, Absent
  <2> QED  BY <1>1, <1>2, <2>1, <2>3 DEF Ledger!Next, Ledger!End
<1> QED
  BY <1>2, <1>3, <1>4, <1>5, AllExecMoves DEF ExecMoves

\* A step that writes the history writes the item of one run that has begun; it
\* says complete only of one recorded already, whose execution did not fail.
LEMMA OneRecordWritten ==
  ASSUME LedgerInvariant, [Next]_vars, history' # history
  PROVE  \E run \in Runs, new \in HistoryStatus :
           /\ history' = [history EXCEPT ![run] = new]
           /\ exec' = exec /\ totalTestRuns' = totalTestRuns
           /\ exec[run] # "none" \/ history[run] # Absent
           /\ new = "complete" /\ history[run] \notin Terminal
                => /\ history[run] # Absent
                   /\ exec[run] \in {"RUNNING", "ABORTED"}
           /\ new # "cancelled" \/ history[run] # Absent
<1> USE DEF TypeOK, LedgerInvariant
<1>1. ASSUME NEW run \in Runs, UpdateHistory(run)
      PROVE  /\ history' = [history EXCEPT ![run] =
                              MetadataWrite(history[run], StatusSetIn(phase[run]))]
             /\ exec' = exec /\ totalTestRuns' = totalTestRuns
             /\ exec[run] # "none"
             /\ StatusSetIn(phase[run]) = "complete" =>
                  /\ history[run] # Absent
                  /\ exec[run] \in {"RUNNING", "ABORTED"}
             /\ StatusSetIn(phase[run]) # "cancelled"
  <2>1. updater[run] = "history"
    BY <1>1 DEF UpdateHistory
  <2>2. exec[run] # "none"
    BY <2>1 DEF UpdaterAwaited, SetPhases
  <2>3. StatusSetIn(phase[run]) = "complete" => phase[run] = "setComplete"
    BY DEF StatusSetIn
  <2>4. StatusSetIn(phase[run]) # "cancelled"
    BY DEF StatusSetIn
  <2>5. phase[run] = "setComplete" => history[run] # Absent
    BY DEF BegunRunsAreRecorded, BegunRun
  <2>6. phase[run] = "setComplete" => exec[run] \in {"RUNNING", "ABORTED"}
    BY <2>1 DEF ReleaseInvariant, EndReached
  <2>7. /\ history' = [history EXCEPT ![run] =
                         MetadataWrite(history[run], StatusSetIn(phase[run]))]
        /\ exec' = exec /\ totalTestRuns' = totalTestRuns
    BY <1>1 DEF UpdateHistory, sfnVars
  <2> QED  BY <2>2, <2>3, <2>4, <2>5, <2>6, <2>7
<1>2. ASSUME NEW run \in Runs, UpdateHistory(run)
      PROVE  MetadataWrite(history[run], StatusSetIn(phase[run])) \in HistoryStatus
  BY WritesKeepType, WrittenStatuses
<1>3. CASE \E run \in Runs : UpdateHistory(run)
  <2>1. PICK run \in Runs : UpdateHistory(run)
    BY <1>3
  <2> DEFINE new == MetadataWrite(history[run], StatusSetIn(phase[run]))
  <2>2. history[run] \notin Terminal => new = StatusSetIn(phase[run])
    BY DEF MetadataWrite
  <2>3. history[run] \in Terminal => history[run] # Absent
    BY DEF Terminal, Absent
  <2>4. new \in HistoryStatus
    BY <1>2, <2>1
  <2>5. new # "cancelled" \/ history[run] # Absent
    BY <1>1, <2>1, <2>2, <2>3
  <2> WITNESS run \in Runs, new \in HistoryStatus
  <2> QED  BY <1>1, <2>1, <2>2, <2>5
<1>4. ASSUME NEW j \in Jobs, RecordHistory(j) \/ RecordCleanupFailure(j)
      PROVE  \E new \in {FinalStatus(j), "failed"} :
               /\ history' = [history EXCEPT ![j[2]] = CleanupHistoryWrite(@, new)]
               /\ exec' = exec /\ totalTestRuns' = totalTestRuns
  BY <1>4 DEF RecordHistory, RecordCleanupFailure, sfnVars
<1>5. CASE \E j \in Jobs : RecordHistory(j) \/ RecordCleanupFailure(j)
  <2>1. PICK j \in Jobs : RecordHistory(j) \/ RecordCleanupFailure(j)
    BY <1>5
  <2>2. PICK to \in {FinalStatus(j), "failed"} :
          /\ history' = [history EXCEPT ![j[2]] = CleanupHistoryWrite(@, to)]
          /\ exec' = exec /\ totalTestRuns' = totalTestRuns
    BY <1>4, <2>1
  <2> DEFINE run == j[2]
             new == CleanupHistoryWrite(history[run], to)
  <2>3. run \in Runs /\ to \in Status /\ to # "complete"
    BY JobParts, WrittenStatuses DEF FinalStatus
  <2>4. new \in HistoryStatus /\ history' = [history EXCEPT ![run] = new]
    BY <2>2, <2>3, WritesKeepType
  <2>5. history[run] # Absent
    BY <2>2, <2>4 DEF CleanupHistoryWrite
  <2>6. history[run] \notin Terminal => new # "complete"
    BY <2>3, <2>5 DEF CleanupHistoryWrite, CleanupWrite, Terminal
  <2> /\ run \in Runs
      /\ new \in HistoryStatus
    BY <2>3, <2>4
  <2> WITNESS run \in Runs, new \in HistoryStatus
  <2> QED  BY <2>2, <2>4, <2>5, <2>6
<1>6. CASE PutCancelledRun
  <2>1. /\ history' = [history EXCEPT ![target] = "cancelling"]
        /\ exec' = exec /\ totalTestRuns' = totalTestRuns
    BY <1>6 DEF PutCancelledRun, sfnVars
  <2>2. target \in Runs /\ "cancelling" \in HistoryStatus
    BY <1>6 DEF PutCancelledRun, HistoryStatus, Status
  <2>3. exec[target] # "none"
    BY <1>6 DEF PutCancelledRun, OutcomeInvariant, TargetEnded, Ended
  <2> /\ target \in Runs
      /\ "cancelling" \in HistoryStatus
    BY <2>2
  <2> WITNESS target \in Runs, "cancelling" \in HistoryStatus
  <2> QED  BY <2>1, <2>3
<1> QED  BY <1>3, <1>5, <1>6, HistoryWriters

\* A step that writes a run's history item records or concludes the run, or says
\* nothing new of it.
LEMMA HistoryRefines ==
  ASSUME LedgerInvariant, LedgerInvariant', [Next]_vars, history' # history
  PROVE  [Ledger!Next]_Ledger!ledger
<1> USE DEF TypeOK, LedgerInvariant
<1>1. PICK run \in Runs, new \in HistoryStatus :
        /\ history' = [history EXCEPT ![run] = new]
        /\ exec' = exec /\ totalTestRuns' = totalTestRuns
        /\ exec[run] # "none" \/ history[run] # Absent
        /\ new = "complete" /\ history[run] \notin Terminal
             => /\ history[run] # Absent
                /\ exec[run] \in {"RUNNING", "ABORTED"}
        /\ new # "cancelled" \/ history[run] # Absent
  BY OneRecordWritten
<1>2. history[run] \in HistoryStatus /\ history'[run] = new
  BY <1>1
<1>3. history[run] \notin Terminal
  BY <1>1, <1>2, HistoryStep
<1>4. new = "cancelled" => exec[run] \in {"FAILED", "ABORTED"}
  BY <1>1, <1>2 DEF OutcomeInvariant, CancelledRunsDoNotFinish
<1>5. CASE history[run] = Absent
  <2>1. new # Absent
    BY <1>1, <1>5
  <2>2. RecordOf(new) \in {"underWay", "failed"}
    BY <1>1, <1>3, <1>5, <2>1 DEF RecordOf, Terminal
  <2>3. Ledger!Record(run)
    BY <1>1, <1>2, <1>5, <2>2, Records DEF Ledger!Record
  <2> QED  BY <2>3 DEF Ledger!Next
<1>6. CASE history[run] # Absent
  <2>1. RecordOf(history[run]) = "underWay"
    BY <1>2, <1>3, <1>6 DEF RecordOf
  <2>2. new # Absent
    BY <1>1, <1>2, <1>6, HistoryStays
  <2>3. CASE new \in Terminal
    <3>1. RecordOf(new) = new
      BY <2>2, <2>3 DEF RecordOf
    <3>2. Ledger!MayConclude(run, new)
      BY <1>1, <1>3, <1>4 DEF Ledger!MayConclude
    <3>3. Ledger!Conclude(run)
      BY <1>1, <2>1, <2>3, <3>1, <3>2
         DEF Ledger!Conclude, Ledger!Outcomes, Terminal
    <3> QED  BY <3>3 DEF Ledger!Next
  <2>4. CASE new \notin Terminal
    <3>1. RecordOf(new) = "underWay"
      BY <2>2, <2>4 DEF RecordOf
    <3>2. \A r \in Runs : RecordOf(history'[r]) = RecordOf(history[r])
      BY <1>1, <2>1, <3>1
    <3> QED  BY <1>1, <3>2 DEF Ledger!ledger
  <2> QED  BY <2>3, <2>4
<1> QED  BY <1>5, <1>6

\* A step that counts a run finds one recorded and not counted yet.
LEMMA CountRefines ==
  ASSUME LedgerInvariant, [Next]_vars, totalTestRuns' # totalTestRuns
  PROVE  Ledger!Next
<1> USE CountedSetsFinite
<1> USE DEF TypeOK, LedgerInvariant
<1>1. Ledger!Recorded = RecordedRuns
  <2>1. \A run \in Runs : RecordOf(history[run]) # "absent" <=> history[run] # Absent
    BY Records
  <2> QED  BY <2>1 DEF Ledger!Recorded, RecordedRuns
<1>2. ASSUME NEW run \in Runs, CountRun(run), totalTestRuns' # totalTestRuns
      PROVE  /\ totalTestRuns' = totalTestRuns + 1
             /\ exec' = exec /\ history' = history
             /\ totalTestRuns < Cardinality(RecordedRuns)
  <2>1. /\ totalTestRuns' = totalTestRuns + 1
        /\ exec' = exec /\ history' = history
        /\ run \in UpdatersCounting
    BY <1>2 DEF CountRun, IncrementTestRunCount, UpdatersCounting, sfnVars
  <2>2. Cardinality(UpdatersCounting) # 0
    BY <2>1, FS_EmptySet
  <2> QED  BY <2>1, <2>2 DEF RunsCountedOnce
<1>3. ASSUME CountCancelledRun, totalTestRuns' # totalTestRuns
      PROVE  /\ totalTestRuns' = totalTestRuns + 1
             /\ exec' = exec /\ history' = history
             /\ totalTestRuns < Cardinality(RecordedRuns)
  BY <1>3 DEF CountCancelledRun, IncrementTestRunCount, RunsCountedOnce, sfnVars
<1>4. /\ totalTestRuns' = totalTestRuns + 1
      /\ exec' = exec /\ history' = history
      /\ totalTestRuns < Cardinality(RecordedRuns)
  <2>1. ASSUME NEW run \in Runs, UpdateHistory(run)
        PROVE  FALSE
    BY <2>1 DEF UpdateHistory
  <2>2. ~PutCancelledRun
    BY DEF PutCancelledRun
  <2> QED  BY <1>2, <1>3, <2>1, <2>2, LedgerFrame
<1>5. Ledger!Cardinality(RecordedRuns) = Cardinality(RecordedRuns)
  BY DEF Ledger!Cardinality, Cardinality
<1>6. Ledger!Count
  BY <1>1, <1>4, <1>5 DEF Ledger!Count
<1> QED  BY <1>6 DEF Ledger!Next

\* An initial state is one of RunLedger,
LEMMA LedgerAtFirst == ASSUME Init PROVE Ledger!Init
<1>1. RecordOf(Absent) = "absent"
  BY DEF RecordOf
<1> QED  BY <1>1 DEF Init, Ledger!Init

\* and a step is one of RunLedger or changes none of its variables.
LEMMA StepRefines ==
  ASSUME LedgerInvariant, LedgerInvariant', [Next]_vars
  PROVE  [Ledger!Next]_Ledger!ledger
<1>1. CASE UNCHANGED <<exec, history, totalTestRuns>>
  BY <1>1 DEF Ledger!ledger
<1> QED  BY <1>1, ExecRefines, HistoryRefines, CountRefines

\* The executions implement RunLedger: whatever the state machine, the canceler,
\* the failure handler and the retries of their cleanups do, the history shows one
\* record a run and one outcome that fits how its execution ended, and no run is
\* counted that is not recorded.
THEOREM ExecutionsImplementTheLedger == Spec => ImplementsRunLedger
<1>1. Init => Ledger!Init
  BY LedgerAtFirst
<1>2. LedgerInvariant /\ LedgerInvariant' /\ [Next]_vars
        => [Ledger!Next]_Ledger!ledger
  BY StepRefines
<1>3. Spec => []LedgerInvariant
  <2>1. LedgerInvariant <=> /\ TypeOK /\ UpdaterAwaited
                            /\ OutcomeInvariant /\ ReleaseInvariant
                            /\ BegunRunsAreRecorded /\ RunsCountedOnce
    BY DEF LedgerInvariant
  <2> QED
    BY <2>1, Awaited, Outcome, Released, BegunRecorded, EveryRunCountedOnce, PTL
<1> QED  BY <1>1, <1>2, <1>3, PTL DEF Spec, ImplementsRunLedger, Ledger!Spec

-------------------------------------------------------------------------------
(***************************************************************************)
(* A region that was started keeps its service, while no cleanup crosses.  *)
(***************************************************************************)

\* The states of an iteration in which the service is its own.
HoldingStates ==
  {"provision", "dashboard", "stabilizing", "ready", "start", "polling", "success"}

\* An iteration either gives up what it holds, and has a cleanup only if it waits
\* for it, or it goes from one holding state to the next.
LEMMA LaneGoesOn ==
  ASSUME TypeOK, LanesAwaitCleanups, NEW l \in Lanes, LaneStep(l), ~CreateService(l)
  PROVE  /\ owner' = owner /\ desired' = desired
         /\ lane'[l] \in HoldingStates => lane[l] \in HoldingStates
         /\ cleanup'[SfnJob(l)] # "idle" => lane'[l] = "cleaning"
<1> USE LaneParts
<1> USE DEF TypeOK, LanesAwaitCleanups, HoldingStates, ecsVars
<1>1. CASE CheckRunningTests(l) \/ CreateServiceFails(l)
  BY <1>1 DEF CheckRunningTests, CreateServiceFails, MoveLane
<1>2. CASE WriteProvisioning(l) \/ CreateDashboard(l) \/ RunnerThrows(l)
  BY <1>2 DEF WriteProvisioning, CreateDashboard, RunnerThrows, MoveLane, ReturnTo
<1>3. CASE StabilizationReady(l) \/ StabilizationFailed(l) \/ SendStart(l)
            \/ RegionComplete(l)
  BY <1>3
     DEF StabilizationReady, StabilizationFailed, SendStart, RegionComplete, MoveLane
<1>4. CASE \/ CheckRunningTestsFails(l) \/ RunnerWritesFailed(l)
           \/ StabilizationThrows(l) \/ SendStartFails(l) \/ RegionTimedOut(l)
           \/ CheckCompletionFails(l)
  <2>1. CatchWithCleanup(l) /\ owner' = owner /\ desired' = desired
    BY <1>4
       DEF CheckRunningTestsFails, RunnerWritesFailed, StabilizationThrows,
           SendStartFails, RegionTimedOut, CheckCompletionFails
  <2>2. lane[l] # "cleaning"
    BY <1>4
       DEF CheckRunningTestsFails, RunnerWritesFailed, StabilizationThrows,
           SendStartFails, RegionTimedOut, CheckCompletionFails
  <2> QED
    BY <2>1, <2>2 DEF CatchWithCleanup, ReturnTo, MoveLane
<1>5. CASE LaneCleaned(l)
  BY <1>5 DEF LaneCleaned, MoveLane, Step, AfterCleanup
<1>6. CASE LaneCleanupFails(l)
  BY <1>6 DEF LaneCleanupFails
<1> QED
  BY <1>1, <1>2, <1>3, <1>4, <1>5, <1>6 DEF LaneStep, LaneWork, LaneFault

\* An iteration touches no other iteration's cleanup.
LEMMA LaneSparesOthers ==
  ASSUME TypeOK, NEW l \in Lanes, LaneStep(l), NEW k \in Lanes \ {l}
  PROVE  lane'[k] = lane[k] /\ cleanup'[SfnJob(k)] = cleanup[SfnJob(k)]
<1>1. SfnJob(k) # SfnJob(l)
  BY DEF SfnJob, Lanes
<1>2. \/ cleanup' = cleanup
      \/ \E to : cleanup' = [cleanup EXCEPT ![SfnJob(l)] = to]
  BY DEF LaneStep, LaneWork, LaneFault, CheckRunningTests, CheckRunningTestsFails,
         CreateService, CreateServiceFails, WriteProvisioning, CreateDashboard,
         RunnerThrows, RunnerWritesFailed, StabilizationReady,
         StabilizationFailed, StabilizationThrows, SendStart, SendStartFails,
         RegionComplete, RegionTimedOut, CheckCompletionFails, LaneCleaned,
         LaneCleanupFails, CatchWithCleanup, Step
<1>3. cleanup'[SfnJob(k)] = cleanup[SfnJob(k)]
  BY <1>1, <1>2, LaneParts DEF TypeOK
<1> QED
  BY <1>3, LaneMoves

\* An execution that runs was begun by this step or ran already.
LEMMA RunsGoOn ==
  ASSUME TypeOK, UpdaterAwaited, [Next]_vars, phase' = phase, NEW run \in Runs,
         Running(run)'
  PROVE  Running(run)
<1> USE DEF TypeOK, Running, EndExecution
<1>1. CASE exec' = exec
  BY <1>1
<1>2. ASSUME NEW r \in Runs, StartRun(r)
      PROVE  FALSE
  BY <1>2 DEF StartRun, EnterPhase, UpdaterAwaited
<1>3. ASSUME NEW r \in Runs, StatusSet(r) \/ StatusSetFails(r)
      PROVE  Running(run)
  BY <1>3 DEF StatusSet, StatusSetFails
<1>4. ASSUME NEW l \in Lanes, LaneCleanupFails(l)
      PROVE  Running(run)
  BY <1>4, LaneParts DEF LaneCleanupFails
<1>5. CASE StopExecution
  BY <1>5 DEF StopExecution
<1> QED
  BY <1>1, <1>2, <1>3, <1>4, <1>5, ExecWriters

\* A step of an iteration keeps the invariant.
LEMMA LaneKeeps ==
  ASSUME TypeOK, UpdaterAwaited, KeepingInvariant, [Next]_vars,
         NEW l \in Lanes, LaneStep(l)
  PROVE  KeepingInvariant'
<1> USE LaneParts
<1> USE DEF TypeOK, KeepingInvariant
<1>1. /\ \A run \in Runs : Running(run)' => Running(run)
      /\ phase' = phase /\ lane[l] # "ready"
  BY RunsGoOn, LaneMoves
<1>2. LanesAwaitCleanups'
  <2> SUFFICES ASSUME NEW k \in Lanes, cleanup'[SfnJob(k)] # "idle"
               PROVE  lane'[k] = "cleaning"
    BY DEF LanesAwaitCleanups
  <2>1. CASE k # l
    BY <2>1, LaneSparesOthers DEF LanesAwaitCleanups
  <2>2. CASE k = l /\ CreateService(l)
    BY <2>2 DEF CreateService, LanesAwaitCleanups
  <2>3. CASE k = l /\ ~CreateService(l)
    BY <2>3, LaneGoesOn
  <2> QED  BY <2>1, <2>2, <2>3
<1>3. StartsWhenReady'
  BY <1>1, LaneSparesOthers DEF StartsWhenReady
<1>4. ServicesHeld'
  <2> SUFFICES ASSUME NEW k \in Lanes, Running(k[1])', lane'[k] \in HoldingStates
               PROVE  owner'[k[2]] = k[1] /\ desired'[k[2]] = "full"
    BY DEF ServicesHeld, HoldingStates
  <2>1. lane[k] \in HoldingStates => owner[k[2]] = k[1] /\ desired[k[2]] = "full"
    BY <1>1 DEF ServicesHeld, HoldingStates
  <2>2. CASE CreateService(l)
    <3>1. /\ owner[l[2]] = NoRun /\ owner' = [owner EXCEPT ![l[2]] = l[1]]
          /\ desired' = [desired EXCEPT ![l[2]] = "full"]
      BY <2>2 DEF CreateService
    <3>2. CASE k = l
      BY <3>1, <3>2
    <3>3. CASE k # l
      BY <2>1, <3>1, <3>3, LaneSparesOthers, NoRunAssumption
    <3> QED  BY <3>2, <3>3
  <2>3. CASE ~CreateService(l)
    BY <2>1, <2>3, LaneGoesOn, LaneSparesOthers
  <2> QED  BY <2>2, <2>3
<1> QED  BY <1>2, <1>3, <1>4

\* The state machine sends START to regions that are ready, and has a region cleaned
\* by the iteration that waits for it.
LEMMA RunStepKeeps ==
  ASSUME TypeOK, UpdaterAwaited, KeepingInvariant, NEW run \in Runs, RunStep(run)
  PROVE  KeepingInvariant'
<1> USE LaneParts
<1> USE DEF TypeOK, KeepingInvariant, LanesAwaitCleanups, StartsWhenReady, ServicesHeld,
            Running
<1>1. /\ owner' = owner /\ desired' = desired
      /\ \A r \in Runs : exec'[r] = "RUNNING" => exec[r] = "RUNNING"
  BY DEF RunStep, RegionalSyncReady, RegionalSyncNotReady, EndExecutionMap,
         ParseResults, ParseResultsFails, EndCleanupMap, EndFailureMap,
         StatusSet, StatusSetFails, EndExecution, ecsVars
<1>2. CASE /\ lane' = lane /\ cleanup' = cleanup
           /\ \E to \in Phases \ {"setRunning"} : EnterPhase(run, to)
  BY <1>1, <1>2 DEF EnterPhase
<1>3. CASE \E to \in Phases \ {"setRunning"} : CleanupInEveryRegion(run, to)
  <2>1. PICK to \in Phases \ {"setRunning"} : CleanupInEveryRegion(run, to)
    BY <1>3
  <2>2. phase' = [phase EXCEPT ![run] = to]
    BY <2>1 DEF CleanupInEveryRegion, EnterPhase
  <2>3. ASSUME NEW l \in Lanes, l[1] = run
        PROVE  lane'[l] = "cleaning"
    BY <2>1, <2>3 DEF CleanupInEveryRegion, FanOut
  <2>4. ASSUME NEW l \in Lanes, l[1] # run
        PROVE  lane'[l] = lane[l] /\ cleanup'[SfnJob(l)] = cleanup[SfnJob(l)]
    BY <2>1, <2>4 DEF CleanupInEveryRegion, FanOut, InvokeCleanup, SfnJob
  <2> QED  BY <1>1, <2>2, <2>3, <2>4
<1>4. CASE RegionalSyncReady(run)
  <2>1. /\ lane' = lane /\ cleanup' = cleanup
        /\ phase' = [phase EXCEPT ![run] = "setRunning"]
        /\ \A l \in Lanes : l[1] = run => lane[l] = "ready"
    BY <1>4 DEF RegionalSyncReady, SetStatusIn, EnterPhase, LanesOf
  <2> QED  BY <1>1, <2>1
<1>5. CASE StatusSet(run) /\ phase[run] = "setRunning"
  <2>1. /\ cleanup' = cleanup
        /\ phase' = [phase EXCEPT ![run] = "execution"]
        /\ \A l \in Lanes : lane'[l] = IF l[1] = run THEN "start" ELSE lane[l]
    BY <1>5 DEF StatusSet, EnterPhase, FanOut
  <2>2. \A l \in Lanes : l[1] = run => lane[l] = "ready" /\ cleanup[SfnJob(l)] = "idle"
    BY <1>5
  <2> QED  BY <1>1, <2>1, <2>2
<1>6. CASE StatusSet(run) /\ phase[run] # "setRunning"
  BY <1>2, <1>3, <1>6 DEF StatusSet, Phases
<1>7. CASE StatusSetFails(run)
  BY <1>1, <1>7 DEF StatusSetFails
<1>8. CASE \/ RegionalSyncNotReady(run) \/ EndExecutionMap(run) \/ ParseResults(run)
           \/ ParseResultsFails(run) \/ EndCleanupMap(run) \/ EndFailureMap(run)
  BY <1>2, <1>3, <1>8
     DEF RegionalSyncNotReady, EndExecutionMap, ParseResults, ParseResultsFails,
         EndCleanupMap, EndFailureMap, SetStatusIn, Phases
<1> QED
  BY <1>4, <1>5, <1>6, <1>7, <1>8 DEF RunStep

\* A cleanup reaches the service of a region at work from nowhere: not from the
\* state machine, whose own iteration would wait for it, not from outside, where it
\* works for an execution that ended, and not from another run.
LEMMA CleanupKeeps ==
  ASSUME TypeOK, OutcomeInvariant, KeepingInvariant, NoCleanupCrossesARun, [Next]_vars,
         NEW j \in Jobs, CleanupStep(j)
  PROVE  KeepingInvariant'
<1> USE LaneParts, JobParts
<1> USE DEF TypeOK, KeepingInvariant, Step
<1>1. /\ lane' = lane /\ phase' = phase /\ exec' = exec
      /\ cleanup[j] # "idle"
      /\ \A k \in Jobs \ {j} : cleanup'[k] = cleanup[k]
  BY DEF CleanupStep, ScaleToZero, DeleteService, DeleteServiceRefused,
         RecordStatus, RecordHistory, CleanupThrows, RecordCleanupFailure,
         RetryCleanup, sfnVars
<1>2. LanesAwaitCleanups' /\ StartsWhenReady'
  BY <1>1 DEF LanesAwaitCleanups, StartsWhenReady
<1>3. ServicesHeld'
  <2>1. CASE cleanup[j] \notin {"drain", "delete"}
    <3>1. owner' = owner /\ desired' = desired
      BY <2>1
         DEF CleanupStep, ScaleToZero, DeleteService, DeleteServiceRefused,
             RecordStatus, RecordHistory, CleanupThrows, RecordCleanupFailure,
             RetryCleanup, ecsVars
    <3> QED  BY <1>1, <3>1 DEF ServicesHeld, Running
  <2>2. CASE cleanup[j] \in {"drain", "delete"}
    <3>1. \A g \in Regions \ {j[3]} : owner'[g] = owner[g] /\ desired'[g] = desired[g]
      BY DEF CleanupStep, ScaleToZero, DeleteService, DeleteServiceRefused,
             RecordStatus, RecordHistory, CleanupThrows, RecordCleanupFailure,
             RetryCleanup, ecsVars
    <3>2. ASSUME NEW l \in Lanes, Running(l[1]), lane[l] \in HoldingStates, l[2] = j[3]
          PROVE  FALSE
      <4>1. j[2] = l[1]
        BY <2>2, <3>2 DEF NoCleanupCrossesARun
      <4>2. j[1] = "sfn"
        BY <2>2, <3>2, <4>1
           DEF OutcomeInvariant, CleanupsAfterTheEnd, Ended, Running, Invokers
      <4>3. j = SfnJob(l)
        BY <3>2, <4>1, <4>2 DEF SfnJob, Jobs
      <4> QED
        BY <2>2, <3>2, <4>3 DEF LanesAwaitCleanups, HoldingStates
    <3> QED  BY <1>1, <3>1, <3>2 DEF ServicesHeld, HoldingStates, Running
  <2> QED  BY <2>1, <2>2
<1> QED  BY <1>2, <1>3

\* The other functions touch neither services nor the state machine's cleanups.
LEMMA OthersSpare ==
  ASSUME Elsewhere, \A j \in Jobs : ~CleanupStep(j)
  PROVE  /\ owner' = owner /\ desired' = desired
         /\ \A l \in Lanes : cleanup'[SfnJob(l)] = cleanup[SfnJob(l)]
<1> USE LaneParts
<1>1. ASSUME NEW run \in Runs,
             WriteQueued(run) \/ HandleFailure(run) \/ UpdaterStep(run)
      PROVE  /\ owner' = owner /\ desired' = desired
             /\ \A l \in Lanes : cleanup'[SfnJob(l)] = cleanup[SfnJob(l)]
  BY <1>1
     DEF WriteQueued, HandleFailure, UpdaterStep, UpdateScenario, UpdateHistory,
         CountRun, UpdaterThrows, InvokeCleanup, SfnJob, ecsVars
<1>2. CASE CancelerStep
  BY <1>2
     DEF CancelerStep, FindActiveExecution, NothingToCancel, StopExecution,
         WriteCancelling, PutCancelledRun, CountCancelledRun,
         InvokeCancelCleanup, RetryCanceler, InvokeCleanup, SfnJob, ecsVars
<1>3. CASE ThresholdBreached \/ CancelTest \/ UNCHANGED vars
  BY <1>3 DEF ThresholdBreached, CancelTest, vars, ecsVars
<1> QED  BY <1>1, <1>2, <1>3 DEF Elsewhere

\* Every step keeps the invariant.
LEMMA NextKeepsServices ==
  ASSUME TypeOK, OutcomeInvariant, ReleaseInvariant, KeepingInvariant,
         NoCleanupCrossesARun, [Next]_vars
  PROVE  KeepingInvariant'
<1> USE LaneParts
<1> UpdaterAwaited
  BY DEF OutcomeInvariant
<1>1. ASSUME NEW run \in Runs, StartRun(run)
      PROVE  KeepingInvariant'
  <2>1. /\ owner' = owner /\ desired' = desired /\ cleanup' = cleanup
        /\ phase' = [phase EXCEPT ![run] = "stabilization"]
        /\ \A r \in Runs \ {run} : exec'[r] = exec[r]
        /\ \A l \in Lanes : lane'[l] = IF l[1] = run THEN "check" ELSE lane[l]
    BY <1>1 DEF StartRun, EnterPhase, FanOut, ecsVars, TypeOK
  <2>2. \A l \in Lanes : l[1] = run => lane[l] = "idle"
    BY <1>1 DEF StartRun, UpdaterAwaited, ReleaseInvariant, LanesFollow
  <2> QED
    BY <2>1, <2>2
       DEF KeepingInvariant, LanesAwaitCleanups, StartsWhenReady, ServicesHeld,
           Running, TypeOK
<1>2. CASE Elsewhere /\ \A j \in Jobs : ~CleanupStep(j)
  <2>1. phase' = phase /\ lane' = lane
    BY <1>2, ElsewhereFrame
  <2>2. \A run \in Runs : Running(run)' => Running(run)
    BY <2>1, RunsGoOn
  <2> QED
    BY <1>2, <2>1, <2>2, OthersSpare
       DEF KeepingInvariant, LanesAwaitCleanups, StartsWhenReady, ServicesHeld
<1> QED
  BY <1>1, <1>2, LaneKeeps, RunStepKeeps, CleanupKeeps DEF Next, Elsewhere

\* Whatever fails and whoever cancels: a region that was started works on the
\* service of its own run, at full size, unless the cleanup of another run was at
\* work while this one ran.  Nothing that belongs to the run itself, the catches of
\* its other regions or the retries of its cleanups, takes it away.
THEOREM StartedRegionsAreSpared ==
  Spec /\ []NoCleanupCrossesARun => []StartedRegionsKeepTheirService
<1>1. Init => KeepingInvariant
  BY LaneParts
     DEF Init, KeepingInvariant, LanesAwaitCleanups, StartsWhenReady, ServicesHeld,
         Running
<1>2. /\ TypeOK /\ OutcomeInvariant /\ ReleaseInvariant /\ KeepingInvariant
      /\ NoCleanupCrossesARun
      /\ [Next]_vars
      => KeepingInvariant'
  BY NextKeepsServices
<1>3. KeepingInvariant => StartedRegionsKeepTheirService
  BY DEF KeepingInvariant, ServicesHeld, StartedRegionsKeepTheirService
<1> QED
  BY <1>1, <1>2, <1>3, TypeCorrect, Outcome, Released, PTL DEF Spec
================================================================================
