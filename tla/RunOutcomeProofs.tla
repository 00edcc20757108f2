--------------------------- MODULE RunOutcomeProofs ---------------------------
(***************************************************************************)
(* Theorems about TestExecution, continued: that a run is counted once,    *)
(* and that a run recorded as cancelled does not finish.                   *)
(***************************************************************************)
EXTENDS TestExecutionProofs

-------------------------------------------------------------------------------
(***************************************************************************)
(* The state machine waits for test-metadata-updater.                      *)
(***************************************************************************)

\* A step of a lane, a cleanup or the canceler leaves the top level alone, and
\* starts no execution.
LEMMA PhaseFrame ==
  ASSUME TypeOK,
         \/ \E l \in Lanes : LaneStep(l)
         \/ \E j \in Jobs : CleanupStep(j)
         \/ \E run \in Runs : WriteQueued(run) \/ HandleFailure(run)
         \/ ThresholdBreached \/ CancelTest \/ CancelerStep
         \/ UNCHANGED vars
  PROVE  /\ phase' = phase /\ updater' = updater
         /\ \A run \in Runs : exec'[run] = "none" => exec[run] = "none"
<1>1. ASSUME NEW l \in Lanes, LaneStep(l)
      PROVE  /\ phase' = phase /\ updater' = updater
             /\ exec' = exec \/ exec' = [exec EXCEPT ![l[1]] = "FAILED"]
  BY <1>1
     DEF LaneStep, LaneWork, LaneFault, CheckRunningTests, CheckRunningTestsFails,
         CreateService, CreateServiceFails, WriteProvisioning, CreateDashboard,
         RunnerThrows, RunnerWritesFailed, StabilizationReady,
         StabilizationFailed, StabilizationThrows, SendStart, SendStartFails,
         RegionComplete, RegionTimedOut, CheckCompletionFails, LaneCleaned,
         LaneCleanupFails, EndExecution
<1>2. ASSUME NEW j \in Jobs, CleanupStep(j)
      PROVE  phase' = phase /\ updater' = updater /\ exec' = exec
  BY <1>2
     DEF CleanupStep, ScaleToZero, DeleteService, DeleteServiceRefused,
         RecordStatus, RecordHistory, CleanupThrows, RecordCleanupFailure,
         RetryCleanup, sfnVars
<1>3. ASSUME CancelerStep
      PROVE  /\ phase' = phase /\ updater' = updater
             /\ exec' = exec \/ exec' = [exec EXCEPT ![target] = "ABORTED"]
  BY <1>3
     DEF CancelerStep, FindActiveExecution, NothingToCancel, StopExecution,
         WriteCancelling, PutCancelledRun, CountCancelledRun,
         InvokeCancelCleanup, RetryCanceler, EndExecution, sfnVars
<1>4. ASSUME NEW run \in Runs, WriteQueued(run) \/ HandleFailure(run)
      PROVE  phase' = phase /\ updater' = updater /\ exec' = exec
  BY <1>4 DEF WriteQueued, HandleFailure, sfnVars
<1>5. CASE ThresholdBreached \/ CancelTest \/ UNCHANGED vars
  BY <1>5 DEF ThresholdBreached, CancelTest, vars, sfnVars
<1> QED
  BY <1>1, <1>2, <1>3, <1>4, <1>5 DEF TypeOK

\* A step of the state machine at its top level enters a set* phase when it
\* invokes the updater, and leaves it when the updater has answered.
LEMMA RunStepAwaits ==
  ASSUME TypeOK, UpdaterAwaited, NEW run \in Runs, RunStep(run)
  PROVE  UpdaterAwaited'
<1> USE DEF TypeOK, UpdaterAwaited, SetPhases, SetStatusIn, EnterPhase,
            CleanupInEveryRegion, Running
<1>1. CASE RegionalSyncReady(run) \/ EndExecutionMap(run)
  BY <1>1 DEF RegionalSyncReady, EndExecutionMap
<1>2. CASE ParseResults(run) \/ ParseResultsFails(run)
  BY <1>2 DEF ParseResults, ParseResultsFails
<1>3. CASE EndCleanupMap(run) \/ EndFailureMap(run)
  BY <1>3 DEF EndCleanupMap, EndFailureMap
<1>4. CASE RegionalSyncNotReady(run)
  BY <1>4 DEF RegionalSyncNotReady
<1>5. CASE StatusSet(run)
  BY <1>5 DEF StatusSet, EndExecution
<1>6. CASE StatusSetFails(run)
  BY <1>6 DEF StatusSetFails, EndExecution
<1> QED  BY <1>1, <1>2, <1>3, <1>4, <1>5, <1>6 DEF RunStep

\* No step has an updater work when the state machine does not wait for it.
LEMMA NextKeepsAwaited ==
  ASSUME TypeOK, UpdaterAwaited, [Next]_vars PROVE UpdaterAwaited'
<1>1. ASSUME NEW run \in Runs, StartRun(run)
      PROVE  UpdaterAwaited'
  BY <1>1 DEF StartRun, EnterPhase, TypeOK, UpdaterAwaited, SetPhases
<1>2. ASSUME NEW run \in Runs, UpdaterStep(run)
      PROVE  UpdaterAwaited'
  BY <1>2
     DEF UpdaterStep, UpdateScenario, UpdateHistory, CountRun, UpdaterThrows,
         TypeOK, UpdaterAwaited, SetPhases, sfnVars
<1>3. CASE phase' = phase /\ updater' = updater
             /\ \A run \in Runs : exec'[run] = "none" => exec[run] = "none"
  BY <1>3 DEF UpdaterAwaited
<1> QED
  BY <1>1, <1>2, <1>3, RunStepAwaits, PhaseFrame DEF Next

\* An updater only works while the state machine waits for it.
LEMMA Awaited == Spec => [](TypeOK /\ UpdaterAwaited)
<1>1. Init => UpdaterAwaited
  BY DEF Init, UpdaterAwaited
<1>2. TypeOK /\ UpdaterAwaited /\ [Next]_vars => UpdaterAwaited'
  BY NextKeepsAwaited
<1> QED  BY <1>1, <1>2, TypeCorrect, PTL DEF Spec

-------------------------------------------------------------------------------
(***************************************************************************)
(* The run counter.                                                        *)
(***************************************************************************)

\* The two sets RunsCountedOnce counts are finite.
LEMMA CountedSetsFinite ==
  /\ IsFiniteSet(UpdatersCounting)
  /\ Cardinality(UpdatersCounting) \in Nat
  /\ IsFiniteSet(RecordedRuns)
  /\ Cardinality(RecordedRuns) \in Nat
<1>1. UpdatersCounting \in SUBSET Runs /\ RecordedRuns \in SUBSET Runs
  BY DEF UpdatersCounting, RecordedRuns
<1>2. IsFiniteSet(UpdatersCounting) /\ IsFiniteSet(RecordedRuns)
  BY <1>1, RunsAssumption, FS_Subset
<1> QED  BY <1>2, FS_CardinalityType

\* Steps other than the four that record or count a run leave the ledger alone.
LEMMA LedgerFrame ==
  ASSUME TypeOK, UpdaterAwaited, [Next]_vars,
         \A run \in Runs : ~UpdateHistory(run) /\ ~CountRun(run),
         ~PutCancelledRun, ~CountCancelledRun
  PROVE  /\ totalTestRuns' = totalTestRuns /\ uncounted' = uncounted
         /\ UpdatersCounting' = UpdatersCounting
         /\ RecordedRuns' = RecordedRuns
         /\ canceler' = "count" <=> canceler = "count"
<1> USE DEF TypeOK
<1>1. RecordedRuns' = RecordedRuns
  <2>1. CASE history' = history
    BY <2>1 DEF RecordedRuns
  <2>2. ASSUME NEW j \in Jobs, RecordHistory(j) \/ RecordCleanupFailure(j)
        PROVE  RecordedRuns' = RecordedRuns
    <3>1. PICK new \in Status :
            \/ history' = history
            \/ history' = [history EXCEPT ![j[2]] = CleanupHistoryWrite(@, new)]
      BY <2>2, WrittenStatuses DEF RecordHistory, RecordCleanupFailure
    <3>2. \A run \in Runs : history'[run] # Absent <=> history[run] # Absent
      BY <3>1, JobParts, WritesAndAbsence
    <3> QED  BY <3>2 DEF RecordedRuns
  <2> QED  BY <2>1, <2>2, HistoryWriters
<1>2. /\ totalTestRuns' = totalTestRuns /\ uncounted' = uncounted
      /\ canceler' = "count" <=> canceler = "count"
      /\ UpdatersCounting' = UpdatersCounting
  <2>1. ASSUME NEW l \in Lanes, LaneStep(l)
        PROVE  UNCHANGED <<totalTestRuns, uncounted, canceler, updater>>
    BY <2>1
       DEF LaneStep, LaneWork, LaneFault, CheckRunningTests, CheckRunningTestsFails,
           CreateService, CreateServiceFails, WriteProvisioning,
           CreateDashboard, RunnerThrows, RunnerWritesFailed,
           StabilizationReady, StabilizationFailed, StabilizationThrows,
           SendStart, SendStartFails, RegionComplete, RegionTimedOut,
           CheckCompletionFails, LaneCleaned, LaneCleanupFails, tableVars,
           cancelVars
  <2>2. ASSUME NEW j \in Jobs, CleanupStep(j)
        PROVE  UNCHANGED <<totalTestRuns, uncounted, canceler, updater>>
    BY <2>2
       DEF CleanupStep, ScaleToZero, DeleteService, DeleteServiceRefused,
           RecordStatus, RecordHistory, CleanupThrows, RecordCleanupFailure,
           RetryCleanup, tableVars, cancelVars
  <2>3. ASSUME NEW run \in Runs, RunStep(run)
        PROVE  /\ UNCHANGED <<totalTestRuns, uncounted, canceler>>
               /\ updater[run] # "count" /\ updater'[run] # "count"
               /\ \A r \in Runs \ {run} : updater'[r] = updater[r]
    <3>1. UNCHANGED <<totalTestRuns, uncounted, canceler>>
      BY <2>3
         DEF RunStep, RegionalSyncReady, RegionalSyncNotReady, EndExecutionMap,
             ParseResults, ParseResultsFails, EndCleanupMap, EndFailureMap,
             StatusSet, StatusSetFails, tableVars, cancelVars
    <3>2. CASE updater' = updater /\ updater[run] # "count"
      BY <3>1, <3>2
    <3>3. ASSUME NEW to, SetStatusIn(run, to), phase[run] \notin SetPhases
          PROVE  /\ updater[run] # "count" /\ updater'[run] # "count"
                 /\ \A r \in Runs \ {run} : updater'[r] = updater[r]
      BY <3>3 DEF SetStatusIn, UpdaterAwaited
    <3>4. CASE StatusSet(run)
      BY <2>3, <3>1, <3>4 DEF StatusSet
    <3>5. CASE \/ RegionalSyncReady(run) \/ EndExecutionMap(run)
               \/ ParseResults(run) \/ ParseResultsFails(run)
               \/ EndCleanupMap(run) \/ EndFailureMap(run)
      BY <3>1, <3>2, <3>3, <3>5
         DEF RegionalSyncReady, EndExecutionMap, ParseResults,
             ParseResultsFails, EndCleanupMap, EndFailureMap, SetPhases,
             UpdaterAwaited
    <3>6. CASE RegionalSyncNotReady(run) \/ StatusSetFails(run)
      BY <3>2, <3>6
         DEF RegionalSyncNotReady, StatusSetFails, SetPhases, UpdaterAwaited
    <3> QED  BY <2>3, <3>1, <3>4, <3>5, <3>6 DEF RunStep
  <2>4. ASSUME NEW run \in Runs, UpdateScenario(run) \/ UpdaterThrows(run)
        PROVE  /\ UNCHANGED <<totalTestRuns, uncounted, canceler>>
               /\ updater[run] # "count" /\ updater'[run] # "count"
               /\ \A r \in Runs \ {run} : updater'[r] = updater[r]
    BY <2>4 DEF UpdateScenario, UpdaterThrows, tableVars, cancelVars
  <2>5. ASSUME NEW run \in Runs,
               StartRun(run) \/ WriteQueued(run) \/ HandleFailure(run)
        PROVE  UNCHANGED <<totalTestRuns, uncounted, canceler, updater>>
    BY <2>5 DEF StartRun, WriteQueued, HandleFailure, tableVars, cancelVars
  <2>6. CASE CancelerStep \/ ThresholdBreached \/ CancelTest \/ UNCHANGED vars
    BY <2>6
       DEF CancelerStep, FindActiveExecution, NothingToCancel, StopExecution,
           WriteCancelling, InvokeCancelCleanup, RetryCanceler,
           ThresholdBreached, CancelTest, UpdatersCounting, vars, tableVars,
           cancelVars
  <2> QED
    BY <2>1, <2>2, <2>3, <2>4, <2>5, <2>6 DEF Next, UpdaterStep, UpdatersCounting
<1> QED  BY <1>1, <1>2

\* Each step that records a run leaves one that counts it to be taken, and each
\* step that counts takes one away.
LEMMA CountStep ==
  ASSUME TypeOK, UpdaterAwaited, [Next]_vars, RunsCountedOnce
  PROVE  RunsCountedOnce'
<1> USE CountedSetsFinite
<1> USE DEF TypeOK
<1>1. ASSUME NEW run \in Runs, UpdateHistory(run)
      PROVE  RunsCountedOnce'
  <2>1. history'[run] # Absent
    BY <1>1, WritesAndAbsence, WrittenStatuses DEF UpdateHistory
  <2>2. /\ UNCHANGED <<totalTestRuns, uncounted, canceler>>
        /\ RecordedRuns' = RecordedRuns \cup {run}
        /\ run \notin UpdatersCounting
    BY <1>1, <2>1 DEF UpdateHistory, RecordedRuns, UpdatersCounting, cancelVars
  <2>3. CASE history[run] = Absent
    <3>1. UpdatersCounting' = UpdatersCounting \cup {run} /\ run \notin RecordedRuns
      BY <1>1, <2>3 DEF UpdateHistory, UpdatersCounting, RecordedRuns
    <3>2. /\ Cardinality(RecordedRuns') = Cardinality(RecordedRuns) + 1
          /\ Cardinality(UpdatersCounting') = Cardinality(UpdatersCounting) + 1
      BY <2>2, <3>1, FS_AddElement
    <3> QED  BY <2>2, <3>2 DEF RunsCountedOnce
  <2>4. CASE history[run] # Absent
    BY <1>1, <2>2, <2>4
       DEF UpdateHistory, RunsCountedOnce, UpdatersCounting, RecordedRuns
  <2> QED  BY <2>3, <2>4
<1>2. ASSUME NEW run \in Runs, CountRun(run)
      PROVE  RunsCountedOnce'
  <2>1. /\ canceler' = canceler
        /\ RecordedRuns' = RecordedRuns
        /\ run \in UpdatersCounting
        /\ UpdatersCounting' = UpdatersCounting \ {run}
    BY <1>2 DEF CountRun, UpdatersCounting, RecordedRuns, cancelVars
  <2>2. Cardinality(UpdatersCounting') = Cardinality(UpdatersCounting) - 1
    BY <2>1, FS_RemoveElement
  <2>3. CASE totalTestRuns' = totalTestRuns + 1 /\ uncounted' = uncounted
    BY <2>1, <2>2, <2>3 DEF RunsCountedOnce
  <2>4. CASE totalTestRuns' = totalTestRuns /\ uncounted' = uncounted + 1
    BY <2>1, <2>2, <2>4 DEF RunsCountedOnce
  <2> QED  BY <1>2, <2>3, <2>4 DEF CountRun, IncrementTestRunCount
<1>3. CASE PutCancelledRun
  <2>1. /\ UNCHANGED <<totalTestRuns, uncounted>> /\ target \in Runs
        /\ UpdatersCounting' = UpdatersCounting
    BY <1>3 DEF PutCancelledRun, UpdatersCounting
  <2>2. CASE history[target] = Absent
    <3>1. target \notin RecordedRuns /\ RecordedRuns' = RecordedRuns \cup {target}
      BY <1>3, <2>1, <2>2 DEF PutCancelledRun, RecordedRuns, Absent
    <3>2. Cardinality(RecordedRuns') = Cardinality(RecordedRuns) + 1
      BY <3>1, FS_AddElement
    <3> QED  BY <1>3, <2>1, <2>2, <3>2 DEF PutCancelledRun, RunsCountedOnce
  <2>3. CASE history[target] # Absent
    BY <1>3, <2>1, <2>3 DEF PutCancelledRun, RunsCountedOnce, RecordedRuns
  <2> QED  BY <2>2, <2>3
<1>4. CASE CountCancelledRun
  BY <1>4
     DEF CountCancelledRun, IncrementTestRunCount, RunsCountedOnce, UpdatersCounting,
         RecordedRuns
<1>5. CASE /\ \A run \in Runs : ~UpdateHistory(run) /\ ~CountRun(run)
           /\ ~PutCancelledRun /\ ~CountCancelledRun
  BY <1>5, LedgerFrame DEF RunsCountedOnce
<1> QED  BY <1>1, <1>2, <1>3, <1>4, <1>5

\* At first there is nothing to count.
LEMMA CountAtFirst == ASSUME Init PROVE RunsCountedOnce
<1>1. UpdatersCounting = {} /\ RecordedRuns = {}
  BY DEF Init, UpdatersCounting, RecordedRuns
<1> QED  BY <1>1, FS_EmptySet DEF Init, RunsCountedOnce

\* totalTestRuns never counts a run twice and misses none but those whose increment
\* failed: the updater and the canceler may race for a run's history item, and the
\* one that finds none is the one, and the only one, that increments.
THEOREM EveryRunCountedOnce == Spec => []RunsCountedOnce
<1>1. Init => RunsCountedOnce
  BY CountAtFirst
<1>2. TypeOK /\ UpdaterAwaited /\ RunsCountedOnce /\ [Next]_vars => RunsCountedOnce'
  BY CountStep
<1> QED  BY <1>1, <1>2, Awaited, PTL DEF Spec

-------------------------------------------------------------------------------
(***************************************************************************)
(* A run recorded as cancelled does not finish.  OutcomeInvariant is the   *)
(* inductive invariant.                                                    *)
(***************************************************************************)

\* How a step may change an execution: it starts, it succeeds when its last
\* update has returned, or it fails or is stopped while running.
Succeeds(run) ==
  /\ exec[run] = "RUNNING" /\ exec'[run] = "SUCCEEDED"
  /\ phase[run] \in {"setComplete", "setFailed"} /\ updater[run] = "returned"

ExecMoves(run) ==
  \/ exec'[run] = exec[run]
  \/ exec[run] = "none" /\ exec'[run] = "RUNNING"
  \/ exec[run] = "RUNNING" /\ exec'[run] \in {"FAILED", "ABORTED"}
  \/ Succeeds(run)

EventMoves ==
  \A run \in events' : run \in events \/ exec'[run] \in {"FAILED", "ABORTED"}

\* The steps that end no execution.
LEMMA LaneExecMoves ==
  ASSUME TypeOK, NEW l \in Lanes, LaneStep(l)
  PROVE  EventMoves /\ \A run \in Runs : ExecMoves(run)
<1> USE DEF TypeOK, EventMoves, ExecMoves
<1>1. CASE LaneCleanupFails(l)
  BY <1>1, LaneParts DEF LaneCleanupFails, EndExecution, Running
<1>2. CASE ~LaneCleanupFails(l)
  <2>1. UNCHANGED <<exec, events>>
    BY <1>2
       DEF LaneStep, LaneWork, LaneFault, CheckRunningTests, CheckRunningTestsFails,
           CreateService, CreateServiceFails, WriteProvisioning,
           CreateDashboard, RunnerThrows, RunnerWritesFailed,
           StabilizationReady, StabilizationFailed, StabilizationThrows,
           SendStart, SendStartFails, RegionComplete, RegionTimedOut,
           CheckCompletionFails, LaneCleaned
  <2> QED  BY <2>1
<1> QED  BY <1>1, <1>2

\* A step of a run's top-level states moves an execution as ExecMoves says.
LEMMA RunExecMoves ==
  ASSUME TypeOK, NEW run \in Runs, RunStep(run)
  PROVE  EventMoves /\ \A r \in Runs : ExecMoves(r)
<1> USE DEF TypeOK, EventMoves, ExecMoves
<1>1. CASE StatusSet(run)
  BY <1>1 DEF StatusSet, EndExecution, Running, Succeeds
<1>2. CASE StatusSetFails(run)
  BY <1>2 DEF StatusSetFails, EndExecution, Running
<1>3. CASE ~StatusSet(run) /\ ~StatusSetFails(run)
  <2>1. UNCHANGED <<exec, events>>
    BY <1>3
       DEF RunStep, RegionalSyncReady, RegionalSyncNotReady, EndExecutionMap,
           ParseResults, ParseResultsFails, EndCleanupMap, EndFailureMap
  <2> QED  BY <2>1
<1> QED  BY <1>1, <1>2, <1>3

\* So does every other step.
LEMMA AllExecMoves ==
  ASSUME TypeOK, [Next]_vars
  PROVE  EventMoves /\ \A run \in Runs : ExecMoves(run)
<1> USE DEF TypeOK, EventMoves, ExecMoves
<1>1. ASSUME NEW run \in Runs, StartRun(run)
      PROVE  EventMoves /\ \A r \in Runs : ExecMoves(r)
  BY <1>1 DEF StartRun
<1>2. ASSUME NEW run \in Runs, HandleFailure(run)
      PROVE  EventMoves /\ \A r \in Runs : ExecMoves(r)
  BY <1>2 DEF HandleFailure
<1>3. ASSUME NEW run \in Runs, WriteQueued(run) \/ UpdaterStep(run)
      PROVE  UNCHANGED <<exec, events>>
  BY <1>3
     DEF WriteQueued, UpdaterStep, UpdateScenario, UpdateHistory, CountRun,
         UpdaterThrows, sfnVars
<1>4. ASSUME NEW j \in Jobs, CleanupStep(j)
      PROVE  UNCHANGED <<exec, events>>
  BY <1>4
     DEF CleanupStep, ScaleToZero, DeleteService, DeleteServiceRefused,
         RecordStatus, RecordHistory, CleanupThrows, RecordCleanupFailure,
         RetryCleanup, sfnVars
<1>5. CASE StopExecution
  BY <1>5 DEF StopExecution, EndExecution, Running
<1>6. CASE CancelerStep /\ ~StopExecution
  <2>1. UNCHANGED <<exec, events>>
    BY <1>6
       DEF CancelerStep, FindActiveExecution, NothingToCancel, WriteCancelling,
           PutCancelledRun, CountCancelledRun, InvokeCancelCleanup,
           RetryCanceler, sfnVars
  <2> QED  BY <2>1
<1>7. CASE ThresholdBreached \/ CancelTest \/ UNCHANGED vars
  BY <1>7 DEF ThresholdBreached, CancelTest, vars, sfnVars
<1> QED
  BY <1>1, <1>2, <1>3, <1>4, <1>5, <1>6, <1>7, LaneExecMoves, RunExecMoves
     DEF Next

-------------------------------------------------------------------------------
(***************************************************************************)
(* The conjuncts of OutcomeInvariant.                                      *)
(***************************************************************************)

\* The last status update of an execution makes the history item final before
\* it returns.
LEMMA FinalUpdateStep ==
  ASSUME TypeOK, OutcomeInvariant, [Next]_vars
  PROVE  FinalUpdateRecorded'
<1> USE DEF TypeOK
<1> FinalUpdateRecorded /\ UpdaterAwaited
  BY DEF OutcomeInvariant
<1>1. CASE phase' = phase /\ updater' = updater
  BY <1>1, HistoryStep DEF FinalUpdateRecorded
<1>2. ASSUME NEW run \in Runs, UpdateHistory(run)
      PROVE  FinalUpdateRecorded'
  <2>1. phase' = phase /\ \A r \in Runs \ {run} : updater'[r] = updater[r]
    BY <1>2 DEF UpdateHistory, sfnVars
  <2>2. phase[run] \in {"setComplete", "setFailed"} => history'[run] \in Terminal
    BY <1>2 DEF UpdateHistory, MetadataWrite, StatusSetIn, Terminal
  <2> QED  BY <2>1, <2>2, HistoryStep DEF FinalUpdateRecorded
<1>3. ASSUME NEW run \in Runs,
             CountRun(run) \/ UpdateScenario(run) \/ UpdaterThrows(run)
      PROVE  FinalUpdateRecorded'
  <2>1. /\ phase' = phase /\ \A r \in Runs \ {run} : updater'[r] = updater[r]
        /\ updater'[run] \in {"count", "returned"}
             => updater[run] \in {"count", "returned"}
    BY <1>3 DEF CountRun, UpdateScenario, UpdaterThrows, sfnVars
  <2> QED  BY <2>1, HistoryStep DEF FinalUpdateRecorded
<1>4. ASSUME NEW run \in Runs, RunStep(run)
      PROVE  FinalUpdateRecorded'
  <2>1. \A r \in Runs \ {run} : phase'[r] = phase[r] /\ updater'[r] = updater[r]
    BY <1>4
       DEF RunStep, RegionalSyncReady, RegionalSyncNotReady, EndExecutionMap,
           ParseResults, ParseResultsFails, EndCleanupMap, EndFailureMap,
           StatusSet, StatusSetFails, SetStatusIn, EnterPhase,
           CleanupInEveryRegion
  <2>2. updater'[run] \notin {"count", "returned"}
    <3>1. CASE \/ RegionalSyncReady(run) \/ EndExecutionMap(run)
               \/ ParseResults(run) \/ EndCleanupMap(run) \/ EndFailureMap(run)
      BY <3>1
         DEF RegionalSyncReady, EndExecutionMap, ParseResults, EndCleanupMap,
             EndFailureMap, SetStatusIn
    <3>2. CASE ParseResultsFails(run)
      BY <3>2 DEF ParseResultsFails, SetStatusIn, UpdaterAwaited, SetPhases
    <3>3. CASE RegionalSyncNotReady(run)
      BY <3>3 DEF RegionalSyncNotReady, UpdaterAwaited, SetPhases
    <3>4. CASE StatusSet(run) \/ StatusSetFails(run)
      BY <3>4 DEF StatusSet, StatusSetFails
    <3> QED  BY <1>4, <3>1, <3>2, <3>3, <3>4 DEF RunStep
  <2> QED  BY <2>1, <2>2, HistoryStep DEF FinalUpdateRecorded
<1>5. ASSUME NEW run \in Runs, StartRun(run)
      PROVE  FinalUpdateRecorded'
  BY <1>5, HistoryStep DEF StartRun, EnterPhase, FinalUpdateRecorded
<1> QED
  BY <1>1, <1>2, <1>3, <1>4, <1>5, PhaseFrame DEF Next, UpdaterStep

\* An execution that succeeds is recorded already, and not as cancelled.
LEMMA SuccessStep ==
  ASSUME TypeOK, OutcomeInvariant, [Next]_vars
  PROVE  SuccessRecorded'
<1> SUFFICES ASSUME NEW run \in Runs, exec'[run] = "SUCCEEDED"
             PROVE  history'[run] \in Terminal \ {"cancelled"}
  BY DEF SuccessRecorded
<1>1. CASE exec[run] = "SUCCEEDED"
  BY <1>1, HistoryStep DEF OutcomeInvariant, SuccessRecorded
<1>2. CASE Succeeds(run)
  <2>1. history[run] \in Terminal
    BY <1>2 DEF OutcomeInvariant, FinalUpdateRecorded, Succeeds
  <2>2. history[run] # "cancelled"
    BY <1>2 DEF OutcomeInvariant, CancelledRunsDoNotFinish, Succeeds
  <2> QED  BY <2>1, <2>2, HistoryStep
<1> QED  BY <1>1, <1>2, AllExecMoves DEF ExecMoves

\* A run becomes cancelled by a cleanup of an execution that did not succeed.
LEMMA CancelledStep ==
  ASSUME TypeOK, OutcomeInvariant, [Next]_vars
  PROVE  CancelledRunsDoNotFinish'
<1> USE DEF TypeOK
<1> SUFFICES ASSUME NEW run \in Runs, history'[run] = "cancelled"
             PROVE  exec'[run] \in {"ABORTED", "FAILED"}
  BY DEF CancelledRunsDoNotFinish
<1>1. CASE history[run] = "cancelled"
  BY <1>1, AllExecMoves
     DEF OutcomeInvariant, CancelledRunsDoNotFinish, ExecMoves, Succeeds
<1>2. CASE history[run] # "cancelled"
  <2>1. ASSUME NEW r \in Runs, UpdateHistory(r)
        PROVE  FALSE
    BY <1>2, <2>1 DEF UpdateHistory, MetadataWrite, StatusSetIn
  <2>2. ASSUME PutCancelledRun
        PROVE  FALSE
    BY <1>2, <2>2 DEF PutCancelledRun
  <2>3. ASSUME NEW j \in Jobs, RecordCleanupFailure(j)
        PROVE  FALSE
    BY <1>2, <2>3, JobParts
       DEF RecordCleanupFailure, CleanupHistoryWrite, CleanupWrite, Absent
  <2>4. ASSUME NEW j \in Jobs, RecordHistory(j)
        PROVE  exec'[run] \in {"ABORTED", "FAILED"}
    <3>1. j[2] = run /\ FinalStatus(j) = "cancelled" /\ history[run] \notin Terminal
      BY <1>2, <2>4, JobParts, WritesKeepTerminal
         DEF RecordHistory, CleanupHistoryWrite, CleanupWrite, CleanupMayWrite,
             Absent
    <3>2. exec[run] # "SUCCEEDED"
      BY <3>1 DEF OutcomeInvariant, SuccessRecorded
    <3>3. cleanup[j] = "history" /\ exec' = exec
      BY <2>4 DEF RecordHistory, sfnVars
    <3>4. exec[run] \in {"ABORTED", "FAILED"}
      BY <3>1, <3>2, <3>3, JobParts
         DEF OutcomeInvariant, CleanupsAfterTheEnd, Invokers, Ended
    <3> QED  BY <3>3, <3>4
  <2> QED  BY <1>2, <2>1, <2>2, <2>3, <2>4, HistoryWriters
<1> QED  BY <1>1, <1>2

\* An execution that has ended stays ended, and one that was started stays
\* started.
LEMMA EndIsFinal ==
  ASSUME TypeOK, [Next]_vars, NEW run \in Runs
  PROVE  /\ exec[run] # "none" => exec'[run] # "none"
         /\ exec[run] \in Ended => exec'[run] = exec[run]
  BY AllExecMoves DEF ExecMoves, Succeeds, Ended

\* The canceler's target has ended once StopExecution has returned.
LEMMA TargetStep ==
  ASSUME TypeOK, OutcomeInvariant, [Next]_vars
  PROVE  TargetEnded'
<1> USE DEF TypeOK
<1> TargetEnded
  BY DEF OutcomeInvariant
<1>1. CASE canceler' = canceler /\ target' = target
  BY <1>1, EndIsFinal DEF TargetEnded
<1>2. CASE FindActiveExecution
  BY <1>2 DEF FindActiveExecution, TargetEnded, Running, sfnVars
<1>3. CASE StopExecution
  BY <1>3
     DEF StopExecution, EndExecution, TargetEnded, Running, Ended, ExecStatus
<1>4. CASE WriteCancelling \/ PutCancelledRun \/ CountCancelledRun
  <2>1. /\ canceler \in {"cancelling", "history", "count"}
        /\ target' = target
    BY <1>4 DEF WriteCancelling, PutCancelledRun, CountCancelledRun
  <2>2. target \in Runs /\ exec[target] \in Ended
    BY <2>1 DEF TargetEnded
  <2>3. exec'[target'] \in Ended
    BY <2>1, <2>2, EndIsFinal
  <2> QED  BY <2>3 DEF TargetEnded, Ended
<1>5. CASE NothingToCancel \/ InvokeCancelCleanup \/ RetryCanceler \/ CancelTest
  <2>1. canceler' \in {"idle", "find"}
    BY <1>5 DEF NothingToCancel, InvokeCancelCleanup, RetryCanceler, CancelTest
  <2> QED  BY <2>1 DEF TargetEnded
<1>6. ASSUME NEW l \in Lanes, LaneStep(l)
      PROVE  UNCHANGED <<canceler, target>>
  BY <1>6
     DEF LaneStep, LaneWork, LaneFault, CheckRunningTests, CheckRunningTestsFails,
         CreateService, CreateServiceFails, WriteProvisioning, CreateDashboard,
         RunnerThrows, RunnerWritesFailed, StabilizationReady,
         StabilizationFailed, StabilizationThrows, SendStart, SendStartFails,
         RegionComplete, RegionTimedOut, CheckCompletionFails, LaneCleaned,
         LaneCleanupFails, cancelVars
<1>7. ASSUME NEW run \in Runs,
             \/ StartRun(run) \/ WriteQueued(run) \/ RunStep(run)
             \/ UpdaterStep(run) \/ HandleFailure(run)
      PROVE  UNCHANGED <<canceler, target>>
  BY <1>7
     DEF StartRun, WriteQueued, HandleFailure, RunStep, RegionalSyncReady,
         RegionalSyncNotReady, EndExecutionMap, ParseResults,
         ParseResultsFails, EndCleanupMap, EndFailureMap, StatusSet,
         StatusSetFails, UpdaterStep, UpdateScenario, UpdateHistory, CountRun,
         UpdaterThrows, cancelVars
<1>8. ASSUME NEW j \in Jobs, CleanupStep(j)
      PROVE  UNCHANGED <<canceler, target>>
  BY <1>8
     DEF CleanupStep, ScaleToZero, DeleteService, DeleteServiceRefused,
         RecordStatus, RecordHistory, CleanupThrows, RecordCleanupFailure,
         RetryCleanup, cancelVars
<1>9. CASE ThresholdBreached \/ UNCHANGED vars
  BY <1>1, <1>9 DEF ThresholdBreached, vars, cancelVars
<1> QED
  BY <1>1, <1>2, <1>3, <1>4, <1>5, <1>6, <1>7, <1>8, <1>9 DEF Next, CancelerStep

\* What CleanupsAfterTheEnd says of one job.
JobAfterTheEnd(j) ==
  cleanup[j] # "idle" =>
    /\ j[1] = "canceler" => exec[j[2]] \in Ended
    /\ j[1] = "handler" => exec[j[2]] \in {"FAILED", "ABORTED"}
    /\ j[1] = "sfn" => cleanup[j] # "history"

\* A job nobody touches is as it was; one that is invoked by the state machine,
\* or drains anew, is not about to write a final status.
LEMMA JobKept ==
  ASSUME TypeOK, OutcomeInvariant, [Next]_vars, NEW j \in Jobs,
         \/ cleanup'[j] = cleanup[j]
         \/ cleanup'[j] = "idle"
         \/ j[1] = "sfn" /\ cleanup'[j] # "history"
         \/ cleanup[j] # "idle" /\ cleanup'[j] # "history"
         \/ cleanup[j] # "idle" /\ j[1] # "sfn"
  PROVE  JobAfterTheEnd(j)'
<1>1. JobAfterTheEnd(j)
  BY DEF OutcomeInvariant, CleanupsAfterTheEnd, JobAfterTheEnd
<1>2. j[2] \in Runs
  BY JobParts
<1> QED
  BY <1>1, <1>2, EndIsFinal DEF JobAfterTheEnd, Ended

\* The canceler invokes cleanups for a target that has ended, the failure
\* handler for an execution that did not succeed.
LEMMA CleanupsStep ==
  ASSUME TypeOK, OutcomeInvariant, [Next]_vars
  PROVE  CleanupsAfterTheEnd'
<1> USE DEF TypeOK
<1>1. ASSUME NEW run \in events'
      PROVE  exec'[run] \in {"FAILED", "ABORTED"}
  <2>1. CASE run \in events
    BY <2>1, EndIsFinal DEF OutcomeInvariant, CleanupsAfterTheEnd, Ended
  <2>2. CASE run \notin events
    BY <2>2, <1>1, AllExecMoves DEF EventMoves
  <2> QED  BY <2>1, <2>2
<1>2. ASSUME NEW j \in Jobs
      PROVE  JobAfterTheEnd(j)'
  <2> USE JobParts
  <2>1. ASSUME NEW l \in Lanes, LaneStep(l)
        PROVE  \/ cleanup'[j] = cleanup[j]
               \/ j[1] = "sfn" /\ cleanup'[j] # "history"
    <3>1. \/ cleanup' = cleanup
          \/ CatchWithCleanup(l)
          \/ Step(SfnJob(l), "idle")
      BY <2>1
         DEF LaneStep, LaneWork, LaneFault, CheckRunningTests, CheckRunningTestsFails,
             CreateService, CreateServiceFails, WriteProvisioning,
             CreateDashboard, RunnerThrows, RunnerWritesFailed,
             StabilizationReady, StabilizationFailed, StabilizationThrows,
             SendStart, SendStartFails, RegionComplete, RegionTimedOut,
             CheckCompletionFails, LaneCleaned, LaneCleanupFails
    <3>2. CASE cleanup' = cleanup
      BY <3>2
    <3>3. CASE j # SfnJob(l) /\ cleanup' # cleanup
      BY <3>1, <3>3 DEF CatchWithCleanup, Step
    <3>4. CASE j = SfnJob(l)
      <4>1. j[1] = "sfn"
        BY <3>4 DEF SfnJob
      <4> QED
        BY <3>1, <3>4, <4>1, LaneParts DEF CatchWithCleanup, Step
    <3> QED  BY <3>2, <3>3, <3>4
  <2>2. ASSUME NEW run \in Runs, RunStep(run)
        PROVE  \/ cleanup'[j] = cleanup[j]
               \/ j[1] = "sfn" /\ cleanup'[j] # "history"
    <3>1. \/ cleanup' = cleanup
          \/ InvokeCleanup("sfn", run, Regions)
      BY <2>2
         DEF RunStep, RegionalSyncReady, RegionalSyncNotReady, EndExecutionMap,
             ParseResults, ParseResultsFails, EndCleanupMap, EndFailureMap,
             StatusSet, StatusSetFails, CleanupInEveryRegion
    <3> QED  BY <3>1 DEF InvokeCleanup
  <2>3. ASSUME NEW i \in Jobs, CleanupStep(i)
        PROVE  \/ cleanup'[j] = cleanup[j]
               \/ cleanup[j] # "idle" /\ cleanup'[j] # "history"
               \/ cleanup[j] # "idle" /\ j[1] # "sfn"
    BY <2>3
       DEF CleanupStep, ScaleToZero, DeleteService, DeleteServiceRefused,
           RecordStatus, RecordHistory, CleanupThrows, RecordCleanupFailure,
           RetryCleanup, Step
  <2>4. ASSUME NEW run \in Runs, HandleFailure(run)
        PROVE  JobAfterTheEnd(j)'
    <3>1. CASE cleanup'[j] = cleanup[j]
      BY <3>1, JobKept
    <3>2. CASE cleanup'[j] # cleanup[j]
      <4>1. j[1] = "handler" /\ j[2] = run /\ run \in events /\ exec' = exec
        BY <2>4, <3>2 DEF HandleFailure, InvokeCleanup
      <4>2. exec'[j[2]] \in {"FAILED", "ABORTED"}
        BY <4>1 DEF OutcomeInvariant, CleanupsAfterTheEnd
      <4> QED  BY <4>1, <4>2 DEF JobAfterTheEnd
    <3> QED  BY <3>1, <3>2
  <2>5. CASE InvokeCancelCleanup
    <3>1. CASE cleanup'[j] = cleanup[j]
      BY <3>1, JobKept
    <3>2. CASE cleanup'[j] # cleanup[j]
      <4>1. j[1] = "canceler" /\ j[2] = target /\ canceler = "invoke"
        BY <2>5, <3>2 DEF InvokeCancelCleanup, InvokeCleanup
      <4>2. exec'[j[2]] \in Ended
        BY <4>1, EndIsFinal DEF OutcomeInvariant, TargetEnded
      <4> QED  BY <4>1, <4>2 DEF JobAfterTheEnd
    <3> QED  BY <3>1, <3>2
  <2>6. CASE CancelerStep /\ ~InvokeCancelCleanup
    <3>1. cleanup' = cleanup
      BY <2>6
         DEF CancelerStep, FindActiveExecution, NothingToCancel, StopExecution,
             WriteCancelling, PutCancelledRun, CountCancelledRun, RetryCanceler
    <3> QED  BY <3>1, JobKept
  <2>7. ASSUME NEW run \in Runs,
               StartRun(run) \/ WriteQueued(run) \/ UpdaterStep(run)
        PROVE  cleanup' = cleanup
    BY <2>7
       DEF StartRun, WriteQueued, UpdaterStep, UpdateScenario, UpdateHistory,
           CountRun, UpdaterThrows
  <2>8. CASE ThresholdBreached \/ CancelTest \/ UNCHANGED vars
    <3>1. cleanup' = cleanup
      BY <2>8 DEF ThresholdBreached, CancelTest, vars
    <3> QED  BY <3>1, JobKept
  <2> QED
    BY <2>1, <2>2, <2>3, <2>4, <2>5, <2>6, <2>7, <2>8, JobKept DEF Next
<1> QED  BY <1>1, <1>2 DEF CleanupsAfterTheEnd, JobAfterTheEnd

-------------------------------------------------------------------------------
\* OutcomeInvariant is kept by every step.
LEMMA NextKeepsOutcome ==
  ASSUME TypeOK, OutcomeInvariant, [Next]_vars PROVE OutcomeInvariant'
<1>1. UpdaterAwaited'
  BY NextKeepsAwaited DEF OutcomeInvariant
<1>2. FinalUpdateRecorded' /\ SuccessRecorded' /\ CancelledRunsDoNotFinish'
  BY FinalUpdateStep, SuccessStep, CancelledStep
<1>3. TargetEnded' /\ CleanupsAfterTheEnd'
  BY TargetStep, CleanupsStep
<1> QED  BY <1>1, <1>2, <1>3 DEF OutcomeInvariant

\* It holds of the initial state, and so of every behaviour.
LEMMA OutcomeAtFirst == ASSUME Init PROVE OutcomeInvariant
  BY NoRunAssumption
     DEF Init, OutcomeInvariant, UpdaterAwaited, FinalUpdateRecorded,
         SuccessRecorded, TargetEnded, CleanupsAfterTheEnd,
         CancelledRunsDoNotFinish, Absent

\* So it holds of every behaviour.
LEMMA Outcome == Spec => []OutcomeInvariant
<1>1. Init => OutcomeInvariant
  BY OutcomeAtFirst
<1>2. TypeOK /\ OutcomeInvariant /\ [Next]_vars => OutcomeInvariant'
  BY NextKeepsOutcome
<1> QED  BY <1>1, <1>2, TypeCorrect, PTL DEF Spec

\* A run recorded as cancelled neither runs on nor succeeds, however the
\* canceler, its retries, the failure handler and the execution's own last
\* steps interleave, and whatever other runs of the scenario do meanwhile.
THEOREM CancelledRunsStayStopped == Spec => []CancelledRunsDoNotFinish
<1>1. OutcomeInvariant => CancelledRunsDoNotFinish
  BY DEF OutcomeInvariant
<1> QED  BY <1>1, Outcome, PTL

\* An execution that succeeded has a final record, which is not "cancelled".
THEOREM SuccessIsRecorded == Spec => []SuccessRecorded
<1>1. OutcomeInvariant => SuccessRecorded
  BY DEF OutcomeInvariant
<1> QED  BY <1>1, Outcome, PTL
===============================================================================
