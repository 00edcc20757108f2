-------------------------- MODULE TestExecutionProofs -------------------------
(***************************************************************************)
(* Theorems about TestExecution, for any runs, regions, faults and number  *)
(* of cancel requests.                                                     *)
(***************************************************************************)
EXTENDS TestExecution, FiniteSetTheorems, TLAPS

-------------------------------------------------------------------------------
(***************************************************************************)
(* The conditional writers.                                                *)
(***************************************************************************)

\* A conditional write of a status leaves a status.
LEMMA WritesKeepType ==
  ASSUME NEW found, NEW new \in Status
  PROVE  /\ found \in HistoryStatus => MetadataWrite(found, new) \in HistoryStatus
         /\ found \in Status => MetadataWrite(found, new) \in Status
         /\ found \in Status => CleanupWrite(found, new) \in Status
         /\ found \in HistoryStatus => CleanupHistoryWrite(found, new) \in HistoryStatus
  BY DEF HistoryStatus, MetadataWrite, CleanupWrite, CleanupHistoryWrite

\* None of them replaces a terminal status.
LEMMA WritesKeepTerminal ==
  ASSUME NEW found \in Terminal, NEW new
  PROVE  /\ found # Absent
         /\ MetadataWrite(found, new) = found
         /\ CleanupHistoryWrite(found, new) = found
  BY DEF Terminal, Absent, MetadataWrite, CleanupHistoryWrite, CleanupWrite,
         CleanupMayWrite

\* An item is absent after a write of test-metadata-updater never, and after
\* one of test-cleanup only if it was absent before.
LEMMA WritesAndAbsence ==
  ASSUME NEW found \in HistoryStatus, NEW new \in Status
  PROVE  /\ MetadataWrite(found, new) # Absent
         /\ CleanupHistoryWrite(found, new) = Absent <=> found = Absent
  BY DEF HistoryStatus, Status, Terminal, Absent, MetadataWrite,
         CleanupHistoryWrite, CleanupWrite, CleanupMayWrite

\* The components of a lane and of a job.
LEMMA LaneParts ==
  ASSUME NEW l \in Lanes
  PROVE  l[1] \in Runs /\ l[2] \in Regions /\ SfnJob(l) \in Jobs
  BY DEF Lanes, SfnJob, Jobs, Invokers

\* The same of a cleanup's invoker, run and region.
LEMMA JobParts ==
  ASSUME NEW j \in Jobs
  PROVE  j[1] \in Invokers /\ j[2] \in Runs /\ j[3] \in Regions
  BY DEF Jobs

\* The statuses the functions write are statuses.
LEMMA WrittenStatuses ==
  /\ \A ph : StatusSetIn(ph) \in Status
  /\ \A j : FinalStatus(j) \in Status
  /\ "failed" \in Status /\ "cancelled" \in Status
  BY DEF StatusSetIn, FinalStatus, Status, Terminal

-------------------------------------------------------------------------------
(***************************************************************************)
(* Type correctness.                                                       *)
(***************************************************************************)

\* The updates the actions share keep the types of what they update.
LEMMA CleanupUpdates ==
  ASSUME cleanup \in [Jobs -> CleanupStates]
  PROVE  /\ \A j \in Jobs, to \in CleanupStates :
              Step(j, to) => cleanup' \in [Jobs -> CleanupStates]
         /\ \A invoker, run, regions :
              InvokeCleanup(invoker, run, regions) => cleanup' \in [Jobs -> CleanupStates]
  BY DEF Step, InvokeCleanup, CleanupStates

\* The updates of a map iteration keep the types of lanes and cleanups.
LEMMA LaneUpdates ==
  ASSUME lane \in [Lanes -> LaneStates], cleanup \in [Jobs -> CleanupStates]
  PROVE  /\ \A l \in Lanes, to \in LaneStates :
              MoveLane(l, to) => lane' \in [Lanes -> LaneStates]
         /\ \A l \in Lanes, to \in LaneStates :
              ReturnTo(l, to) => lane' \in [Lanes -> LaneStates]
         /\ \A l \in Lanes : CatchWithCleanup(l) =>
              lane' \in [Lanes -> LaneStates] /\ cleanup' \in [Jobs -> CleanupStates]
         /\ \A run, to : to \in LaneStates /\ FanOut(run, to)
              => lane' \in [Lanes -> LaneStates]
  BY DEF MoveLane, ReturnTo, CatchWithCleanup, FanOut, LaneStates, CleanupStates

\* The updates of the top-level state keep the types of what they touch.
LEMMA RunUpdates ==
  ASSUME TypeOK, NEW run \in Runs
  PROVE  /\ \A to \in Phases : EnterPhase(run, to) => phase' \in [Runs -> Phases]
         /\ \A to \in Phases : SetStatusIn(run, to) =>
              phase' \in [Runs -> Phases] /\ updater' \in [Runs -> UpdaterStates]
         /\ \A to \in Phases : CleanupInEveryRegion(run, to) =>
              /\ phase' \in [Runs -> Phases]
              /\ lane' \in [Lanes -> LaneStates]
              /\ cleanup' \in [Jobs -> CleanupStates]
         /\ \A as \in ExecStatus : EndExecution(run, as) =>
              exec' \in [Runs -> ExecStatus] /\ events' \subseteq Runs
<1>1. /\ phase \in [Runs -> Phases]  /\ updater \in [Runs -> UpdaterStates]
      /\ lane \in [Lanes -> LaneStates] /\ cleanup \in [Jobs -> CleanupStates]
      /\ exec \in [Runs -> ExecStatus] /\ events \subseteq Runs
  BY DEF TypeOK
<1>2. ASSUME NEW to \in Phases, EnterPhase(run, to)
      PROVE  phase' \in [Runs -> Phases]
  BY <1>1, <1>2 DEF EnterPhase
<1>3. ASSUME NEW to \in Phases, SetStatusIn(run, to)
      PROVE  updater' \in [Runs -> UpdaterStates] /\ EnterPhase(run, to)
  BY <1>1, <1>3 DEF SetStatusIn, UpdaterStates
<1>4. ASSUME NEW to \in Phases, CleanupInEveryRegion(run, to)
      PROVE  /\ EnterPhase(run, to)
             /\ lane' \in [Lanes -> LaneStates]
             /\ cleanup' \in [Jobs -> CleanupStates]
  BY <1>1, <1>4, CleanupUpdates, LaneUpdates DEF CleanupInEveryRegion, LaneStates
<1>5. ASSUME NEW as \in ExecStatus, EndExecution(run, as)
      PROVE  exec' \in [Runs -> ExecStatus] /\ events' \subseteq Runs
  BY <1>1, <1>5 DEF EndExecution
<1> QED  BY <1>2, <1>3, <1>4, <1>5

\* Every step of a lane keeps the types.
LEMMA LaneStepKeepsType ==
  ASSUME TypeOK, NEW l \in Lanes, LaneStep(l)
  PROVE  TypeOK'
<1> USE LaneParts, LaneUpdates, CleanupUpdates
<1> USE DEF TypeOK, LaneStates, tableVars, ecsVars, cancelVars
<1>1. CASE CheckRunningTests(l)
  BY <1>1 DEF CheckRunningTests
<1>2. CASE CheckRunningTestsFails(l)
  BY <1>2 DEF CheckRunningTestsFails, Status, Terminal
<1>3. CASE CreateService(l)
  BY <1>3 DEF CreateService
<1>4. CASE CreateServiceFails(l)
  BY <1>4 DEF CreateServiceFails
<1>5. CASE WriteProvisioning(l)
  BY <1>5 DEF WriteProvisioning, Status
<1>6. CASE CreateDashboard(l)
  BY <1>6 DEF CreateDashboard
<1>7. CASE RunnerThrows(l)
  BY <1>7 DEF RunnerThrows
<1>8. CASE RunnerWritesFailed(l)
  BY <1>8 DEF RunnerWritesFailed, Status, Terminal
<1>9. CASE StabilizationReady(l)
  BY <1>9 DEF StabilizationReady
<1>10. CASE StabilizationFailed(l)
  BY <1>10 DEF StabilizationFailed
<1>11. CASE StabilizationThrows(l)
  BY <1>11 DEF StabilizationThrows
<1>12. CASE SendStart(l)
  BY <1>12 DEF SendStart
<1>13. CASE SendStartFails(l)
  BY <1>13 DEF SendStartFails
<1>14. CASE RegionComplete(l)
  BY <1>14 DEF RegionComplete
<1>15. CASE RegionTimedOut(l)
  BY <1>15 DEF RegionTimedOut
<1>16. CASE CheckCompletionFails(l)
  BY <1>16 DEF CheckCompletionFails, Status, Terminal
<1>17. CASE LaneCleaned(l)
  BY <1>17 DEF LaneCleaned, AfterCleanup, CleanupStates
<1>18. CASE LaneCleanupFails(l)
  BY <1>18, RunUpdates DEF LaneCleanupFails, ExecStatus
<1> QED
  BY <1>1, <1>2, <1>3, <1>4, <1>5, <1>6, <1>7, <1>8, <1>9, <1>10, <1>11, <1>12,
     <1>13, <1>14, <1>15, <1>16, <1>17, <1>18
     DEF LaneStep, LaneWork, LaneFault

\* So does every step of an execution at its top level...
LEMMA RunStepKeepsType ==
  ASSUME TypeOK, NEW run \in Runs, RunStep(run)
  PROVE  TypeOK'
<1> USE RunUpdates, LaneUpdates
<1> USE DEF TypeOK, Phases, tableVars, ecsVars, cancelVars
<1>1. CASE RegionalSyncReady(run)
  BY <1>1 DEF RegionalSyncReady
<1>2. CASE RegionalSyncNotReady(run)
  BY <1>2 DEF RegionalSyncNotReady
<1>3. CASE EndExecutionMap(run)
  BY <1>3 DEF EndExecutionMap
<1>4. CASE ParseResults(run)
  BY <1>4 DEF ParseResults
<1>5. CASE ParseResultsFails(run)
  BY <1>5 DEF ParseResultsFails, Status, Terminal
<1>6. CASE EndCleanupMap(run)
  BY <1>6 DEF EndCleanupMap
<1>7. CASE EndFailureMap(run)
  BY <1>7 DEF EndFailureMap
<1>8. CASE StatusSet(run)
  <2>1. updater' \in [Runs -> UpdaterStates]
    BY <1>8 DEF StatusSet, UpdaterStates
  <2>2. CASE phase[run] = "setRunning"
    BY <1>8, <2>1, <2>2 DEF StatusSet, LaneStates
  <2>3. CASE phase[run] = "setParsing"
    BY <1>8, <2>1, <2>3 DEF StatusSet
  <2>4. CASE phase[run] \in {"setComplete", "setFailed"}
    BY <1>8, <2>1, <2>4 DEF StatusSet, ExecStatus
  <2>5. CASE phase[run] \notin {"setRunning", "setParsing", "setComplete", "setFailed"}
    BY <1>8, <2>1, <2>5 DEF StatusSet
  <2> QED  BY <2>2, <2>3, <2>4, <2>5
<1>9. CASE StatusSetFails(run)
  BY <1>9 DEF StatusSetFails, ExecStatus
<1> QED
  BY <1>1, <1>2, <1>3, <1>4, <1>5, <1>6, <1>7, <1>8, <1>9 DEF RunStep

\* ... of test-metadata-updater ...
LEMMA UpdaterStepKeepsType ==
  ASSUME TypeOK, NEW run \in Runs, UpdaterStep(run)
  PROVE  TypeOK'
<1> USE WritesKeepType, WrittenStatuses
<1> USE DEF TypeOK, UpdaterStates, tableVars, sfnVars, ecsVars, cancelVars
<1>1. CASE UpdateScenario(run)
  BY <1>1 DEF UpdateScenario
<1>2. CASE UpdateHistory(run)
  BY <1>2 DEF UpdateHistory
<1>3. CASE CountRun(run)
  BY <1>3 DEF CountRun, IncrementTestRunCount
<1>4. CASE UpdaterThrows(run)
  BY <1>4 DEF UpdaterThrows
<1> QED  BY <1>1, <1>2, <1>3, <1>4 DEF UpdaterStep

\* ... of test-cleanup ...
LEMMA CleanupStepKeepsType ==
  ASSUME TypeOK, NEW j \in Jobs, CleanupStep(j)
  PROVE  TypeOK'
<1> USE JobParts, CleanupUpdates, WritesKeepType, WrittenStatuses
<1> USE DEF TypeOK, CleanupStates, tableVars, sfnVars, ecsVars, cancelVars
<1>1. CASE ScaleToZero(j)
  BY <1>1 DEF ScaleToZero
<1>2. CASE DeleteService(j)
  BY <1>2 DEF DeleteService
<1>3. CASE DeleteServiceRefused(j)
  BY <1>3 DEF DeleteServiceRefused
<1>4. CASE RecordStatus(j)
  BY <1>4 DEF RecordStatus
<1>5. CASE RecordHistory(j)
  BY <1>5 DEF RecordHistory
<1>6. CASE CleanupThrows(j)
  BY <1>6 DEF CleanupThrows
<1>7. CASE RecordCleanupFailure(j)
  BY <1>7 DEF RecordCleanupFailure
<1>8. CASE RetryCleanup(j)
  BY <1>8 DEF RetryCleanup
<1> QED  BY <1>1, <1>2, <1>3, <1>4, <1>5, <1>6, <1>7, <1>8 DEF CleanupStep

\* ... and of task-canceler.
LEMMA CancelerStepKeepsType ==
  ASSUME TypeOK, CancelerStep
  PROVE  TypeOK'
<1> USE CleanupUpdates, RunUpdates
<1> USE DEF TypeOK, CancelerStates, tableVars, sfnVars, ecsVars
<1>1. CASE FindActiveExecution
  BY <1>1 DEF FindActiveExecution
<1>2. CASE NothingToCancel
  BY <1>2 DEF NothingToCancel, NothingToCancelWrite, Status, Terminal
<1>3. CASE StopExecution
  <2>1. CASE Running(target)
    BY <1>3, <2>1 DEF StopExecution, ExecStatus
  <2>2. CASE ~Running(target)
    BY <1>3, <2>2 DEF StopExecution
  <2> QED  BY <2>1, <2>2
<1>4. CASE WriteCancelling
  BY <1>4 DEF WriteCancelling, Status
<1>5. CASE PutCancelledRun
  BY <1>5 DEF PutCancelledRun, HistoryStatus, Status
<1>6. CASE CountCancelledRun
  BY <1>6 DEF CountCancelledRun, IncrementTestRunCount
<1>7. CASE InvokeCancelCleanup
  BY <1>7 DEF InvokeCancelCleanup
<1>8. CASE RetryCanceler
  BY <1>8, BoundAssumption DEF RetryCanceler
<1> QED  BY <1>1, <1>2, <1>3, <1>4, <1>5, <1>6, <1>7, <1>8 DEF CancelerStep

\* Whatever the functions do, every variable keeps its type.
LEMMA NextKeepsType == ASSUME TypeOK, [Next]_vars PROVE TypeOK'
<1>1. ASSUME NEW run \in Runs, StartRun(run)
      PROVE  TypeOK'
  BY <1>1, LaneUpdates, RunUpdates
     DEF StartRun, TypeOK, ExecStatus, Phases, LaneStates, tableVars, ecsVars,
         cancelVars
<1>2. ASSUME NEW run \in Runs, WriteQueued(run)
      PROVE  TypeOK'
  BY <1>2 DEF WriteQueued, TypeOK, Status, sfnVars, ecsVars, cancelVars
<1>3. ASSUME NEW run \in Runs, HandleFailure(run)
      PROVE  TypeOK'
  BY <1>3, CleanupUpdates
     DEF HandleFailure, TypeOK, tableVars, ecsVars, cancelVars
<1>4. CASE ThresholdBreached
  BY <1>4
     DEF ThresholdBreached, ThresholdWrite, TypeOK, Status, Terminal, sfnVars,
         ecsVars, cancelVars
<1>5. CASE CancelTest
  <2>1. cancels' \in 0 .. MaxCancels
    BY <1>5, BoundAssumption DEF CancelTest, TypeOK
  <2>2. status' \in Status /\ canceler' \in CancelerStates
    BY <1>5 DEF CancelTest, Status, CancelerStates
  <2> QED
    BY <1>5, <2>1, <2>2 DEF CancelTest, TypeOK, sfnVars, ecsVars
<1>6. CASE UNCHANGED vars
  BY <1>6 DEF vars, TypeOK
<1> QED
  BY <1>1, <1>2, <1>3, <1>4, <1>5, <1>6, LaneStepKeepsType, RunStepKeepsType,
     UpdaterStepKeepsType, CleanupStepKeepsType, CancelerStepKeepsType DEF Next

\* Nothing is under way at first.
LEMMA TypeAtFirst == ASSUME Init PROVE TypeOK
  BY BoundAssumption
     DEF Init, TypeOK, Status, HistoryStatus, ExecStatus, Phases, LaneStates,
         UpdaterStates, CleanupStates, CancelerStates

\* The types are right: for any runs, regions, faults and number of cancels.
THEOREM TypeCorrect == Spec => []TypeOK
<1>1. Init => TypeOK
  BY TypeAtFirst
<1>2. TypeOK /\ [Next]_vars => TypeOK'
  BY NextKeepsType
<1> QED  BY <1>1, <1>2, PTL DEF Spec

-------------------------------------------------------------------------------
(***************************************************************************)
(* Final history records.                                                  *)
(***************************************************************************)

\* The only steps that write a history item.
LEMMA HistoryWriters ==
  ASSUME [Next]_vars
  PROVE  \/ history' = history
         \/ \E run \in Runs : UpdateHistory(run)
         \/ \E j \in Jobs : RecordHistory(j) \/ RecordCleanupFailure(j)
         \/ PutCancelledRun
<1>1. ASSUME NEW l \in Lanes, LaneStep(l)
      PROVE  history' = history
  BY <1>1
     DEF LaneStep, LaneWork, LaneFault, CheckRunningTests, CheckRunningTestsFails,
         CreateService, CreateServiceFails, WriteProvisioning, CreateDashboard,
         RunnerThrows, RunnerWritesFailed, StabilizationReady,
         StabilizationFailed, StabilizationThrows, SendStart, SendStartFails,
         RegionComplete, RegionTimedOut, CheckCompletionFails, LaneCleaned,
         LaneCleanupFails, tableVars
<1>2. ASSUME NEW run \in Runs, RunStep(run)
      PROVE  history' = history
  BY <1>2
     DEF RunStep, RegionalSyncReady, RegionalSyncNotReady, EndExecutionMap,
         ParseResults, ParseResultsFails, EndCleanupMap, EndFailureMap,
         StatusSet, StatusSetFails, tableVars
<1>3. ASSUME NEW run \in Runs, UpdaterStep(run), ~UpdateHistory(run)
      PROVE  history' = history
  BY <1>3 DEF UpdaterStep, UpdateScenario, CountRun, UpdaterThrows, tableVars
<1>4. ASSUME NEW j \in Jobs, CleanupStep(j),
             ~RecordHistory(j), ~RecordCleanupFailure(j)
      PROVE  history' = history
  BY <1>4
     DEF CleanupStep, ScaleToZero, DeleteService, DeleteServiceRefused,
         RecordStatus, CleanupThrows, RetryCleanup, tableVars
<1>5. ASSUME CancelerStep, ~PutCancelledRun
      PROVE  history' = history
  BY <1>5
     DEF CancelerStep, FindActiveExecution, NothingToCancel, StopExecution,
         WriteCancelling, CountCancelledRun, InvokeCancelCleanup,
         RetryCanceler, tableVars
<1>6. ASSUME NEW run \in Runs,
             StartRun(run) \/ WriteQueued(run) \/ HandleFailure(run)
      PROVE  history' = history
  BY <1>6 DEF StartRun, WriteQueued, HandleFailure, tableVars
<1>7. CASE ThresholdBreached \/ CancelTest \/ UNCHANGED vars
  BY <1>7 DEF ThresholdBreached, CancelTest, vars
<1> QED
  BY <1>1, <1>2, <1>3, <1>4, <1>5, <1>6, <1>7 DEF Next

\* No step replaces a terminal history status.
LEMMA HistoryStep ==
  ASSUME TypeOK, [Next]_vars, NEW run \in Runs, history[run] \in Terminal
  PROVE  history'[run] = history[run]
<1> USE DEF TypeOK
<1>1. CASE history' = history
  BY <1>1
<1>2. ASSUME NEW r \in Runs, UpdateHistory(r)
      PROVE  history'[run] = history[run]
  BY <1>2, WritesKeepTerminal DEF UpdateHistory
<1>3. ASSUME NEW j \in Jobs, RecordHistory(j)
      PROVE  history'[run] = history[run]
  BY <1>3, JobParts, WritesKeepTerminal DEF RecordHistory
<1>4. ASSUME NEW j \in Jobs, RecordCleanupFailure(j)
      PROVE  history'[run] = history[run]
  BY <1>4, JobParts, WritesKeepTerminal DEF RecordCleanupFailure
<1>5. CASE PutCancelledRun
  BY <1>5, WritesKeepTerminal DEF PutCancelledRun
<1> QED  BY <1>1, <1>2, <1>3, <1>4, <1>5, HistoryWriters

\* HistoryIsFinal holds of every behaviour: the conditions on the three writers
\* of the history table make "complete", "cancelled" and "failed" final, in any
\* order of the state machine, the canceler and the cleanups.
THEOREM FinalHistory == Spec => HistoryIsFinal
<1>1. TypeOK /\ [Next]_vars
        => [\A run \in Runs :
              history[run] \in Terminal => history'[run] = history[run]]_vars
  BY HistoryStep
<1> QED  BY <1>1, TypeCorrect, PTL DEF Spec, HistoryIsFinal
===============================================================================
