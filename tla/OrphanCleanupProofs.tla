-------------------------- MODULE OrphanCleanupProofs -------------------------
(***************************************************************************)
(* Theorems about OrphanCleanup, for any runs, regions, faults and number  *)
(* of scans: what TestExecution promises of finished runs holds while the  *)
(* scan deletes services under it, and the scan spares the runs it saw.    *)
(***************************************************************************)
EXTENDS OrphanCleanup, ServiceReleaseProofs

-------------------------------------------------------------------------------
\* The scan writes nothing but services: it takes them away or scales them down.
LEMMA ScanTouchesServices ==
  ASSUME TypeOK, ScanStep
  PROVE  /\ UNCHANGED <<tableVars, sfnVars, unqueued, updater, cleanup, cancelVars>>
         /\ owner' \in [Regions -> Runs \cup {NoRun}]
         /\ desired' \in [Regions -> {"full", "zero"}]
         /\ \A g \in Regions : owner'[g] = owner[g] \/ owner'[g] = NoRun
<1> USE DEF TypeOK, vars, tableVars, sfnVars, cancelVars
<1>1. CASE ListExecutions \/ ScanFails \/ EndScan
  BY <1>1 DEF ListExecutions, ScanFails, EndScan
<1>2. ASSUME NEW g \in Regions, OrphanStep(g) \/ SkipOrphan(g)
      PROVE  /\ UNCHANGED <<tableVars, sfnVars, unqueued, updater, cleanup, cancelVars>>
             /\ owner' \in [Regions -> Runs \cup {NoRun}]
             /\ desired' \in [Regions -> {"full", "zero"}]
             /\ \A h \in Regions : owner'[h] = owner[h] \/ owner'[h] = NoRun
  BY <1>2 DEF OrphanStep, ListServices, ScaleOrphan, DeleteOrphan, SkipOrphan
<1> QED
  BY <1>1, <1>2 DEF ScanStep

\* Every step of the composition is one of TestExecution or of the scan.
LEMMA ScanNextSteps ==
  ASSUME [ScanNext]_<<vars, scanVars>>
  PROVE  ([Next]_vars /\ UNCHANGED scanVars) \/ ScanStep
  BY DEF ScanNext

-------------------------------------------------------------------------------
(***************************************************************************)
(* Types.                                                                  *)
(***************************************************************************)

\* A step of the scan keeps the types.
LEMMA ScanStepKeepsType == ASSUME ScanTypeOK, ScanStep PROVE ScanTypeOK'
<1>1. TypeOK'
  BY ScanTouchesServices DEF ScanTypeOK, TypeOK, tableVars, sfnVars, cancelVars
<1> USE <1>1 DEF ScanTypeOK, Forget
<1>2. CASE ListExecutions
  BY <1>2 DEF ListExecutions
<1>3. CASE ScanFails \/ EndScan
  BY <1>3 DEF ScanFails, EndScan
<1>4. ASSUME NEW g \in Regions, OrphanStep(g) \/ SkipOrphan(g)
      PROVE  ScanTypeOK'
  BY <1>4 DEF OrphanStep, ListServices, ScaleOrphan, DeleteOrphan, SkipOrphan
<1> QED
  BY <1>2, <1>3, <1>4 DEF ScanStep

\* Every variable of the composition keeps its type.
THEOREM ScanTypeCorrect == ScanSpec => []ScanTypeOK
<1>1. ScanInit => ScanTypeOK
  BY TypeAtFirst DEF ScanInit, ScanTypeOK
<1>2. ScanTypeOK /\ [ScanNext]_<<vars, scanVars>> => ScanTypeOK'
  <2> SUFFICES ASSUME ScanTypeOK, [ScanNext]_<<vars, scanVars>> PROVE ScanTypeOK'
    OBVIOUS
  <2>1. CASE [Next]_vars /\ UNCHANGED scanVars
    BY <2>1, NextKeepsType DEF ScanTypeOK, scanVars
  <2> QED
    BY <2>1, ScanNextSteps, ScanStepKeepsType
<1> QED
  BY <1>1, <1>2, PTL DEF ScanSpec

-------------------------------------------------------------------------------
(***************************************************************************)
(* The runs under the scan.                                                *)
(***************************************************************************)

\* The invariants of the runs do not mind that services go.
LEMMA ScanKeepsRuns ==
  ASSUME TypeOK, OutcomeInvariant, ReleaseInvariant, ScanStep
  PROVE  OutcomeInvariant' /\ ReleaseInvariant'
<1> USE ScanTouchesServices DEF tableVars, sfnVars, cancelVars
<1>1. OutcomeInvariant'
  BY DEF OutcomeInvariant, UpdaterAwaited, FinalUpdateRecorded, SuccessRecorded,
         TargetEnded, CleanupsAfterTheEnd, CancelledRunsDoNotFinish
<1>2. LanesFollow' /\ EndReached'
  BY DEF ReleaseInvariant, LanesFollow, EndReached
<1>3. NoServiceLeft'
  BY LaneParts, NoRunAssumption DEF ReleaseInvariant, NoServiceLeft, ReleasedLane
<1> QED
  BY <1>1, <1>2, <1>3 DEF ReleaseInvariant

\* So they hold in the composition as well.
LEMMA ScannedRuns == ScanSpec => [](TypeOK /\ OutcomeInvariant /\ ReleaseInvariant)
<1>1. ScanInit => OutcomeInvariant /\ ReleaseInvariant
  BY OutcomeAtFirst, ReleaseAtFirst DEF ScanInit
<1>2. ScanTypeOK /\ OutcomeInvariant /\ ReleaseInvariant
        /\ [ScanNext]_<<vars, scanVars>> => OutcomeInvariant' /\ ReleaseInvariant'
  <2> SUFFICES ASSUME ScanTypeOK, OutcomeInvariant, ReleaseInvariant,
                      [ScanNext]_<<vars, scanVars>>
               PROVE  OutcomeInvariant' /\ ReleaseInvariant'
    OBVIOUS
  <2>1. TypeOK
    BY DEF ScanTypeOK
  <2>2. CASE [Next]_vars
    BY <2>1, <2>2, NextKeepsOutcome, NextKeepsRelease
  <2>3. CASE ScanStep
    BY <2>1, <2>3, ScanKeepsRuns
  <2> QED
    BY <2>2, <2>3, ScanNextSteps
<1>3. ScanTypeOK => TypeOK
  BY DEF ScanTypeOK
<1> QED
  BY <1>1, <1>2, <1>3, ScanTypeCorrect, PTL DEF ScanSpec

\* With the scan at work, too, a run that succeeded or is recorded as complete has
\* left no service behind.
THEOREM FinishedRunsReleaseUnderScan == ScanSpec => []FinishedRunsLeaveNoService
<1>1. ReleaseInvariant => FinishedRunsLeaveNoService
  BY ReleasedMeansNoService
<1> QED
  BY <1>1, ScannedRuns, PTL

\* Nor does the scan change what the history shows of the runs' outcomes.
THEOREM CancelledRunsStayStoppedUnderScan == ScanSpec => []CancelledRunsDoNotFinish
<1>1. OutcomeInvariant => CancelledRunsDoNotFinish
  BY DEF OutcomeInvariant
<1> QED
  BY <1>1, ScannedRuns, PTL

\* The scan neither records a run nor counts one.
LEMMA ScanKeepsLedger ==
  ASSUME TypeOK, BegunRunsAreRecorded, RunsCountedOnce, ScanStep
  PROVE  /\ BegunRunsAreRecorded' /\ RunsCountedOnce'
         /\ UNCHANGED <<exec, history, totalTestRuns>>
<1> USE ScanTouchesServices DEF tableVars, sfnVars, cancelVars
<1>1. UNCHANGED <<exec, history, totalTestRuns, uncounted, phase, updater, canceler>>
  OBVIOUS
<1>2. BegunRunsAreRecorded'
  BY <1>1 DEF BegunRunsAreRecorded, BegunRun
<1>3. UpdatersCounting' = UpdatersCounting /\ RecordedRuns' = RecordedRuns
  BY <1>1 DEF UpdatersCounting, RecordedRuns
<1>4. RunsCountedOnce'
  BY <1>1, <1>3 DEF RunsCountedOnce
<1> QED
  BY <1>1, <1>2, <1>4

\* So what the refinement of RunLedger rests on holds in the composition as well.
LEMMA ScannedLedger == ScanSpec => []LedgerInvariant
<1>1. ScanInit => BegunRunsAreRecorded /\ RunsCountedOnce
  BY BegunAtFirst, CountAtFirst DEF ScanInit
<1>2. TypeOK /\ OutcomeInvariant /\ BegunRunsAreRecorded /\ RunsCountedOnce
        /\ [ScanNext]_<<vars, scanVars>> => BegunRunsAreRecorded' /\ RunsCountedOnce'
  <2> SUFFICES ASSUME TypeOK, OutcomeInvariant, BegunRunsAreRecorded, RunsCountedOnce,
                      [ScanNext]_<<vars, scanVars>>
               PROVE  BegunRunsAreRecorded' /\ RunsCountedOnce'
    OBVIOUS
  <2>1. UpdaterAwaited
    BY DEF OutcomeInvariant
  <2>2. CASE [Next]_vars
    BY <2>1, <2>2, BegunStep, CountStep
  <2>3. CASE ScanStep
    BY <2>3, ScanKeepsLedger
  <2> QED
    BY <2>2, <2>3, ScanNextSteps
<1>3. TypeOK /\ OutcomeInvariant /\ ReleaseInvariant /\ BegunRunsAreRecorded
        /\ RunsCountedOnce => LedgerInvariant
  BY DEF LedgerInvariant, OutcomeInvariant
<1> QED
  BY <1>1, <1>2, <1>3, ScannedRuns, PTL DEF ScanSpec

\* Every run is counted once with the scan at work.
THEOREM RunsCountedOnceUnderScan == ScanSpec => []RunsCountedOnce
<1>1. LedgerInvariant => RunsCountedOnce
  BY DEF LedgerInvariant
<1> QED
  BY <1>1, ScannedLedger, PTL

\* TestExecution and the scan implement RunLedger together: a scan that deletes
\* services under the runs changes nothing a reader of the history could see that
\* the runs alone could not have done.
THEOREM ScannedExecutionsImplementTheLedger == ScanSpec => ImplementsRunLedger
<1>1. ScanInit => Ledger!Init
  BY LedgerAtFirst DEF ScanInit
<1>2. LedgerInvariant /\ LedgerInvariant' /\ [ScanNext]_<<vars, scanVars>>
        => [Ledger!Next]_Ledger!ledger
  <2> SUFFICES ASSUME LedgerInvariant, LedgerInvariant', [ScanNext]_<<vars, scanVars>>
               PROVE  [Ledger!Next]_Ledger!ledger
    OBVIOUS
  <2>1. CASE [Next]_vars
    BY <2>1, StepRefines
  <2>2. CASE ScanStep
    BY <2>2, ScanKeepsLedger DEF LedgerInvariant, Ledger!ledger
  <2> QED
    BY <2>1, <2>2, ScanNextSteps
<1> QED
  BY <1>1, <1>2, ScannedLedger, PTL DEF ScanSpec, ImplementsRunLedger, Ledger!Spec

-------------------------------------------------------------------------------
(***************************************************************************)
(* The scan spares the runs it saw.                                        *)
(***************************************************************************)

\* A step of a run begins no run the scan knows of.
LEMMA RunsKeepScan ==
  ASSUME ScanTypeOK, ScanInvariant, [Next]_vars, UNCHANGED scanVars
  PROVE  ScanInvariant'
<1> USE DEF ScanTypeOK, scanVars
<1>1. ScansEnd' /\ OrphansWhenIdle'
  BY DEF ScanInvariant, ScansEnd, OrphansWhenIdle
<1>2. KnownRunsAreListed'
  <2> SUFFICES ASSUME NEW run \in known
               PROVE  exec'[run] # "none" /\ (exec'[run] = "RUNNING" => run \in active)
    BY DEF KnownRunsAreListed, Running
  <2>1. exec[run] # "none" /\ (exec[run] = "RUNNING" => run \in active)
    BY DEF ScanInvariant, KnownRunsAreListed, Running
  <2> QED
    BY <2>1, AllExecMoves DEF ExecMoves, Succeeds
<1> QED
  BY <1>1, <1>2 DEF ScanInvariant

\* A step of the scan lists all that runs, or forgets, or acts on what it listed.
LEMMA ScanKeepsScan ==
  ASSUME ScanTypeOK, ScanInvariant, ScanStep PROVE ScanInvariant'
<1> USE DEF ScanTypeOK, ScanInvariant, ScansEnd, OrphansWhenIdle, KnownRunsAreListed,
            Running, Forget
<1>0. exec' = exec
  BY ScanTouchesServices DEF sfnVars
<1>1. CASE ListExecutions
  BY <1>0, <1>1 DEF ListExecutions
<1>2. CASE ScanFails \/ EndScan
  BY <1>0, <1>2 DEF ScanFails, EndScan
<1>3. ASSUME NEW g \in Regions, ListServices(g) PROVE ScanInvariant'
  BY <1>0, <1>3 DEF ListServices, IsOrphan
<1>4. ASSUME NEW g \in Regions, ScaleOrphan(g) \/ DeleteOrphan(g) \/ SkipOrphan(g)
      PROVE  ScanInvariant'
  <2>1. /\ UNCHANGED <<scanning, active, known, unlisted>> /\ orphan[g] # "none"
        /\ \A h \in Regions : orphan'[h] # "none" => orphan[h] # "none"
    BY <1>4 DEF ScaleOrphan, DeleteOrphan, SkipOrphan
  <2> QED
    BY <1>0, <2>1
<1> QED
  BY <1>1, <1>2, <1>3, <1>4 DEF ScanStep, OrphanStep

\* What the scan is about to scale down or delete is not the service of a run that
\* was under way when it listed the executions, and still is: for any number of
\* scans, and whatever the runs and their users do between its calls.
THEOREM ScanSparesRuns == ScanSpec => []ScanSparesTheRunsItSaw
<1>1. ScanInit => ScanInvariant
  BY DEF ScanInit, ScanInvariant, ScansEnd, OrphansWhenIdle, KnownRunsAreListed
<1>2. ScanTypeOK /\ ScanInvariant /\ [ScanNext]_<<vars, scanVars>> => ScanInvariant'
  BY ScanNextSteps, RunsKeepScan, ScanKeepsScan
<1>3. ScanInvariant => ScanSparesTheRunsItSaw
  BY DEF ScanInvariant, OrphansWhenIdle, KnownRunsAreListed, ScanSparesTheRunsItSaw
<1> QED
  BY <1>1, <1>2, <1>3, ScanTypeCorrect, PTL DEF ScanSpec
===============================================================================
