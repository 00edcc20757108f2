---------------------------- MODULE OrphanCleanup -----------------------------
(***************************************************************************)
(* TestExecution with the third layer of the safety net under its ECS      *)
(* services: the orphan-cleanup function, which EventBridge runs every     *)
(* hour.  It lists the executions that run, then, region by region, the    *)
(* services, and deletes those whose scenario has no such execution.       *)
(*                                                                         *)
(* A step is one of its calls.  Between them everything TestExecution does *)
(* may happen: a service found to be an orphan may be gone, or another     *)
(* run's, when it is deleted.                                              *)
(***************************************************************************)
EXTENDS TestExecution

VARIABLES
  scanning,     \* is the function at work?
  active,       \* the running executions it listed
  known,        \* the runs there were when it listed them (for the properties)
  unlisted,     \* regions whose services it has still to list
  orphan        \* what it is doing about the service of each region

scanVars == <<scanning, active, known, unlisted, orphan>>

ScanTypeOK ==
  /\ TypeOK
  /\ scanning \in BOOLEAN
  /\ active \subseteq Runs /\ known \subseteq Runs
  /\ unlisted \subseteq Regions
  /\ orphan \in [Regions -> {"none", "scale", "delete"}]

ScanInit ==
  /\ Init
  /\ scanning = FALSE
  /\ active = {} /\ known = {}
  /\ unlisted = {}
  /\ orphan = [g \in Regions |-> "none"]

-------------------------------------------------------------------------------
\* The scan is over: what it knew is forgotten.
Forget ==
  /\ scanning' = FALSE
  /\ active' = {} /\ known' = {}
  /\ unlisted' = {}
  /\ orphan' = [g \in Regions |-> "none"]

\* getActiveTestIds: the executions of this scenario that run.
ListExecutions ==
  /\ ~scanning
  /\ scanning' = TRUE
  /\ active' = {run \in Runs : Running(run)}
  /\ known' = {run \in Runs : exec[run] # "none"}
  /\ unlisted' = Regions
  /\ UNCHANGED <<vars, orphan>>

\* findOrphans without its filter.
EveryServiceIsAnOrphan(g) == owner[g] # NoRun

\* findOrphans: the name of a service tells the scenario, not the run.
IsOrphan(g) == owner[g] # NoRun /\ active = {}

\* What is kept is whose service it is instead of the call that is next.
ListOwners(g) ==
  /\ g \in unlisted
  /\ orphan' = [orphan EXCEPT ![g] = IF IsOrphan(g) THEN owner[g] ELSE "none"]
  /\ unlisted' = unlisted \ {g}
  /\ UNCHANGED <<vars, scanning, active, known>>

\* listDltServices and findOrphans.
ListServices(g) ==
  /\ g \in unlisted
  /\ orphan' = [orphan EXCEPT ![g] = IF IsOrphan(g) THEN "scale" ELSE "none"]
  /\ unlisted' = unlisted \ {g}
  /\ UNCHANGED <<vars, scanning, active, known>>

\* deleteOrphanedService, by name: a service that is gone is a success.
ScaleOrphan(g) ==
  /\ unlisted = {} /\ orphan[g] = "scale"
  /\ IF owner[g] = NoRun
     THEN orphan' = [orphan EXCEPT ![g] = "none"] /\ UNCHANGED desired
     ELSE /\ orphan' = [orphan EXCEPT ![g] = "delete"]
          /\ desired' = [desired EXCEPT ![g] = "zero"]
  /\ UNCHANGED <<tableVars, sfnVars, owner, unqueued, updater, cleanup, cancelVars,
                 scanning, active, known, unlisted>>

DeleteDrainedOrphan(g) ==
  /\ unlisted = {} /\ orphan[g] = "delete"
  /\ orphan' = [orphan EXCEPT ![g] = "none"]
  /\ UNCHANGED <<vars, scanning, active, known, unlisted>>

\* By force, after the grace period.
DeleteOrphan(g) ==
  /\ unlisted = {} /\ orphan[g] = "delete"
  /\ owner' = [owner EXCEPT ![g] = NoRun]
  /\ desired' = [desired EXCEPT ![g] = "zero"]
  /\ orphan' = [orphan EXCEPT ![g] = "none"]
  /\ UNCHANGED <<tableVars, sfnVars, unqueued, updater, cleanup, cancelVars,
                 scanning, active, known, unlisted>>

\* A call about one service fails: it is logged and the others go on.
SkipOrphan(g) ==
  /\ unlisted = {} /\ orphan[g] # "none"
  /\ orphan' = [orphan EXCEPT ![g] = "none"]
  /\ UNCHANGED <<vars, scanning, active, known, unlisted>>

\* Any other call fails: none of the orphans is cleaned up by this scan.
ScanFails ==
  /\ unlisted # {}
  /\ Forget
  /\ UNCHANGED vars

EndScan ==
  /\ scanning /\ unlisted = {} /\ \A g \in Regions : orphan[g] = "none"
  /\ Forget
  /\ UNCHANGED vars

-------------------------------------------------------------------------------
OrphanStep(g) == ListServices(g) \/ ScaleOrphan(g) \/ DeleteOrphan(g)

ScanStep ==
  \/ ListExecutions \/ ScanFails \/ EndScan
  \/ \E g \in Regions : OrphanStep(g) \/ SkipOrphan(g)

ScanNext == (Next /\ UNCHANGED scanVars) \/ ScanStep

ScanSpec == ScanInit /\ [][ScanNext]_<<vars, scanVars>>

\* TestExecution's fairness; EventBridge runs the function every hour for ever, and
\* a call that it makes again and again succeeds at some time.
ScanFairness ==
  /\ \A run \in Runs : /\ WF_<<vars, scanVars>>(WriteQueued(run) /\ UNCHANGED scanVars)
                       /\ WF_<<vars, scanVars>>(RunStep(run) /\ UNCHANGED scanVars)
                       /\ WF_<<vars, scanVars>>(UpdaterStep(run) /\ UNCHANGED scanVars)
                       /\ WF_<<vars, scanVars>>(HandleFailure(run) /\ UNCHANGED scanVars)
  /\ \A l \in Lanes : WF_<<vars, scanVars>>(LaneWork(l) /\ UNCHANGED scanVars)
  /\ \A j \in Jobs : WF_<<vars, scanVars>>(CleanupStep(j) /\ UNCHANGED scanVars)
  /\ WF_<<vars, scanVars>>(CancelerStep /\ UNCHANGED scanVars)
  /\ WF_<<vars, scanVars>>(ListExecutions) /\ WF_<<vars, scanVars>>(EndScan)
  /\ \A g \in Regions : /\ SF_<<vars, scanVars>>(ListServices(g))
                        /\ SF_<<vars, scanVars>>(ScaleOrphan(g))
                        /\ SF_<<vars, scanVars>>(DeleteOrphan(g))

FairScanSpec == ScanSpec /\ ScanFairness

-------------------------------------------------------------------------------
(***************************************************************************)
(* Properties, besides those of TestExecution.                             *)
(***************************************************************************)

\* A service that the scan is about to scale down or delete is not that of a run
\* that was under way when it listed the executions and still is: only a run that
\* began after that can lose its service to the scan.
ScanSparesTheRunsItSaw ==
  \A g \in Regions : orphan[g] # "none" /\ owner[g] \in known => ~Running(owner[g])

(***************************************************************************)
(* What the proof of it needs to know besides.                             *)
(***************************************************************************)

\* A scan that is over has forgotten its orphans...
ScansEnd == ~scanning => unlisted = {} /\ \A g \in Regions : orphan[g] = "none"

\* ... and one that found an orphan had listed no execution.
OrphansWhenIdle == \A g \in Regions : orphan[g] # "none" => active = {}

\* What the scan knows of began before; what still runs of it was on its list.
KnownRunsAreListed ==
  \A run \in known : exec[run] # "none" /\ (Running(run) => run \in active)

ScanInvariant == ScansEnd /\ OrphansWhenIdle /\ KnownRunsAreListed
===============================================================================
