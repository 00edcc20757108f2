----------------------- MODULE CompletionMonitorProofs ------------------------
(***************************************************************************)
(* A region reported complete is quiet, and a scenario is failed only on a *)
(* breach of its threshold, for any number of regions, of tasks in a       *)
(* region, of tasks that stop and of spurious events.                      *)
(***************************************************************************)
EXTENDS CompletionMonitor, FiniteSetTheorems, TLAPS

\* A task's id is one of the ids there are.
LEMMA TaskIds == ASSUME TypeOK, NEW s \in Slots PROVE TaskId(s) \in Tasks
  BY DEF TypeOK, Tasks, TaskId

\* Generations, the numbers in task ids and the spurious events are natural numbers.
LEMMA Numbers ==
  ASSUME TypeOK
  PROVE  /\ \A s \in Slots : gen[s] \in Nat
         /\ \A t \in Tasks : t[1] \in Slots /\ t[2] \in Nat
         /\ spurious \in Nat
<1>1. 0 .. MaxStops \subseteq Nat /\ 0 .. MaxSpurious \subseteq Nat
  BY BoundsAssumption
<1>2. \A t \in Tasks : t[1] \in Slots /\ t[2] \in 0 .. MaxStops
  BY DEF Tasks
<1>3. (\A s \in Slots : gen[s] \in 0 .. MaxStops) /\ spurious \in 0 .. MaxSpurious
  BY DEF TypeOK
<1> QED
  BY <1>1, <1>2, <1>3

\* The steps of a poll and of the start signal keep the types.
LEMMA RegionKeepsType ==
  ASSUME TypeOK, NEW g \in Regions, RegionWork(g) \/ DeadlineExceeded(g)
  PROVE  TypeOK'
<1>1. /\ signal' \in [Regions -> {"none", "fresh", "stale"}]
      /\ poll' \in [Regions -> {"none", "polling", "listing", "success", "failed",
                                "cleaned"}]
      /\ task' \in [Slots -> {"starting", "waiting", "loading", "idle", "gone"}]
  BY DEF RegionWork, DeadlineExceeded, SendStart, ReadStatus, MonitorCompletion,
         CleanRegion, SignalAges, taskVars, TypeOK
<1>2. UNCHANGED <<scenarioVars, markers, gen, failed, handlerVars, outcome>>
  BY DEF RegionWork, DeadlineExceeded, SendStart, ReadStatus, MonitorCompletion,
         CleanRegion, SignalAges, taskVars
<1> QED
  BY <1>1, <1>2 DEF TypeOK, scenarioVars, handlerVars

\* The steps of a container keep the types.
LEMMA TaskKeepsType ==
  ASSUME TypeOK, NEW s \in Slots, TaskWork(s) PROVE TypeOK'
<1>1. markers' \subseteq Tasks
  BY TaskIds DEF TaskWork, TaskComesUp, StartLoading, SkipLoading, FinishLoading,
                 TypeOK
<1>2. task' \in [Slots -> {"starting", "waiting", "loading", "idle", "gone"}]
  BY DEF TaskWork, TaskComesUp, StartLoading, SkipLoading, FinishLoading, TypeOK
<1>3. UNCHANGED <<scenarioVars, gen, failed, handlerVars, pollVars>>
  BY DEF TaskWork, TaskComesUp, StartLoading, SkipLoading, FinishLoading
<1> QED
  BY <1>1, <1>2, <1>3 DEF TypeOK, scenarioVars, handlerVars, pollVars, Tasks

\* A task that stops keeps the types.
LEMMA StopKeepsType ==
  ASSUME TypeOK, NEW s \in Slots, NEW withFailure \in BOOLEAN,
         StopTask(s, withFailure)
  PROVE  TypeOK'
<1>1. gen[s] \in 0 .. MaxStops /\ gen[s] < MaxStops
  BY DEF StopTask, TypeOK
<1>2. gen[s] + 1 \in 0 .. MaxStops
  BY <1>1, BoundsAssumption
<1>3. gen' \in [Slots -> 0 .. MaxStops]
  BY <1>2 DEF StopTask, TypeOK
<1>4. task' \in [Slots -> {"starting", "waiting", "loading", "idle", "gone"}]
  BY DEF StopTask, TypeOK
<1>5. failed' \subseteq Tasks /\ undelivered' \subseteq failed'
  BY TaskIds DEF StopTask, TypeOK
<1>6. UNCHANGED <<scenarioVars, markers, spurious, deciding, pollVars>>
  BY DEF StopTask
<1> QED
  BY <1>3, <1>4, <1>5, <1>6 DEF TypeOK, scenarioVars, pollVars

\* So do the steps of the failure handler.
LEMMA HandlerKeepsType ==
  ASSUME TypeOK, HandlerWork \/ HandleSpurious PROVE TypeOK'
<1>1. deciding' \in BOOLEAN
  BY DEF HandlerWork, HandleSpurious, HandleFailure, IncrementFailureCount,
         MarkFailed, TypeOK
<1>2. /\ status' \in {"provisioning", "running", "parsing results", "failed"}
      /\ undelivered' \subseteq failed
  BY DEF HandlerWork, HandleSpurious, HandleFailure, IncrementFailureCount,
         MarkFailed, ThresholdWrite, TypeOK
<1>3. taskFailureCount' \in Nat /\ spurious' \in 0 .. MaxSpurious
  <2>1. /\ taskFailureCount' \in {taskFailureCount, taskFailureCount + 1}
        /\ \/ spurious' = spurious
           \/ spurious < MaxSpurious /\ spurious' = spurious + 1
    BY DEF HandlerWork, HandleSpurious, HandleFailure, IncrementFailureCount, MarkFailed
  <2>2. taskFailureCount \in Nat /\ spurious \in 0 .. MaxSpurious
    BY DEF TypeOK
  <2> QED
    BY <2>1, <2>2, BoundsAssumption
<1>4. UNCHANGED <<taskVars, pollVars>>
  BY DEF HandlerWork, HandleSpurious, HandleFailure, IncrementFailureCount, MarkFailed
<1> QED
  BY <1>1, <1>2, <1>3, <1>4 DEF TypeOK, taskVars, pollVars

\* Every variable of the monitor keeps its type through every step of the tasks,
\* the handler and the polls.
THEOREM MonitorTypeCorrect == Spec => []TypeOK
<1>1. Init => TypeOK
  <2> SUFFICES ASSUME Init PROVE TypeOK
    OBVIOUS
  <2>1. deciding \in BOOLEAN
    BY DEF Init
  <2>2. gen \in [Slots -> 0 .. MaxStops] /\ spurious \in 0 .. MaxSpurious
    BY BoundsAssumption DEF Init
  <2> QED
    BY <2>1, <2>2 DEF Init, TypeOK
<1>2. TypeOK /\ [Next]_vars => TypeOK'
  <2> SUFFICES ASSUME TypeOK, [Next]_vars PROVE TypeOK'
    OBVIOUS
  <2>1. CASE SetRunning \/ EndExecutionMap
    BY <2>1 DEF SetRunning, EndExecutionMap, MetadataWrite, Terminal, TypeOK,
                taskVars, handlerVars, pollVars
  <2>2. CASE UNCHANGED vars
    BY <2>2 DEF vars, TypeOK
  <2> QED
    BY <2>1, <2>2, RegionKeepsType, TaskKeepsType, StopKeepsType, HandlerKeepsType
       DEF Next
<1> QED
  BY <1>1, <1>2, PTL DEF Spec

-------------------------------------------------------------------------------
(***************************************************************************)
(* Complete regions.                                                       *)
(***************************************************************************)

\* A set of tasks with at most one in each place of a region, as many as the
\* region has places, has one in every place.
LEMMA OneMarkerPerPlace ==
  ASSUME NEW g \in Regions, NEW M,
         \A t \in M : t \in Tasks /\ t[1][1] = g,
         \A t, u \in M : t[1] = u[1] => t = u,
         Cardinality(M) >= Cardinality(Places),
         NEW s \in SlotsOf(g)
  PROVE  \E t \in M : t[1] = s
<1> SUFFICES ASSUME \A t \in M : t[1] # s PROVE FALSE
  OBVIOUS
<1> DEFINE free == Places \ {s[2]}
           place == [t \in M |-> t[1][2]]
<1>1. s = <<g, s[2]>> /\ s[2] \in Places
  BY DEF SlotsOf, Slots
<1>2. \A t \in M : t[1] = <<g, t[1][2]>> /\ t[1][2] \in free
  BY <1>1 DEF Tasks, Slots
<1>3. place \in Injection(M, free)
  BY <1>2 DEF Injection, IsInjective
<1>4. IsFiniteSet(free) /\ Cardinality(free) = Cardinality(Places) - 1
  BY <1>1, PlacesAssumption, FS_RemoveElement
<1>5. Cardinality(M) \in Nat /\ Cardinality(M) <= Cardinality(free)
  <2>1. IsFiniteSet(M) /\ Cardinality(M) <= Cardinality(free)
    BY <1>3, <1>4, FS_Injection
  <2> QED
    BY <2>1, FS_CardinalityType
<1>6. Cardinality(Places) \in Nat
  BY PlacesAssumption, FS_CardinalityType
<1> QED
  BY <1>4, <1>5, <1>6

\* When the poll finds its markers, every task of the region is idle.
LEMMA EnoughMarkers ==
  ASSUME TypeOK, QuietInvariant, NEW g \in Regions, poll[g] = "listing",
         Cardinality(MarkersOf(g)) >= Cardinality(Places)
  PROVE  \A s \in SlotsOf(g) : task[s] = "idle"
<1> TAKE s \in SlotsOf(g)
<1>1. \A t \in MarkersOf(g) : t \in Tasks /\ t[1][1] = g
  BY DEF MarkersOf, TypeOK
<1>2. \A t, u \in MarkersOf(g) : t[1] = u[1] => t = u
  <2>1. \A t \in MarkersOf(g) : t \in Tasks /\ t[2] = gen[t[1]]
    BY DEF MarkersOf, TypeOK, QuietInvariant, MarkersAreCurrent
  <2> QED
    BY <2>1 DEF Tasks
<1>3. PICK t \in MarkersOf(g) : t[1] = s
  BY <1>1, <1>2, OneMarkerPerPlace
<1>4. task[s] \in {"idle", "gone"}
  BY <1>3 DEF MarkersOf, QuietInvariant, MarkersAreCurrent
<1>5. s \in Slots /\ s[1] = g
  BY DEF SlotsOf
<1> QED
  BY <1>4, <1>5 DEF QuietInvariant, GoneRegionsAreCleaned

\* As long as idle tasks stay, QuietInvariant is inductive.
LEMMA QuietStep ==
  ASSUME ~IdleTasksStop, TypeOK, QuietInvariant, [Next]_vars
  PROVE  QuietInvariant'
<1> USE DEF QuietInvariant
<1>1. CASE SetRunning \/ EndExecutionMap \/ HandlerWork \/ HandleSpurious \/ UNCHANGED vars
  <2>1. UNCHANGED <<markers, gen, task, poll>>
    BY <1>1 DEF SetRunning, EndExecutionMap, HandlerWork, HandleSpurious,
                HandleFailure, IncrementFailureCount, MarkFailed, vars,
                taskVars, pollVars
  <2> QED
    BY <2>1 DEF MarkersAreCurrent, GoneRegionsAreCleaned, CompletedRegionsAreQuiet
<1>2. ASSUME NEW g \in Regions,
             SendStart(g) \/ ReadStatus(g) \/ SignalAges(g) \/ DeadlineExceeded(g)
      PROVE  QuietInvariant'
  <2>1. UNCHANGED <<markers, gen, task>>
    BY <1>2 DEF SendStart, ReadStatus, SignalAges, DeadlineExceeded, taskVars
  <2>2. \A h \in Regions : poll'[h] \in {"success", "cleaned"}
                              <=> poll[h] \in {"success", "cleaned"}
    BY <1>2 DEF SendStart, ReadStatus, SignalAges, DeadlineExceeded, TypeOK
  <2>3. \A h \in Regions : poll'[h] = poll[h] \/ poll'[h] \notin {"success", "cleaned"}
    BY <1>2 DEF SendStart, ReadStatus, SignalAges, DeadlineExceeded, TypeOK
  <2> QED
    BY <2>1, <2>2, <2>3 DEF Slots, MarkersAreCurrent, GoneRegionsAreCleaned,
                            CompletedRegionsAreQuiet
<1>3. ASSUME NEW g \in Regions, MonitorCompletion(g) PROVE QuietInvariant'
  <2>1. UNCHANGED <<markers, gen, task>>
    BY <1>3 DEF MonitorCompletion, taskVars
  <2>2. MarkersAreCurrent' /\ GoneRegionsAreCleaned'
    BY <1>3, <2>1 DEF MonitorCompletion, TypeOK, Slots, MarkersAreCurrent,
                      GoneRegionsAreCleaned
  <2>3. \A h \in Regions : poll'[h] = "success" /\ poll[h] # "success"
            => h = g /\ Cardinality(MarkersOf(g)) >= Cardinality(Places)
    BY <1>3 DEF MonitorCompletion, TypeOK
  <2>4. CompletedRegionsAreQuiet'
    BY <1>3, <2>1, <2>3, EnoughMarkers DEF MonitorCompletion, CompletedRegionsAreQuiet
  <2> QED
    BY <2>2, <2>4
<1>4. ASSUME NEW g \in Regions, CleanRegion(g) PROVE QuietInvariant'
  <2>1. /\ poll[g] = "failed" /\ poll' = [poll EXCEPT ![g] = "cleaned"]
        /\ UNCHANGED <<markers, gen>>
    BY <1>4 DEF CleanRegion
  <2>2. \A s \in Slots : task'[s] = IF s[1] = g THEN "gone" ELSE task[s]
    BY <1>4 DEF CleanRegion
  <2>3. \A t \in markers : t[1] \in Slots
    BY DEF TypeOK, Tasks
  <2>4. MarkersAreCurrent'
    BY <2>1, <2>2, <2>3 DEF MarkersAreCurrent
  <2>5. GoneRegionsAreCleaned'
    BY <2>1, <2>2 DEF GoneRegionsAreCleaned, TypeOK, Slots
  <2>6. CompletedRegionsAreQuiet'
    BY <2>1, <2>2 DEF CompletedRegionsAreQuiet, TypeOK, SlotsOf
  <2> QED
    BY <2>4, <2>5, <2>6
<1>5. ASSUME NEW s \in Slots, TaskWork(s) PROVE QuietInvariant'
  <2>1. /\ task[s] \in {"starting", "waiting", "loading"}
        /\ task'[s] \in {"waiting", "loading", "idle"}
        /\ \A u \in Slots \ {s} : task'[u] = task[u]
        /\ \/ markers' = markers
           \/ markers' = markers \cup {<<s, gen[s]>>} /\ task'[s] = "idle"
        /\ UNCHANGED <<gen, poll>>
    BY <1>5 DEF TaskWork, TaskComesUp, StartLoading, SkipLoading, FinishLoading,
                TaskId, TypeOK, pollVars
  <2>2. \A t \in markers : t[1] \in Slots \ {s}
    BY <2>1 DEF TypeOK, Tasks, MarkersAreCurrent
  <2>3. MarkersAreCurrent'
    BY <2>1, <2>2 DEF MarkersAreCurrent
  <2>4. GoneRegionsAreCleaned'
    BY <2>1 DEF GoneRegionsAreCleaned
  <2>5. CompletedRegionsAreQuiet'
    BY <2>1 DEF CompletedRegionsAreQuiet, SlotsOf
  <2> QED
    BY <2>3, <2>4, <2>5
<1>6. ASSUME NEW s \in Slots, NEW withFailure \in BOOLEAN, StopTask(s, withFailure)
      PROVE  QuietInvariant'
  BY <1>6 DEF StopTask, TypeOK, Slots, SlotsOf, Tasks, MarkersAreCurrent,
              GoneRegionsAreCleaned, CompletedRegionsAreQuiet, pollVars
<1> QED
  BY <1>1, <1>2, <1>3, <1>4, <1>5, <1>6 DEF Next, RegionWork

\* Unless idle tasks stop, a region is reported complete only when all its tasks
\* are idle.
THEOREM CompletionIsQuiet ==
  ASSUME ~IdleTasksStop
  PROVE  Spec => []CompletedRegionsAreQuiet
<1>1. Init => QuietInvariant
  BY DEF Init, QuietInvariant, MarkersAreCurrent, GoneRegionsAreCleaned,
         CompletedRegionsAreQuiet, Slots
<1>2. TypeOK /\ QuietInvariant /\ [Next]_vars => QuietInvariant'
  BY QuietStep
<1>3. QuietInvariant => CompletedRegionsAreQuiet
  BY DEF QuietInvariant
<1> QED
  BY <1>1, <1>2, <1>3, MonitorTypeCorrect, PTL DEF Spec

-------------------------------------------------------------------------------
(***************************************************************************)
(* Breaches.                                                               *)
(***************************************************************************)

\* The sets that are counted are finite.
LEMMA FailuresAreFinite ==
  ASSUME TypeOK
  PROVE  IsFiniteSet(failed) /\ IsFiniteSet(failed \ undelivered)
<1>1. IsFiniteSet(0 .. MaxStops)
  BY BoundsAssumption, FS_Interval
<1>2. IsFiniteSet(Tasks)
  BY <1>1, RegionsAssumption, PlacesAssumption, FS_Product DEF Tasks, Slots
<1> QED
  BY <1>2, FS_Subset DEF TypeOK

\* Desired \in Nat, and more failures breach what fewer breached.
LEMMA BreachIsMonotone ==
  ASSUME NEW m \in Nat, NEW n \in Nat, m <= n, IsThresholdBreached(m)
  PROVE  IsThresholdBreached(n)
<1>1. Desired \in Nat
  BY RegionsAssumption, PlacesAssumption, FS_Product, FS_CardinalityType
     DEF Desired, Slots
<1>2. HealthyThreshold * Desired \in Int
  BY <1>1, ThresholdAssumption
<1> DEFINE needed == HealthyThreshold * Desired
<1>3. \/ (Desired - m) * 100 < needed
      \/ (Desired - m) * 100 = needed /\ RoundsBelow
  BY DEF IsThresholdBreached
<1>4. needed \in Int
  BY <1>2
<1> HIDE DEF needed
<1>5. n = m \/ (Desired - n) * 100 < needed
  <2>1. CASE (Desired - m) * 100 <= needed
    BY <1>1, <1>4, <2>1
  <2> QED
    BY <1>1, <1>3, <1>4, <2>1
<1> QED
  BY <1>5 DEF needed, IsThresholdBreached

\* A delivered event moves one failure to the delivered ones and counts it.
LEMMA CountOne ==
  ASSUME TypeOK, FailuresAreCounted, NEW t, HandleFailure(t)
  PROVE  FailuresAreCounted'
<1>1. /\ t \in undelivered /\ undelivered' = undelivered \ {t}
      /\ taskFailureCount' = taskFailureCount + 1
      /\ UNCHANGED <<failed, gen, spurious>>
  BY DEF HandleFailure, IncrementFailureCount, taskVars
<1>2. failed \ undelivered' = (failed \ undelivered) \cup {t}
  BY <1>1 DEF TypeOK
<1>3. Cardinality(failed \ undelivered') = Cardinality(failed \ undelivered) + 1
  BY <1>1, <1>2, FailuresAreFinite, FS_AddElement
<1>4. Cardinality(failed \ undelivered) \in Nat
  BY FailuresAreFinite, FS_CardinalityType
<1> QED
  BY <1>1, <1>3, <1>4, Numbers DEF FailuresAreCounted

\* A task that stops has not failed before: the counted failures stay.
LEMMA StopCountsNothing ==
  ASSUME TypeOK, FailuresAreCounted, NEW s \in Slots, NEW withFailure \in BOOLEAN,
         StopTask(s, withFailure)
  PROVE  FailuresAreCounted'
<1>1. /\ failed' \subseteq failed \cup {<<s, gen[s]>>}
      /\ gen'[s] = gen[s] + 1
      /\ \A u \in Slots \ {s} : gen'[u] = gen[u]
      /\ UNCHANGED <<taskFailureCount, spurious>>
  BY DEF StopTask, TaskId, scenarioVars, TypeOK
<1>2. <<s, gen[s]>> \notin failed
  BY Numbers DEF FailuresAreCounted
<1>3. failed' \ undelivered' = failed \ undelivered
  BY <1>2 DEF StopTask, TaskId
<1>4. \A t \in failed' : t[2] < gen'[t[1]]
  <2> TAKE t \in failed'
  <2>1. \A u \in Slots : gen[u] \in Nat
    BY Numbers
  <2>2. CASE t = <<s, gen[s]>>
    BY <1>1, <2>1, <2>2
  <2>3. CASE t \in failed
    <3>1. t[1] \in Slots /\ t[2] \in Nat
      BY <2>3, Numbers DEF TypeOK
    <3>2. t[2] < gen[t[1]]
      BY <2>3 DEF FailuresAreCounted
    <3>3. gen'[t[1]] = gen[t[1]] \/ gen'[t[1]] = gen[t[1]] + 1
      BY <1>1, <3>1
    <3> QED
      BY <2>1, <3>1, <3>2, <3>3
  <2> QED
    BY <1>1, <2>2, <2>3
<1> QED
  BY <1>1, <1>3, <1>4 DEF FailuresAreCounted

\* Every step keeps the count of failures in step with the failures.
LEMMA CountedStep ==
  ASSUME TypeOK, FailuresAreCounted, [Next]_vars
  PROVE  FailuresAreCounted'
<1>1. CASE UNCHANGED <<failed, undelivered, gen, spurious, taskFailureCount>>
  BY <1>1 DEF FailuresAreCounted
<1>2. CASE HandleSpurious
  <2>1. /\ taskFailureCount' = taskFailureCount + 1 /\ spurious' = spurious + 1
        /\ UNCHANGED <<failed, undelivered, gen>>
    BY <1>2 DEF HandleSpurious, IncrementFailureCount, taskVars
  <2>2. Cardinality(failed \ undelivered) \in Nat
    BY FailuresAreFinite, FS_CardinalityType
  <2> QED
    BY <2>1, <2>2, Numbers DEF FailuresAreCounted
<1>3. CASE SetRunning \/ EndExecutionMap \/ MarkFailed \/ UNCHANGED vars
  BY <1>1, <1>3 DEF SetRunning, EndExecutionMap, MarkFailed, vars, taskVars, handlerVars
<1>4. ASSUME NEW g \in Regions, RegionWork(g) \/ DeadlineExceeded(g)
      PROVE  FailuresAreCounted'
  BY <1>1, <1>4 DEF RegionWork, DeadlineExceeded, SendStart, ReadStatus,
     MonitorCompletion, CleanRegion, SignalAges, scenarioVars, taskVars, handlerVars
<1>5. ASSUME NEW s \in Slots, TaskWork(s) PROVE FailuresAreCounted'
  BY <1>1, <1>5 DEF TaskWork, TaskComesUp, StartLoading, SkipLoading, FinishLoading,
     scenarioVars, handlerVars
<1> QED
  BY <1>2, <1>3, <1>4, <1>5, CountOne, StopCountsNothing DEF Next, HandlerWork

\* Every step that leads to a decision or a failed scenario has seen the breach.
LEMMA BreachStep ==
  ASSUME TypeOK, TypeOK', BreachWasSeen, [Next]_vars
  PROVE  BreachWasSeen'
<1>1. taskFailureCount' >= taskFailureCount
  <2>1. taskFailureCount' \in {taskFailureCount, taskFailureCount + 1}
    BY DEF Next, vars, SetRunning, EndExecutionMap, HandlerWork, HandleSpurious,
       HandleFailure, IncrementFailureCount, MarkFailed, RegionWork, DeadlineExceeded,
       SendStart, ReadStatus, MonitorCompletion, CleanRegion, SignalAges, TaskWork,
       TaskComesUp, StartLoading, SkipLoading, FinishLoading, StopTask, scenarioVars
  <2>2. taskFailureCount \in Nat
    BY DEF TypeOK
  <2> QED
    BY <2>1, <2>2
<1>2. IsThresholdBreached(taskFailureCount) => IsThresholdBreached(taskFailureCount')
  BY <1>1, BreachIsMonotone DEF TypeOK
<1>3. \/ (deciding' => deciding) /\ (status' = "failed" => status = "failed" \/ deciding)
      \/ deciding' /\ IsThresholdBreached(taskFailureCount')
  BY DEF Next, vars, SetRunning, EndExecutionMap, MetadataWrite, HandlerWork,
     HandleSpurious, HandleFailure, IncrementFailureCount, MarkFailed, RegionWork,
     DeadlineExceeded, SendStart, ReadStatus, MonitorCompletion, CleanRegion,
     SignalAges, TaskWork, TaskComesUp, StartLoading, SkipLoading, FinishLoading,
     StopTask, scenarioVars, handlerVars
<1> QED
  BY <1>2, <1>3 DEF BreachWasSeen

\* A scenario is failed only when the failures of the run, with the events that
\* were delivered twice or left over, breach the threshold.
THEOREM FailureNeedsBreach == Spec => []FailedOnlyOnBreach
<1>1. Init => BreachInvariant
  BY FS_EmptySet DEF Init, BreachInvariant, FailuresAreCounted, BreachWasSeen
<1>2. TypeOK /\ TypeOK' /\ BreachInvariant /\ [Next]_vars => BreachInvariant'
  BY CountedStep, BreachStep DEF BreachInvariant
<1>3. TypeOK /\ BreachInvariant => FailedOnlyOnBreach
  <2> SUFFICES ASSUME TypeOK, BreachInvariant, status = "failed"
               PROVE  IsThresholdBreached(Cardinality(failed) + spurious)
    BY DEF FailedOnlyOnBreach
  <2>1. /\ Cardinality(failed) \in Nat
        /\ Cardinality(failed \ undelivered) \in Nat
        /\ Cardinality(failed \ undelivered) <= Cardinality(failed)
    BY FailuresAreFinite, FS_Subset, FS_CardinalityType
  <2>2. /\ taskFailureCount \in Nat /\ spurious \in Nat
        /\ taskFailureCount <= Cardinality(failed) + spurious
    BY <2>1 DEF BreachInvariant, FailuresAreCounted, TypeOK
  <2>3. IsThresholdBreached(taskFailureCount)
    BY DEF BreachInvariant, BreachWasSeen
  <2> QED
    BY <2>1, <2>2, <2>3, BreachIsMonotone
<1> QED
  BY <1>1, <1>2, <1>3, MonitorTypeCorrect, PTL DEF Spec
===============================================================================
