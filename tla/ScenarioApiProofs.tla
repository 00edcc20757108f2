--------------------------- MODULE ScenarioApiProofs ---------------------------
(***************************************************************************)
(* For any number of requests and runs: the baseline of a scenario is a    *)
(* run that is still there; its status can be relied upon by whoever saves *)
(* or deletes it; a deletion takes everything and is for good; "scheduled" *)
(* means a schedule; and totalTestRuns is the number of history items, but *)
(* for updates of it that failed.                                          *)
(* Each theorem names what the users must keep apart for it.               *)
(***************************************************************************)
EXTENDS ScenarioApi, FiniteSetTheorems, TLAPS

RequestType == [op : Ops \cup {"none"}, at : Calls,
                found : Status \cup {Absent}, runs : SUBSET Runs]

\* The statuses written are statuses.
LEMMA StatusesKnown ==
  /\ {"created", "queued", "scheduled", "failed", "running", "cleaning up",
      "complete"} \subseteq Status
  /\ NoRequest \in RequestType
  BY DEF Status, Terminal, NoRequest, RequestType, Calls

\* A request goes on, or ends, in the shape of a request.
LEMMA ThenType ==
  ASSUME TypeOK, NEW q \in Requests, NEW call \in Calls, Then(q, call)
  PROVE  req' \in [Requests -> RequestType]
  BY DEF TypeOK, Then, RequestType

\* A request that ends is no request.
LEMMA EndType ==
  ASSUME TypeOK, NEW q \in Requests, End(q)
  PROVE  req' \in [Requests -> RequestType]
  BY StatusesKnown DEF TypeOK, End, RequestType

\* A new request is a request.
LEMMA BeginType ==
  ASSUME TypeOK, NEW q \in Requests, NEW op \in Ops, NEW runs \in SUBSET Runs,
         Begin(q, op, runs)
  PROVE  req' \in [Requests -> RequestType]
<1>1. FirstCall(op) \in Calls
  BY DEF FirstCall, Calls, Ops
<1>2. [op |-> op, at |-> FirstCall(op), found |-> Absent, runs |-> runs] \in RequestType
  BY <1>1 DEF RequestType
<1> QED
  BY <1>2 DEF TypeOK, Begin, RequestType

\* What the counter is set to or grows by.
LEMMA NumbersKnown == 0 \in Int /\ 1 \in Int
  OBVIOUS

\* Losses are counted up to their bound.
LEMMA LossesType == ASSUME TypeOK, Lose PROVE losses' \in 0 .. MaxLosses
  BY LossAssumption DEF Lose, TypeOK

\* New requests keep the types.
LEMMA BeginKeepsType ==
  ASSUME TypeOK, NEW q \in Requests,
         AskFor(q) \/ CreateFires(q) \/ (\E r \in Runs : ScheduledFires(q, r))
  PROVE  TypeOK'
<1>1. req' \in [Requests -> RequestType]
  <2>1. \E op \in Ops, runs \in SUBSET Runs : Begin(q, op, runs)
    BY DEF AskFor, CreateFires, ScheduledFires, Ops
  <2> QED
    BY <2>1, BeginType
<1>2. schedules' \subseteq Schedules
  BY DEF AskFor, CreateFires, ScheduledFires, TypeOK
<1>3. UNCHANGED <<itemVars, history, expired, runVars, losses>>
  BY DEF AskFor, CreateFires, ScheduledFires
<1> QED
  BY <1>1, <1>2, <1>3 DEF TypeOK, RequestType, itemVars, runVars

\* The steps about schedules keep the types.
LEMMA ScheduleKeepsType ==
  ASSUME TypeOK, NEW q \in Requests,
         DropCreate(q) \/ DropScheduled(q) \/ PutSchedule(q) \/ StartExpired(q)
  PROVE  TypeOK'
<1>a. \A call \in {"dropCreate", "dropScheduled", "deleteItem", "putSchedule",
                   "write"} : call \in Calls
  BY DEF Calls
<1>1. req' \in [Requests -> RequestType]
  <2>1. \/ End(q)
        \/ \E call \in {"dropCreate", "dropScheduled", "deleteItem", "putSchedule",
                        "write"} : Then(q, call)
    BY DEF DropCreate, DropScheduled, PutSchedule, StartExpired
  <2> QED
    BY <1>a, <2>1, ThenType, EndType
<1>2. schedules' \subseteq Schedules /\ expired' \in BOOLEAN
  BY DEF DropCreate, DropScheduled, PutSchedule, StartExpired, TypeOK, NameOf,
         Schedules
<1>3. UNCHANGED <<itemVars, history, runVars, losses>>
  BY DEF DropCreate, DropScheduled, PutSchedule, StartExpired
<1> QED
  BY <1>1, <1>2, <1>3 DEF TypeOK, RequestType, itemVars, runVars

\* The reads keep the types: they change the request only.
LEMMA ReadKeepsType ==
  ASSUME TypeOK, NEW q \in Requests,
         \/ ReadForSave(q) \/ ReadForDelete(q) \/ QueryHistory(q)
         \/ ReadForDeleteRuns(q) \/ ReadExistingRuns(q)
         \/ ReadForBaseline(q) \/ ReadBaselineRun(q) \/ ReadForClear(q)
  PROVE  TypeOK'
<1>a. \A call \in {"dropCreate", "readHistory", "setBaseline", "clearBaseline",
                   "write", "deleteHistory"} : call \in Calls
  BY DEF Calls
<1>1. req' \in [Requests -> RequestType]
  <2>1. CASE ReadForSave(q)
    <3>1. CASE End(q)
      BY <3>1, EndType
    <3>2. CASE req' = [req EXCEPT ![q].at = "write",
                                  ![q].found = IF exists THEN status ELSE "created"]
      BY <3>2, <1>a, StatusesKnown DEF TypeOK, RequestType
    <3> QED
      BY <2>1, <3>1, <3>2 DEF ReadForSave
  <2>2. CASE QueryHistory(q)
    BY <2>2, <1>a DEF QueryHistory, TypeOK, RequestType
  <2>3. CASE ReadExistingRuns(q)
    <3>1. CASE End(q)
      BY <3>1, EndType
    <3>2. CASE req' = [req EXCEPT ![q].at = "deleteHistory",
                                  ![q].runs = @ \cap history]
      BY <3>2, <1>a DEF TypeOK, RequestType
    <3> QED
      BY <2>3, <3>1, <3>2 DEF ReadExistingRuns
  <2>4. CASE \/ End(q)
             \/ \E call \in {"dropCreate", "readHistory", "setBaseline",
                             "clearBaseline"} : Then(q, call)
    BY <1>a, <2>4, ThenType, EndType
  <2> QED
    BY <2>1, <2>2, <2>3, <2>4
       DEF ReadForDelete, ReadForDeleteRuns, ReadForBaseline, ReadBaselineRun,
           ReadForClear
<1>2. UNCHANGED <<itemVars, history, schedules, expired, runVars, losses>>
  BY DEF ReadForSave, ReadForDelete, QueryHistory, ReadForDeleteRuns,
         ReadExistingRuns, ReadForBaseline, ReadBaselineRun, ReadForClear
<1> QED
  BY <1>1, <1>2 DEF TypeOK, RequestType, itemVars, runVars

\* Adding an integer to the counter, or failing to, gives an integer.
LEMMA CounterType ==
  ASSUME TypeOK, NEW n \in Int, AddToCounter(n)
  PROVE  counter' \in Int /\ drift' \in Drifts
  BY DEF TypeOK, AddToCounter

\* The number of runs of a request is an integer, if Runs is finite.
LEMMA RunsCounted ==
  ASSUME TypeOK, NEW q \in Requests PROVE -Cardinality(req[q].runs) \in Int
<1>1. IsFiniteSet(req[q].runs)
  BY RequestsAssumption, FS_Subset DEF TypeOK
<1> QED
  BY <1>1, FS_CardinalityType

\* The writes of requests keep the types.
LEMMA WriteKeepsType ==
  ASSUME TypeOK, NEW q \in Requests,
         \/ \E r \in Runs : Incompatible(q, r)
         \/ PutFailedRun(q) \/ CountFailedRun(q) \/ StartExecution(q)
         \/ UpdateTestDBEntry(q) \/ DeleteItem(q) \/ DeleteHistory(q)
         \/ DecrementCounter(q) \/ SetBaseline(q) \/ ClearBaseline(q)
  PROVE  TypeOK'
<1>a. \A call \in {"putFailedRun", "countFailedRun", "write", "queryHistory",
                   "decrement"} : call \in Calls
  BY DEF Calls
<1>1. ASSUME NEW r \in Runs, Incompatible(q, r) PROVE TypeOK'
  <2>1. req' \in [Requests -> RequestType]
    BY <1>1, <1>a DEF Incompatible, TypeOK, RequestType
  <2>2. exec' \in [Runs -> ExecStates]
    BY <1>1 DEF Incompatible, TypeOK, ExecStates
  <2> QED
    BY <1>1, <2>1, <2>2 DEF Incompatible, TypeOK, RequestType, itemVars
<1>2. CASE PutFailedRun(q)
  <2>1. req' \in [Requests -> RequestType]
    BY <1>2, <1>a, ThenType DEF PutFailedRun
  <2>2. history' \subseteq Runs
    BY <1>2 DEF PutFailedRun, TypeOK
  <2> QED
    BY <1>2, <2>1, <2>2 DEF PutFailedRun, TypeOK, RequestType, itemVars, runVars
<1>3. CASE CountFailedRun(q)
  <2>1. req' \in [Requests -> RequestType]
    BY <1>3, EndType DEF CountFailedRun
  <2>2. counter' \in Int /\ drift' \in Drifts
    BY <1>3, CounterType DEF CountFailedRun
  <2> QED
    BY <1>3, <2>1, <2>2 DEF CountFailedRun, TypeOK, RequestType, runVars
<1>4. CASE StartExecution(q)
  <2>1. req' \in [Requests -> RequestType]
    BY <1>4, <1>a, ThenType DEF StartExecution
  <2>2. exec' \in [Runs -> ExecStates]
    BY <1>4 DEF StartExecution, TypeOK, ExecStates
  <2> QED
    BY <1>4, <2>1, <2>2 DEF StartExecution, TypeOK, RequestType, itemVars
<1>5. CASE UpdateTestDBEntry(q)
  <2>1. req' \in [Requests -> RequestType]
    BY <1>5, EndType DEF UpdateTestDBEntry
  <2>2. req[q].found \in Status \cup {Absent}
    BY DEF TypeOK
  <2>3. status' \in Status \cup {Absent}
    BY <1>5, <2>2, StatusesKnown DEF UpdateTestDBEntry
  <2> QED
    BY <1>5, <2>1, <2>3 DEF UpdateTestDBEntry, TypeOK, RequestType, runVars
<1>6. CASE DeleteItem(q)
  <2>1. req' \in [Requests -> RequestType]
    BY <1>6, <1>a, ThenType DEF DeleteItem
  <2>2. exists' \in BOOLEAN /\ counter' \in Int /\ drift' \in Drifts
    <3>1. exists' = FALSE /\ counter' = 0 /\ drift' = 0
      BY <1>6 DEF DeleteItem
    <3> QED
      BY <3>1, NumbersKnown, DriftAssumption, Zenon
  <2>3. status' \in Status \cup {Absent} /\ baseline' \in Runs \cup {NoRun}
    BY <1>6 DEF DeleteItem
  <2>4. UNCHANGED <<history, schedules, expired, runVars, losses>>
    BY <1>6 DEF DeleteItem
  <2> QED
    BY <2>1, <2>2, <2>3, <2>4 DEF TypeOK, RequestType, runVars
<1>7. CASE DeleteHistory(q)
  <2>1. req' \in [Requests -> RequestType]
    BY <1>7, <1>a, ThenType, EndType DEF DeleteHistory
  <2>2. history' \subseteq Runs
    BY <1>7 DEF DeleteHistory, TypeOK
  <2> QED
    BY <1>7, <2>1, <2>2 DEF DeleteHistory, TypeOK, RequestType, itemVars, runVars
<1>8. CASE DecrementCounter(q)
  <2>1. req' \in [Requests -> RequestType]
    BY <1>8, EndType DEF DecrementCounter
  <2>2. counter' \in Int /\ drift' \in Drifts
    BY <1>8, CounterType, RunsCounted DEF DecrementCounter
  <2> QED
    BY <1>8, <2>1, <2>2 DEF DecrementCounter, TypeOK, RequestType, runVars
<1>9. CASE SetBaseline(q) \/ ClearBaseline(q)
  <2>1. req' \in [Requests -> RequestType]
    BY <1>9, EndType DEF SetBaseline, ClearBaseline
  <2>2. baseline' \in Runs \cup {NoRun}
    BY <1>9 DEF SetBaseline, ClearBaseline, TypeOK
  <2> QED
    BY <1>9, <2>1, <2>2 DEF SetBaseline, ClearBaseline, TypeOK, RequestType, runVars
<1> QED
  BY <1>1, <1>2, <1>3, <1>4, <1>5, <1>6, <1>7, <1>8, <1>9

\* So do the executions, and a request that is cut off.
LEMMA RunKeepsType ==
  ASSUME TypeOK, NEW r \in Runs,
         \/ \E new \in {"running", "cleaning up", "complete", "failed"} :
              UpdaterReads(r, new)
         \/ UpdateScenario(r) \/ UpdateHistory(r) \/ CountRun(r) \/ FailEarly(r)
  PROVE  TypeOK'
<1>a. \A e \in {"scenario", "history", "count", "over", "underWay"} : e \in ExecStates
  BY DEF ExecStates, Updating
<1>1. ASSUME NEW new \in {"running", "cleaning up", "complete", "failed"},
             UpdaterReads(r, new)
      PROVE  TypeOK'
  <2>1. exec' \in [Runs -> ExecStates] /\ writing' \in [Runs -> Status \cup {Absent}]
    <3>1. new \in Status
      BY StatusesKnown
    <3> QED
      <4>1. CASE exists
        <5>1. /\ exec' = [exec EXCEPT ![r] = "scenario"]
              /\ writing' = [writing EXCEPT ![r] = new]
          BY <1>1, <4>1 DEF UpdaterReads
        <5> QED
          BY <1>a, <3>1, <5>1 DEF TypeOK
      <4>2. CASE ~exists
        BY <1>1, <1>a, <4>2 DEF UpdaterReads, TypeOK
      <4> QED
        BY <4>1, <4>2
  <2> QED
    BY <1>1, <2>1 DEF UpdaterReads, TypeOK, itemVars
<1>2. CASE UpdateScenario(r)
  <2>1. status' \in Status \cup {Absent}
    BY <1>2 DEF UpdateScenario, MetadataWrite, TypeOK
  <2>2. exec' \in [Runs -> ExecStates]
    BY <1>2, <1>a DEF UpdateScenario, TypeOK
  <2> QED
    BY <1>2, <2>1, <2>2 DEF UpdateScenario, TypeOK
<1>b. ASSUME EndUpdate(r)
      PROVE  exec' \in [Runs -> ExecStates] /\ writing' \in [Runs -> Status \cup {Absent}]
  BY <1>a, <1>b DEF EndUpdate, TypeOK
<1>3. CASE UpdateHistory(r)
  <2>1. exec' \in [Runs -> ExecStates] /\ writing' \in [Runs -> Status \cup {Absent}]
    <3>1. CASE r \in history
      BY <1>3, <1>b, <3>1 DEF UpdateHistory
    <3>2. CASE r \notin history
      BY <1>3, <1>a, <3>2 DEF UpdateHistory, TypeOK
    <3> QED
      BY <3>1, <3>2
  <2>2. history' \subseteq Runs
    BY <1>3 DEF UpdateHistory, TypeOK
  <2> QED
    BY <1>3, <2>1, <2>2 DEF UpdateHistory, TypeOK, itemVars
<1>4. CASE CountRun(r)
  <2>1. counter' \in Int /\ drift' \in Drifts
    <3>1. AddToCounter(1)
      BY <1>4 DEF CountRun
    <3> QED
      BY <3>1, NumbersKnown, CounterType
  <2>2. exec' \in [Runs -> ExecStates] /\ writing' \in [Runs -> Status \cup {Absent}]
    BY <1>4, <1>b DEF CountRun
  <2> QED
    BY <1>4, <2>1, <2>2 DEF CountRun, TypeOK
<1>5. CASE FailEarly(r)
  <2>1. losses' \in 0 .. MaxLosses
    BY <1>5, LossesType DEF FailEarly
  <2>2. exists' \in BOOLEAN /\ status' \in Status
    BY <1>5, StatusesKnown DEF FailEarly
  <2> QED
    BY <1>5, <2>1, <2>2 DEF FailEarly, TypeOK, runVars
<1> QED
  BY <1>1, <1>2, <1>3, <1>4, <1>5

\* A request that is cut off changes nothing but the losses.
LEMMA CutOffKeepsType == ASSUME TypeOK, NEW q \in Requests, CutOff(q) PROVE TypeOK'
<1>1. req' \in [Requests -> RequestType]
  BY EndType DEF CutOff
<1>2. losses' \in 0 .. MaxLosses
  BY LossesType DEF CutOff
<1> QED
  BY <1>1, <1>2 DEF CutOff, TypeOK, RequestType, itemVars, runVars

\* Every variable keeps its type, for any sets of requests and runs and whatever
\* is kept apart.
THEOREM ApiTypeCorrect == Spec => []TypeOK
<1>1. Init => TypeOK
  <2>1. "created" \in Status /\ "none" \in ExecStates
    BY StatusesKnown DEF ExecStates
  <2>3. 0 \in Int /\ 0 \in 0 .. MaxLosses
    BY LossAssumption
  <2>2. ASSUME Init PROVE req \in [Requests -> RequestType]
    BY <2>2, StatusesKnown DEF Init
  <2> QED
    BY DriftAssumption, <2>1, <2>2, <2>3 DEF Init, TypeOK, RequestType
<1>2. TypeOK /\ [Next]_vars => TypeOK'
  <2> SUFFICES ASSUME TypeOK, [Next]_vars PROVE TypeOK'
    OBVIOUS
  <2>1. CASE Next
    BY <2>1, BeginKeepsType, ScheduleKeepsType, ReadKeepsType, WriteKeepsType,
       RunKeepsType, CutOffKeepsType DEF Next, RequestStep
  <2>2. CASE UNCHANGED vars
    BY <2>2 DEF vars, TypeOK
  <2> QED
    BY <2>1, <2>2
<1> QED
  BY <1>1, <1>2, PTL DEF Spec
-------------------------------------------------------------------------------
\* Operations end but never change: what is apart stays apart.
LEMMA ApartKept ==
  ASSUME RequestsApart,
         \A p \in Requests : req'[p].op = req[p].op \/ req'[p].op = "none"
  PROVE  RequestsApart'
  BY DEF RequestsApart, InFlight, Op

\* What a request's next call, or its end, leaves of the requests.
LEMMA ThenMoves ==
  ASSUME TypeOK, NEW q \in Requests, NEW call, Then(q, call)
  PROVE  /\ \A p \in Requests : req'[p].op = req[p].op
         /\ \A p \in Requests \ {q} : req'[p] = req[p]
         /\ req'[q].at = call /\ req'[q].runs = req[q].runs
         /\ req'[q].found = req[q].found
  BY DEF TypeOK, Then

\* What the end of a request leaves of the requests.
LEMMA EndMoves ==
  ASSUME TypeOK, NEW q \in Requests, End(q)
  PROVE  /\ \A p \in Requests : req'[p].op = req[p].op \/ req'[p].op = "none"
         /\ \A p \in Requests \ {q} : req'[p] = req[p]
         /\ req'[q].at = "none" /\ req'[q].op = "none"
  BY DEF TypeOK, End, NoRequest

\* A request that does not move keeps hold of its runs while no history item
\* is deleted and the baseline stays.
LEMMA OthersHold ==
  ASSUME NEW p \in Requests, HoldsItsRuns(p), req'[p] = req[p],
         history \subseteq history', baseline' = baseline
  PROVE  HoldsItsRuns(p)'
  BY DEF HoldsItsRuns, At, Op

\* The calls whose requests hold runs.
Holding == {"setBaseline", "readHistory", "deleteItem", "queryHistory", "deleteHistory"}

\* A request at another call holds nothing.
LEMMA OthersFree ==
  ASSUME NEW p \in Requests, req'[p].at \notin Holding PROVE HoldsItsRuns(p)'
  BY DEF HoldsItsRuns, At, Holding

\* A step of q that deletes no history item, keeps the baseline and leaves q
\* elsewhere keeps the invariant.
LEMMA HarmlessStep ==
  ASSUME BaselineInvariant, NEW q \in Requests,
         history \subseteq history', baseline' = baseline,
         \A p \in Requests : req'[p].op = req[p].op \/ req'[p].op = "none",
         \A p \in Requests \ {q} : req'[p] = req[p],
         req'[q].at \notin Holding
  PROVE  BaselineInvariant'
<1>1. RequestsApart'
  BY ApartKept DEF BaselineInvariant
<1>2. ASSUME NEW p \in Requests PROVE HoldsItsRuns(p)'
  BY <1>2, OthersHold, OthersFree DEF BaselineInvariant, BaselineGuarded
<1> QED
  BY <1>1, <1>2 DEF BaselineInvariant, BaselineGuarded, BaselineIsARun

\* A new request is apart from those it must be apart from, and holds nothing.
LEMMA BeginKeepsBaseline ==
  ASSUME TypeOK, BaselineInvariant, NEW q \in Requests,
         AskFor(q) \/ CreateFires(q) \/ (\E r \in Runs : ScheduledFires(q, r))
  PROVE  BaselineInvariant'
<1>1. PICK op \in Ops, runs \in SUBSET Runs : Begin(q, op, runs)
  BY DEF AskFor, CreateFires, ScheduledFires, Ops
<1>2. history' = history /\ baseline' = baseline
  BY DEF AskFor, CreateFires, ScheduledFires, itemVars
<1>3. /\ \A p \in Requests \ {q} : req'[p] = req[p]
      /\ req'[q].op = op /\ req'[q].at = FirstCall(op)
  BY <1>1 DEF Begin, TypeOK
<1>4. FirstCall(op) \notin Holding
  BY DEF FirstCall, Holding
<1>5. ASSUME NEW p \in Requests PROVE HoldsItsRuns(p)'
  BY <1>2, <1>3, <1>4, <1>5, OthersHold, OthersFree DEF BaselineInvariant, BaselineGuarded
<1>6. RequestsApart'
  <2> SUFFICES ASSUME NEW p \in Requests, NEW o \in Requests, p # o,
                      InFlight(p)', InFlight(o)'
               PROVE  {Op(p), Op(o)}' \notin Apart
    BY DEF RequestsApart
  <2>1. \A z \in Requests \ {q} : InFlight(z) => {op, Op(z)} \notin Apart
    BY <1>1 DEF Begin, MayBegin
  <2>2. CASE p = q
    BY <1>3, <2>1, <2>2 DEF InFlight, Op
  <2>3. CASE o = q
    <3>1. {op, req[p].op} = {req[p].op, op}
      OBVIOUS
    <3> QED
      BY <1>3, <2>1, <2>3, <3>1 DEF InFlight, Op
  <2>4. CASE p # q /\ o # q
    BY <1>3, <2>4 DEF BaselineInvariant, RequestsApart, InFlight, Op
  <2> QED
    BY <2>2, <2>3, <2>4
<1> QED
  BY <1>2, <1>5, <1>6 DEF BaselineInvariant, BaselineGuarded, BaselineIsARun

\* The steps that have nothing to do with the baseline.
LEMMA HarmlessSteps ==
  ASSUME TypeOK, BaselineInvariant, NEW q \in Requests,
         \/ DropCreate(q) \/ PutSchedule(q) \/ StartExpired(q)
         \/ PutFailedRun(q) \/ CountFailedRun(q)
         \/ \E r \in Runs : Incompatible(q, r)
         \/ StartExecution(q) \/ ReadForSave(q) \/ UpdateTestDBEntry(q)
         \/ ReadForDelete(q) \/ DecrementCounter(q) \/ ReadForClear(q) \/ CutOff(q)
  PROVE  BaselineInvariant'
<1>1. history \subseteq history' /\ baseline' = baseline
  BY DEF DropCreate, PutSchedule, StartExpired, PutFailedRun, CountFailedRun,
         Incompatible, StartExecution, ReadForSave, UpdateTestDBEntry, ReadForDelete,
         DecrementCounter, ReadForClear, CutOff, itemVars
<1> DEFINE Moves == /\ \A p \in Requests : req'[p].op = req[p].op \/ req'[p].op = "none"
                    /\ \A p \in Requests \ {q} : req'[p] = req[p]
                    /\ req'[q].at \notin Holding
<1>2. Moves
  <2>1. ASSUME NEW call \in {"dropScheduled", "write", "dropCreate", "countFailedRun",
                             "clearBaseline"}, Then(q, call)
        PROVE  Moves
    BY <2>1, ThenMoves DEF Holding
  <2>2. CASE End(q)
    BY <2>2, EndMoves DEF Holding
  <2>3. ASSUME NEW r \in Runs, Incompatible(q, r) PROVE Moves
    <3>1. req' = [req EXCEPT ![q].at = "putFailedRun", ![q].runs = {r}]
      BY <2>3 DEF Incompatible
    <3> QED
      BY <3>1 DEF TypeOK, Holding
  <2>4. CASE req' = [req EXCEPT ![q].at = "write",
                                ![q].found = IF exists THEN status ELSE "created"]
    BY <2>4 DEF TypeOK, Holding
  <2> HIDE DEF Moves
  <2>5. CASE DropCreate(q) \/ PutFailedRun(q) \/ StartExpired(q) \/ StartExecution(q)
    BY <2>1, <2>5 DEF DropCreate, PutFailedRun, StartExpired, StartExecution
  <2>6. CASE \/ PutSchedule(q) \/ CountFailedRun(q) \/ UpdateTestDBEntry(q)
             \/ DecrementCounter(q) \/ ReadForClear(q) \/ CutOff(q)
    BY <2>1, <2>2, <2>6
       DEF PutSchedule, CountFailedRun, UpdateTestDBEntry, DecrementCounter,
           ReadForClear, CutOff
  <2>7. CASE ReadForSave(q) \/ ReadForDelete(q)
    BY <2>1, <2>2, <2>4, <2>7 DEF ReadForSave, ReadForDelete
  <2> QED
    BY <2>3, <2>5, <2>6, <2>7
<1> QED
  BY <1>1, <1>2, HarmlessStep


\* The same when q gets hold of runs, and has a right to them.
LEMMA HoldingStep ==
  ASSUME BaselineInvariant, NEW q \in Requests,
         history \subseteq history', baseline' = baseline,
         \A p \in Requests : req'[p].op = req[p].op,
         \A p \in Requests \ {q} : req'[p] = req[p],
         HoldsItsRuns(q)'
  PROVE  BaselineInvariant'
<1>1. RequestsApart'
  BY ApartKept DEF BaselineInvariant
<1>2. ASSUME NEW p \in Requests PROVE HoldsItsRuns(p)'
  BY <1>2, OthersHold DEF BaselineInvariant, BaselineGuarded
<1> QED
  BY <1>1, <1>2 DEF BaselineInvariant, BaselineGuarded, BaselineIsARun

\* The reads that give a request its runs.
LEMMA ReadKeepsBaseline ==
  ASSUME TypeOK, BaselineInvariant, NEW q \in Requests,
         \/ DropScheduled(q) \/ ReadForDeleteRuns(q) \/ ReadExistingRuns(q)
         \/ ReadForBaseline(q) \/ ReadBaselineRun(q)
  PROVE  BaselineInvariant'
<1>1. history' = history /\ baseline' = baseline
  BY DEF DropScheduled, ReadForDeleteRuns, ReadExistingRuns, ReadForBaseline,
         ReadBaselineRun, itemVars
<1>2. CASE End(q)
  BY <1>1, <1>2, EndMoves, HarmlessStep DEF Holding
<1>3. HoldsItsRuns(q)
  BY DEF BaselineInvariant, BaselineGuarded
<1>4. CASE DropScheduled(q) /\ ~End(q)
  <2>1. CASE Op(q) = "delete" /\ Then(q, "deleteItem")
    <3>1. HoldsItsRuns(q)'
      BY <2>1, ThenMoves DEF HoldsItsRuns, At, Op
    <3> QED
      BY <1>1, <2>1, <3>1, ThenMoves, HoldingStep
  <2>2. CASE Then(q, "putSchedule")
    BY <1>1, <2>2, ThenMoves, HarmlessStep DEF Holding
  <2> QED
    BY <1>4, <2>1, <2>2 DEF DropScheduled
<1>5. CASE (ReadForDeleteRuns(q) \/ ReadForBaseline(q)) /\ ~End(q)
  <2>1. Then(q, "readHistory")
    BY <1>5 DEF ReadForDeleteRuns, ReadForBaseline
  <2>2. \/ Op(q) = "setBaseline"
        \/ Op(q) = "deleteRuns" /\ baseline \notin req[q].runs
    BY <1>5 DEF ReadForDeleteRuns, ReadForBaseline
  <2>3. HoldsItsRuns(q)'
    BY <1>1, <2>1, <2>2, ThenMoves DEF HoldsItsRuns, At, Op
  <2> QED
    BY <1>1, <2>1, <2>3, ThenMoves, HoldingStep
<1>6. CASE ReadExistingRuns(q) /\ ~End(q)
  <2>1. req' = [req EXCEPT ![q].at = "deleteHistory", ![q].runs = @ \cap history]
    BY <1>6 DEF ReadExistingRuns
  <2>2. Op(q) = "deleteRuns" /\ At(q, "readHistory")
    BY <1>6 DEF ReadExistingRuns
  <2>3. /\ \A p \in Requests : req'[p].op = req[p].op
        /\ \A p \in Requests \ {q} : req'[p] = req[p]
        /\ req'[q].at = "deleteHistory" /\ req'[q].runs = req[q].runs \cap history
    BY <2>1 DEF TypeOK
  <2>4. HoldsItsRuns(q)'
    BY <1>1, <1>3, <2>2, <2>3 DEF HoldsItsRuns, At, Op
  <2> QED
    BY <1>1, <2>3, <2>4, HoldingStep
<1>7. CASE ReadBaselineRun(q) /\ ~End(q)
  <2>1. Then(q, "setBaseline") /\ Op(q) = "setBaseline" /\ req[q].runs \subseteq history
    BY <1>7 DEF ReadBaselineRun
  <2>2. HoldsItsRuns(q)'
    BY <1>1, <2>1, ThenMoves DEF HoldsItsRuns, At, Op
  <2> QED
    BY <1>1, <2>1, <2>2, ThenMoves, HoldingStep
<1> QED
  BY <1>2, <1>4, <1>5, <1>6, <1>7

\* Setting or clearing the baseline: no request that deletes runs is under way
\* when it is set, and clearing it takes it from nobody.
LEMMA WriteKeepsBaseline ==
  ASSUME TypeOK, BaselineInvariant, NEW q \in Requests,
         {"setBaseline", "deleteRuns"} \in Apart, {"setBaseline", "delete"} \in Apart,
         SetBaseline(q) \/ ClearBaseline(q)
  PROVE  BaselineInvariant'
<1>1. End(q) /\ history' = history
  BY DEF SetBaseline, ClearBaseline
<1>2. RequestsApart'
  BY <1>1, EndMoves, ApartKept DEF BaselineInvariant
<1>3. \A p \in Requests : HoldsItsRuns(p)
  BY DEF BaselineInvariant, BaselineGuarded
<1>4. CASE SetBaseline(q)
  <2>1. /\ Op(q) = "setBaseline"
        /\ req[q].runs \subseteq history /\ baseline' \in req[q].runs
    BY <1>3, <1>4 DEF SetBaseline, HoldsItsRuns
  <2>2. ASSUME NEW p \in Requests PROVE HoldsItsRuns(p)'
    <3>1. CASE p = q
      BY <1>1, <3>1, EndMoves, OthersFree DEF Holding
    <3>2. CASE p # q
      <4>1. Op(p) \notin {"deleteRuns", "delete"}
        BY <2>1, <3>2 DEF BaselineInvariant, RequestsApart, InFlight, Op
      <4>2. req'[p] = req[p]
        BY <1>1, <3>2, EndMoves
      <4> QED
        BY <1>1, <1>3, <4>1, <4>2 DEF HoldsItsRuns, At, Op
    <3> QED
      BY <3>1, <3>2
  <2> QED
    BY <1>1, <1>2, <2>1, <2>2 DEF BaselineInvariant, BaselineGuarded, BaselineIsARun
<1>5. CASE ClearBaseline(q)
  <2>1. baseline' = NoRun
    BY <1>5 DEF ClearBaseline
  <2>2. ASSUME NEW p \in Requests PROVE HoldsItsRuns(p)'
    <3>1. CASE p = q
      BY <1>1, <3>1, EndMoves, OthersFree DEF Holding
    <3>2. CASE p # q
      <4>1. req'[p] = req[p] /\ NoRun \notin req[p].runs
        BY <1>1, <3>2, EndMoves, NoRunAssumption DEF TypeOK
      <4> QED
        BY <1>1, <1>3, <2>1, <4>1 DEF HoldsItsRuns, At, Op
    <3> QED
      BY <3>1, <3>2
  <2> QED
    BY <1>2, <2>1, <2>2 DEF BaselineInvariant, BaselineGuarded, BaselineIsARun
<1> QED
  BY <1>4, <1>5

\* Deletions: a deleted item has no baseline, and the runs deleted are either
\* all of a deleted scenario's or do not have the baseline among them.
LEMMA DeleteKeepsBaseline ==
  ASSUME TypeOK, BaselineInvariant, NEW q \in Requests,
         {"setBaseline", "deleteRuns"} \in Apart, {"setBaseline", "delete"} \in Apart,
         DeleteItem(q) \/ QueryHistory(q) \/ DeleteHistory(q)
  PROVE  BaselineInvariant'
<1>1. \A p \in Requests : HoldsItsRuns(p)
  BY DEF BaselineInvariant, BaselineGuarded
<1>2. CASE DeleteItem(q)
  <2>1. Then(q, "queryHistory") /\ Op(q) = "delete" /\ baseline' = NoRun
        /\ history' = history
    BY <1>1, <1>2 DEF DeleteItem, HoldsItsRuns
  <2>2. ASSUME NEW p \in Requests PROVE HoldsItsRuns(p)'
    <3>1. CASE p = q
      BY <2>1, <3>1, ThenMoves DEF HoldsItsRuns, At, Op
    <3>2. CASE p # q
      <4>1. req'[p] = req[p] /\ NoRun \notin req[p].runs
        BY <2>1, <3>2, ThenMoves, NoRunAssumption DEF TypeOK
      <4> QED
        BY <1>1, <2>1, <4>1 DEF HoldsItsRuns, At, Op
    <3> QED
      BY <3>1, <3>2
  <2>3. RequestsApart'
    BY <2>1, ThenMoves, ApartKept DEF BaselineInvariant
  <2> QED
    BY <2>1, <2>2, <2>3 DEF BaselineInvariant, BaselineGuarded, BaselineIsARun
<1>3. CASE QueryHistory(q)
  <2>1. /\ history' = history /\ baseline' = baseline
        /\ req' = [req EXCEPT ![q].at = "deleteHistory", ![q].runs = history]
    BY <1>3 DEF QueryHistory, itemVars
  <2>2. Op(q) = "delete" /\ baseline = NoRun
    BY <1>1, <1>3 DEF QueryHistory, HoldsItsRuns
  <2>3. /\ \A p \in Requests : req'[p].op = req[p].op
        /\ \A p \in Requests \ {q} : req'[p] = req[p]
        /\ req'[q].at = "deleteHistory"
    BY <2>1 DEF TypeOK
  <2>4. HoldsItsRuns(q)'
    BY <2>1, <2>2, <2>3 DEF HoldsItsRuns, At, Op
  <2> QED
    BY <2>1, <2>3, <2>4, HoldingStep
<1>4. CASE DeleteHistory(q)
  <2>1. /\ history \ req[q].runs \subseteq history' /\ baseline' = baseline
        /\ Then(q, "decrement") \/ End(q)
    BY <1>4 DEF DeleteHistory, itemVars
  <2>2. /\ Op(q) \in {"delete", "deleteRuns"}
        /\ baseline = NoRun \/ baseline \notin req[q].runs
    BY <1>1, <1>4 DEF DeleteHistory, HoldsItsRuns, At
  <2>3. /\ \A p \in Requests : req'[p].op = req[p].op \/ req'[p].op = "none"
        /\ \A p \in Requests \ {q} : req'[p] = req[p]
        /\ req'[q].at \notin Holding
    BY <2>1, ThenMoves, EndMoves DEF Holding
  <2>4. ASSUME NEW p \in Requests PROVE HoldsItsRuns(p)'
    <3>1. CASE p = q
      BY <2>3, <3>1, OthersFree
    <3>2. CASE p # q
      <4>1. ~At(p, "setBaseline")
        <5>1. ASSUME Op(p) = "setBaseline" PROVE FALSE
          <6>1. {Op(p), Op(q)} \notin Apart
            BY <2>2, <3>2, <5>1 DEF BaselineInvariant, RequestsApart, InFlight, Op
          <6> QED
            BY <2>2, <5>1, <6>1
        <5> QED
          BY <1>1, <5>1 DEF HoldsItsRuns
      <4> QED
        BY <1>1, <2>1, <2>3, <3>2, <4>1 DEF HoldsItsRuns, At, Op
    <3> QED
      BY <3>1, <3>2
  <2>5. RequestsApart'
    BY <2>3, ApartKept DEF BaselineInvariant
  <2> QED
    BY <2>1, <2>2, <2>4, <2>5 DEF BaselineInvariant, BaselineGuarded, BaselineIsARun
<1> QED
  BY <1>2, <1>3, <1>4

\* The executions only ever add history items.
LEMMA RunKeepsBaseline ==
  ASSUME BaselineInvariant, NEW r \in Runs,
         \/ \E new \in {"running", "cleaning up", "complete", "failed"} :
              UpdaterReads(r, new)
         \/ UpdateScenario(r) \/ UpdateHistory(r) \/ CountRun(r) \/ FailEarly(r)
  PROVE  BaselineInvariant'
<1>1. history \subseteq history' /\ baseline' = baseline /\ req' = req
  BY DEF UpdaterReads, UpdateScenario, UpdateHistory, CountRun, FailEarly, itemVars
<1>2. RequestsApart'
  BY <1>1, ApartKept DEF BaselineInvariant
<1>3. ASSUME NEW p \in Requests PROVE HoldsItsRuns(p)'
  BY <1>1, <1>3, OthersHold DEF BaselineInvariant, BaselineGuarded
<1> QED
  BY <1>1, <1>2, <1>3 DEF BaselineInvariant, BaselineGuarded, BaselineIsARun

\* If setBaseline crosses neither deleteTestRuns nor deleteTest, the baseline is
\* a run with a history item, for any numbers of requests and runs, whatever else
\* is in flight together, cut off, left unprocessed or fired late.
THEOREM BaselinesAreRuns ==
  ASSUME {"setBaseline", "deleteRuns"} \in Apart, {"setBaseline", "delete"} \in Apart
  PROVE  Spec => []BaselineIsARun
<1>1. Init => BaselineInvariant
  BY DEF Init, BaselineInvariant, RequestsApart, BaselineGuarded, HoldsItsRuns,
         BaselineIsARun, NoRequest, InFlight, At, Op
<1>2. TypeOK /\ BaselineInvariant /\ [Next]_vars => BaselineInvariant'
  <2> SUFFICES ASSUME TypeOK, BaselineInvariant, [Next]_vars PROVE BaselineInvariant'
    OBVIOUS
  <2>1. ASSUME NEW q \in Requests,
               \/ AskFor(q) \/ CreateFires(q) \/ \E r \in Runs : ScheduledFires(q, r)
               \/ RequestStep(q) \/ CutOff(q)
        PROVE  BaselineInvariant'
    BY <2>1, BeginKeepsBaseline, HarmlessSteps, ReadKeepsBaseline, WriteKeepsBaseline,
       DeleteKeepsBaseline DEF RequestStep
  <2>2. ASSUME NEW r \in Runs,
               \/ \E new \in {"running", "cleaning up", "complete", "failed"} :
                    UpdaterReads(r, new)
               \/ UpdateScenario(r) \/ UpdateHistory(r) \/ CountRun(r) \/ FailEarly(r)
        PROVE  BaselineInvariant'
    BY <2>2, RunKeepsBaseline
  <2>3. CASE UNCHANGED vars
    BY <2>3 DEF vars, BaselineInvariant, RequestsApart, BaselineGuarded, HoldsItsRuns,
                BaselineIsARun, InFlight, At, Op
  <2> QED
    BY <2>1, <2>2, <2>3 DEF Next
<1>3. BaselineInvariant => BaselineIsARun
  BY DEF BaselineInvariant
<1> QED
  BY <1>1, <1>2, <1>3, ApiTypeCorrect, PTL DEF Spec

-------------------------------------------------------------------------------
(***************************************************************************)
(* Every operation makes its calls, and those kept apart are apart.        *)
(***************************************************************************)

\* What a step of a request does to the requests: the others stay, its own makes
\* a later call of its operation or ends.
Goes(q) ==
  /\ \A p \in Requests \ {q} : req'[p] = req[p]
  /\ \/ Op(q)' = Op(q) /\ req'[q].at \in CallsOf(Op(q)) \ {"read", "execute"}
     \/ Op(q)' = "none" /\ req'[q].at = "none"

\* Then makes a call of the operation, End ends it.
LEMMA ThenGoes ==
  ASSUME TypeOK, NEW q \in Requests, NEW call \in CallsOf(Op(q)) \ {"read", "execute"},
         Then(q, call)
  PROVE  Goes(q)
  BY ThenMoves DEF Goes, Op

\* Ending is going.
LEMMA EndGoes == ASSUME TypeOK, NEW q \in Requests, End(q) PROVE Goes(q)
  BY EndMoves DEF Goes, Op

\* The operation a request at some call can have.
LEMMA CallTells ==
  ASSUME CallsInOrder, NEW q \in Requests
  PROVE  /\ At(q, "dropCreate") \/ At(q, "dropScheduled")
              => Op(q) \in {"start", "schedule", "scheduleStart", "delete"}
         /\ At(q, "putSchedule") => Op(q) \in {"schedule", "scheduleStart"}
         /\ At(q, "execute") => Op(q) = "start"
         /\ At(q, "write") => Op(q) \in {"start", "save", "schedule", "scheduleStart"}
         /\ At(q, "putFailedRun") \/ At(q, "countFailedRun")
              => Op(q) \in {"start", "save"}
         /\ At(q, "setBaseline") => Op(q) = "setBaseline"
         /\ At(q, "clearBaseline") => Op(q) = "clearBaseline"
         /\ At(q, "deleteItem") \/ At(q, "queryHistory") => Op(q) = "delete"
         /\ At(q, "deleteHistory") => Op(q) \in {"delete", "deleteRuns"}
         /\ At(q, "decrement") => Op(q) = "deleteRuns"
         /\ At(q, "none") <=> Op(q) \notin Ops
  BY DEF CallsInOrder, CallsOf, At, Ops

\* The steps about schedules and the reads make the calls of their operation.
LEMMA ScheduleAndReadGo ==
  ASSUME TypeOK, CallsInOrder, NEW q \in Requests,
         \/ DropCreate(q) \/ DropScheduled(q) \/ PutSchedule(q) \/ StartExpired(q)
         \/ ReadForSave(q) \/ ReadForDelete(q) \/ QueryHistory(q)
         \/ ReadForDeleteRuns(q) \/ ReadExistingRuns(q)
         \/ ReadForBaseline(q) \/ ReadBaselineRun(q) \/ ReadForClear(q)
  PROVE  Goes(q)
<1> USE CallTells DEF CallsOf
<1>0. CASE End(q)
  BY <1>0, EndGoes
<1>1. CASE (DropCreate(q) \/ StartExpired(q)) /\ ~End(q)
  BY <1>1, ThenGoes DEF DropCreate, StartExpired
<1>2. CASE DropScheduled(q) /\ ~End(q)
  BY <1>2, ThenGoes DEF DropScheduled
<1>3. CASE PutSchedule(q) /\ ~End(q)
  BY <1>3, ThenGoes DEF PutSchedule
<1>4. CASE ReadForSave(q) /\ ~End(q)
  <2>1. Op(q) = "save"
        /\ req' = [req EXCEPT ![q].at = "write",
                              ![q].found = IF exists THEN status ELSE "created"]
    BY <1>4 DEF ReadForSave
  <2> QED  BY <2>1 DEF TypeOK, Goes, Op
<1>5. CASE QueryHistory(q)
  <2>1. Op(q) = "delete"
        /\ req' = [req EXCEPT ![q].at = "deleteHistory", ![q].runs = history]
    BY <1>5 DEF QueryHistory
  <2> QED  BY <2>1 DEF TypeOK, Goes, Op
<1>6. CASE ReadExistingRuns(q) /\ ~End(q)
  <2>1. Op(q) = "deleteRuns"
        /\ req' = [req EXCEPT ![q].at = "deleteHistory", ![q].runs = @ \cap history]
    BY <1>6 DEF ReadExistingRuns
  <2> QED  BY <2>1 DEF TypeOK, Goes, Op
<1>7. CASE (ReadForDelete(q) \/ ReadForDeleteRuns(q)) /\ ~End(q)
  BY <1>7, ThenGoes DEF ReadForDelete, ReadForDeleteRuns
<1>8. CASE (ReadForBaseline(q) \/ ReadBaselineRun(q) \/ ReadForClear(q)) /\ ~End(q)
  BY <1>8, ThenGoes DEF ReadForBaseline, ReadBaselineRun, ReadForClear
<1> QED
  BY <1>0, <1>1, <1>2, <1>3, <1>4, <1>5, <1>6, <1>7, <1>8

\* So do the writes.
LEMMA WriteGoes ==
  ASSUME TypeOK, CallsInOrder, NEW q \in Requests,
         \/ \E r \in Runs : Incompatible(q, r)
         \/ PutFailedRun(q) \/ CountFailedRun(q) \/ StartExecution(q)
         \/ UpdateTestDBEntry(q) \/ DeleteItem(q) \/ DeleteHistory(q)
         \/ DecrementCounter(q) \/ SetBaseline(q) \/ ClearBaseline(q) \/ CutOff(q)
  PROVE  Goes(q)
<1> USE CallTells DEF CallsOf
<1>1. CASE End(q)
  BY <1>1, EndGoes
<1>2. CASE PutFailedRun(q) \/ StartExecution(q) \/ DeleteItem(q)
  BY <1>2, ThenGoes DEF PutFailedRun, StartExecution, DeleteItem
<1>3. ASSUME NEW r \in Runs, Incompatible(q, r) PROVE Goes(q)
  <2>1. Op(q) \in {"start", "save"}
        /\ req' = [req EXCEPT ![q].at = "putFailedRun", ![q].runs = {r}]
    BY <1>3 DEF Incompatible
  <2> QED  BY <2>1 DEF TypeOK, Goes, Op
<1>4. CASE DeleteHistory(q) /\ ~End(q)
  BY <1>4, ThenGoes DEF DeleteHistory
<1> QED
  BY <1>1, <1>2, <1>3, <1>4
     DEF CountFailedRun, UpdateTestDBEntry, DecrementCounter, SetBaseline,
         ClearBaseline, CutOff

\* What a new request leaves of the requests.
LEMMA BeginMoves ==
  ASSUME TypeOK, NEW q \in Requests,
         AskFor(q) \/ CreateFires(q) \/ (\E r \in Runs : ScheduledFires(q, r))
  PROVE  \E op \in Ops, runs \in SUBSET Runs :
           /\ Begin(q, op, runs)
           /\ op = "start" => \E r \in Runs : runs = {r}
           /\ exists \/ (op \in {"scheduleStart", "start"} /\ schedules # {})
           /\ ~InFlight(q) /\ MayBegin(op)
           /\ \A p \in Requests \ {q} : req'[p] = req[p]
           /\ req'[q].op = op /\ req'[q].at = FirstCall(op) /\ req'[q].runs = runs
           /\ UNCHANGED <<itemVars, history, expired, runVars, losses>>
           /\ schedules' \subseteq schedules
<1> DEFINE New(op, runs) ==
      /\ Begin(q, op, runs)
      /\ op = "start" => \E r \in Runs : runs = {r}
      /\ exists \/ (op \in {"scheduleStart", "start"} /\ schedules # {})
<1>1. PICK op \in Ops, runs \in SUBSET Runs : New(op, runs)
  <2>1. CASE AskFor(q)
    <3>1. exists
      BY <2>1 DEF AskFor
    <3>2. ASSUME NEW op \in {"save", "schedule", "delete", "clearBaseline"},
                 Begin(q, op, {})
          PROVE  New(op, {}) /\ op \in Ops /\ {} \in SUBSET Runs
      BY <3>1, <3>2 DEF Ops
    <3>3. ASSUME NEW r \in Runs, Begin(q, "setBaseline", {r})
          PROVE  New("setBaseline", {r}) /\ "setBaseline" \in Ops /\ {r} \in SUBSET Runs
      BY <3>1, <3>3 DEF Ops
    <3>4. ASSUME NEW runs \in SUBSET Runs, Begin(q, "deleteRuns", runs)
          PROVE  New("deleteRuns", runs) /\ "deleteRuns" \in Ops
      BY <3>1, <3>4 DEF Ops
    <3>5. ASSUME NEW r \in Runs, Begin(q, "start", {r})
          PROVE  New("start", {r}) /\ "start" \in Ops /\ {r} \in SUBSET Runs
      BY <3>1, <3>5 DEF Ops
    <3> HIDE DEF New
    <3> QED  BY <2>1, <3>2, <3>3, <3>4, <3>5 DEF AskFor
  <2>2. CASE CreateFires(q)
    BY <2>2 DEF CreateFires, Ops
  <2>3. ASSUME NEW r \in Runs, ScheduledFires(q, r)
        PROVE  \E op \in Ops, runs \in SUBSET Runs : New(op, runs)
    <3>1. New("start", {r})
      BY <2>3 DEF ScheduledFires
    <3> QED  BY <3>1 DEF Ops
  <2> QED  BY <2>1, <2>2, <2>3
<1>2. /\ UNCHANGED <<itemVars, history, expired, runVars, losses>>
      /\ schedules' \subseteq schedules
  BY DEF AskFor, CreateFires, ScheduledFires
<1>3. /\ ~InFlight(q) /\ MayBegin(op)
      /\ \A p \in Requests \ {q} : req'[p] = req[p]
      /\ req'[q].op = op /\ req'[q].at = FirstCall(op) /\ req'[q].runs = runs
  BY <1>1 DEF Begin, TypeOK
<1> QED
  BY <1>1, <1>2, <1>3 DEF Ops

\* Every step of a request, or of an execution, leaves the operations as they are,
\* but for a new one, which is apart from those it must be apart from.
LEMMA OrderKept ==
  ASSUME TypeOK, RequestsApart, CallsInOrder, [Next]_vars
  PROVE  RequestsApart' /\ CallsInOrder'
<1>1. ASSUME NEW q \in Requests, Goes(q)
      PROVE  RequestsApart' /\ CallsInOrder'
  <2>1. RequestsApart'
    BY <1>1, ApartKept DEF Goes, Op
  <2>2. CallsInOrder'
    <3> SUFFICES ASSUME NEW p \in Requests PROVE req'[p].at \in CallsOf(req'[p].op)
      BY DEF CallsInOrder, Op
    <3>1. CASE p = q
      BY <1>1, <3>1 DEF Goes, Op, CallsOf
    <3>2. CASE p # q
      BY <1>1, <3>2 DEF Goes, Op, CallsInOrder
    <3> QED  BY <3>1, <3>2
  <2> QED  BY <2>1, <2>2
<1>2. ASSUME NEW q \in Requests,
             AskFor(q) \/ CreateFires(q) \/ \E r \in Runs : ScheduledFires(q, r)
      PROVE  RequestsApart' /\ CallsInOrder'
  <2>1. PICK op \in Ops : /\ MayBegin(op)
                          /\ \A p \in Requests \ {q} : req'[p] = req[p]
                          /\ req'[q].op = op /\ req'[q].at = FirstCall(op)
    BY <1>2, BeginMoves
  <2>2. RequestsApart'
    <3> SUFFICES ASSUME NEW p \in Requests, NEW o \in Requests, p # o,
                        InFlight(p)', InFlight(o)'
                 PROVE  {Op(p), Op(o)}' \notin Apart
      BY DEF RequestsApart
    <3>1. \A z \in Requests \ {q} : InFlight(z) => {op, Op(z)} \notin Apart
      BY <2>1 DEF MayBegin
    <3>2. CASE p = q
      BY <2>1, <3>1, <3>2 DEF InFlight, Op
    <3>3. CASE o = q
      <4>1. {op, req[p].op} = {req[p].op, op}
        OBVIOUS
      <4> QED  BY <2>1, <3>1, <3>3, <4>1 DEF InFlight, Op
    <3>4. CASE p # q /\ o # q
      BY <2>1, <3>4 DEF RequestsApart, InFlight, Op
    <3> QED  BY <3>2, <3>3, <3>4
  <2>3. FirstCall(op) \in CallsOf(op)
    BY DEF FirstCall, CallsOf, Ops
  <2>4. CallsInOrder'
    BY <2>1, <2>3 DEF CallsInOrder, Op
  <2> QED  BY <2>2, <2>4
<1>3. CASE req' = req
  BY <1>3 DEF RequestsApart, CallsInOrder, InFlight, Op
<1>4. ASSUME NEW r \in Runs,
             \/ \E new \in {"running", "cleaning up", "complete", "failed"} :
                  UpdaterReads(r, new)
             \/ UpdateScenario(r) \/ UpdateHistory(r) \/ CountRun(r) \/ FailEarly(r)
      PROVE  req' = req
  BY <1>4 DEF UpdaterReads, UpdateScenario, UpdateHistory, CountRun, FailEarly
<1>5. UNCHANGED vars => req' = req
  BY DEF vars
<1> QED
  BY <1>1, <1>2, <1>3, <1>4, <1>5, ScheduleAndReadGo, WriteGoes DEF Next, RequestStep

-------------------------------------------------------------------------------
(***************************************************************************)
(* Deletions.  The users keep apart what UsersKeepApart says, and ask for  *)
(* nothing that writes a status while a run is under way.                  *)
(***************************************************************************)

\* What keeping apart means for two requests in flight.
LEMMA ApartMeans ==
  ASSUME TypeOK, RequestsApart, UsersKeepApart \subseteq Apart,
         NEW p \in Requests, NEW q \in Requests, p # q
  PROVE  /\ Op(q) = "delete" => Op(p) \in {"none", "delete", "deleteRuns"}
         /\ Op(q) = "start"
              => Op(p) \in {"none", "setBaseline", "clearBaseline", "deleteRuns"}
         /\ Op(q) = "deleteRuns" => Op(p) \notin {"deleteRuns", "setBaseline"}
<1>1. Op(p) \in Ops \cup {"none"}
  BY DEF TypeOK, Op
<1>2. ASSUME NEW a, NEW b, {a, b} \in UsersKeepApart, Op(q) = a, a # "none", b # "none"
      PROVE  Op(p) # b
  <2>1. {b, a} = {a, b}
    OBVIOUS
  <2> QED
    BY <1>2, <2>1 DEF RequestsApart, InFlight, Op
<1>3. \A b \in StatusOps \cup {"save", "setBaseline", "clearBaseline"} :
        {"delete", b} \in UsersKeepApart
  BY DEF UsersKeepApart
<1>4. \A b \in StatusOps \cup {"save"} : {"start", b} \in UsersKeepApart
  BY DEF UsersKeepApart
<1>5. \A b \in {"deleteRuns", "setBaseline"} : {"deleteRuns", b} \in UsersKeepApart
  BY DEF UsersKeepApart
<1>6. Op(q) = "delete" => Op(p) \in {"none", "delete", "deleteRuns"}
  BY <1>1, <1>2, <1>3 DEF Ops, StatusOps
<1>7. {"start", "delete"} \in UsersKeepApart
  <2>1. {"start", "delete"} = {"delete", "start"}
    OBVIOUS
  <2> QED  BY <2>1, <1>3 DEF StatusOps
<1>8. Op(q) = "start"
        => Op(p) \in {"none", "setBaseline", "clearBaseline", "deleteRuns"}
  BY <1>1, <1>2, <1>4, <1>7 DEF Ops, StatusOps
<1>9. Op(q) = "deleteRuns" => Op(p) \notin {"deleteRuns", "setBaseline"}
  BY <1>2, <1>5
<1> QED  BY <1>6, <1>8, <1>9

\* A step that loses nothing is neither a cut-off nor an early failure.
LEMMA LossesTell ==
  ASSUME TypeOK, [Next]_vars, losses' = 0
  PROVE  /\ losses = 0
         /\ \A q \in Requests : ~CutOff(q)
         /\ \A r \in Runs : ~FailEarly(r)
<1>1. losses \in Nat
  BY LossAssumption DEF TypeOK
<1>2. ~Lose
  BY <1>1 DEF Lose
<1>3. losses' = losses \/ Lose
  BY DEF Next, AskFor, CreateFires, ScheduledFires, RequestStep, CutOff, DropCreate,
         DropScheduled, PutSchedule, StartExpired, PutFailedRun, CountFailedRun,
         Incompatible, StartExecution, ReadForSave, UpdateTestDBEntry, ReadForDelete,
         DeleteItem, QueryHistory, DeleteHistory, ReadForDeleteRuns, ReadExistingRuns,
         DecrementCounter, ReadForBaseline, ReadBaselineRun, SetBaseline, ReadForClear,
         ClearBaseline, UpdaterReads, UpdateScenario, UpdateHistory, CountRun, FailEarly,
         vars
<1> QED  BY <1>2, <1>3 DEF CutOff, FailEarly

\* A step of an execution.
ExecutionStep(r) ==
  \/ \E new \in {"running", "cleaning up", "complete", "failed"} : UpdaterReads(r, new)
  \/ UpdateScenario(r) \/ UpdateHistory(r) \/ CountRun(r) \/ FailEarly(r)

\* It leaves the requests alone, and its run under way or over.
LEMMA ExecutionMoves ==
  ASSUME TypeOK, NEW r \in Runs, ExecutionStep(r)
  PROVE  /\ req' = req /\ schedules' = schedules
         /\ UnderWay(r)
         /\ \A s \in Runs \ {r} : exec'[s] = exec[s] /\ writing'[s] = writing[s]
         /\ UpdateToCome(r)' => UpdateToCome(r)
         /\ exec'[r] # "none"
<1> USE DEF TypeOK, UnderWay, UpdateToCome, Updating
<1>1. ASSUME NEW new, UpdaterReads(r, new)
      PROVE  /\ req' = req /\ schedules' = schedules
             /\ exec[r] = "underWay"
             /\ \A s \in Runs \ {r} : exec'[s] = exec[s] /\ writing'[s] = writing[s]
             /\ exec'[r] \in {"scenario", "over"}
  BY <1>1 DEF UpdaterReads
<1>2. CASE UpdateScenario(r)
  BY <1>2 DEF UpdateScenario
<1>3. CASE UpdateHistory(r)
  BY <1>3 DEF UpdateHistory, EndUpdate
<1>4. CASE CountRun(r)
  BY <1>4 DEF CountRun, EndUpdate
<1>5. CASE FailEarly(r)
  BY <1>5 DEF FailEarly, runVars
<1> QED
  BY <1>1, <1>2, <1>3, <1>4, <1>5 DEF ExecutionStep

\* A request begins at most the one run it starts.
LEMMA RequestsAndRuns ==
  ASSUME TypeOK, NEW q \in Requests, RequestStep(q) \/ CutOff(q), ~StartExecution(q)
  PROVE  /\ writing' = writing
         /\ \A r \in Runs : \/ exec'[r] = exec[r]
                            \/ exec[r] = "none" /\ exec'[r] = "over"
<1>1. CASE \E r \in Runs : Incompatible(q, r)
  BY <1>1 DEF Incompatible, TypeOK
<1>2. CASE ~\E r \in Runs : Incompatible(q, r)
  BY <1>2
     DEF RequestStep, CutOff, DropCreate, DropScheduled, PutSchedule, StartExpired,
         PutFailedRun, CountFailedRun, ReadForSave, UpdateTestDBEntry, ReadForDelete,
         DeleteItem, QueryHistory, DeleteHistory, ReadForDeleteRuns, ReadExistingRuns,
         DecrementCounter, ReadForBaseline, ReadBaselineRun, SetBaseline, ReadForClear,
         ClearBaseline, runVars
<1> QED  BY <1>1, <1>2

\* One run at a time: a start waits until no run is under way, and no other request
\* that starts one gets in between.
LEMMA OneRunKept ==
  ASSUME TypeOK, RequestsApart, CallsInOrder, OneRunAtATime, [Next]_vars,
         UsersKeepApart \subseteq Apart, StatusOps \subseteq IdleOnly
  PROVE  OneRunAtATime'
<1> USE DEF OneRunAtATime
<1>1. ASSUME NEW q \in Requests,
             AskFor(q) \/ CreateFires(q) \/ \E r \in Runs : ScheduledFires(q, r)
      PROVE  OneRunAtATime'
  <2>1. PICK op \in Ops, runs \in SUBSET Runs :
          /\ op = "start" => \E r \in Runs : runs = {r}
          /\ MayBegin(op)
          /\ \A p \in Requests \ {q} : req'[p] = req[p]
          /\ req'[q].op = op /\ req'[q].at = FirstCall(op) /\ req'[q].runs = runs
          /\ exec' = exec
    BY <1>1, BeginMoves DEF runVars
  <2>2. FirstCall(op) = "execute" => op = "start"
    BY DEF FirstCall
  <2>3. op \in StatusOps => \A r \in Runs : ~UnderWay(r)
    BY <2>1 DEF MayBegin
  <2> QED
    BY <2>1, <2>2, <2>3 DEF At, Op, UnderWay, StatusOps
<1>2. ASSUME NEW q \in Requests, StartExecution(q)
      PROVE  OneRunAtATime'
  <2>1. /\ At(q, "execute") /\ Then(q, "write")
        /\ exec' = [r \in Runs |-> IF r \in req[q].runs THEN "underWay" ELSE exec[r]]
    BY <1>2 DEF StartExecution
  <2>2. PICK r \in Runs : req[q].runs = {r}
    BY <2>1
  <2>3. \A s \in Runs : UnderWay(s)' => s = r
    BY <2>1, <2>2 DEF UnderWay
  <2>4. ASSUME NEW p \in Requests
        PROVE  ~At(p, "execute")' /\ Op(p)' \notin {"schedule", "scheduleStart"}
    <3>1. Op(q) = "start"
      BY <2>1, CallTells
    <3>2. CASE p = q
      BY <2>1, <3>1, <3>2, ThenMoves DEF At, Op
    <3>3. CASE p # q
      <4>1. Op(p) \notin {"start", "schedule", "scheduleStart"}
        BY <3>1, <3>3, ApartMeans
      <4> QED
        BY <2>1, <3>3, <4>1, ThenMoves, CallTells DEF At, Op
    <3> QED  BY <3>2, <3>3
  <2> QED  BY <2>3, <2>4
<1>3. ASSUME NEW q \in Requests, RequestStep(q) \/ CutOff(q), ~StartExecution(q)
      PROVE  OneRunAtATime'
  <2>1. Goes(q)
    BY <1>3, ScheduleAndReadGo, WriteGoes DEF RequestStep
  <2>2. \A r \in Runs : UnderWay(r)' => UnderWay(r)
    BY <1>3, RequestsAndRuns DEF UnderWay, Updating
  <2>3. ASSUME NEW p \in Requests, At(p, "execute")'
        PROVE  At(p, "execute") /\ req'[p] = req[p]
    <3>1. p # q
      BY <2>1, <2>3 DEF Goes, At
    <3> QED  BY <2>1, <2>3, <3>1 DEF Goes, At
  <2>4. \A p \in Requests : Op(p)' = Op(p) \/ Op(p)' = "none"
    BY <2>1 DEF Goes, Op
  <2> QED  BY <2>2, <2>3, <2>4
<1>4. ASSUME NEW r \in Runs, ExecutionStep(r)
      PROVE  OneRunAtATime'
  BY <1>4, ExecutionMoves DEF UnderWay, At, Op
<1>5. CASE UNCHANGED vars
  BY <1>5 DEF vars, UnderWay, At, Op
<1> QED
  BY <1>1, <1>2, <1>3, <1>4, <1>5 DEF Next, ExecutionStep

\* What a step of a request may change.
LEMMA RequestWrites ==
  ASSUME TypeOK, NEW q \in Requests, RequestStep(q) \/ CutOff(q)
  PROVE  /\ \/ exists' = exists /\ status' = status
            \/ UpdateTestDBEntry(q) \/ SetBaseline(q) \/ ClearBaseline(q) \/ DeleteItem(q)
         /\ status' = status \/ UpdateTestDBEntry(q) \/ DeleteItem(q)
         /\ schedules' \subseteq schedules \/ PutSchedule(q)
         /\ history' = history \/ PutFailedRun(q) \/ DeleteHistory(q)
<1>1. CASE \/ DropCreate(q) \/ DropScheduled(q) \/ StartExpired(q) \/ PutSchedule(q)
           \/ PutFailedRun(q) \/ CountFailedRun(q) \/ \E r \in Runs : Incompatible(q, r)
           \/ StartExecution(q) \/ UpdateTestDBEntry(q) \/ DeleteItem(q)
  BY <1>1 DEF DropCreate, DropScheduled, StartExpired, PutSchedule, PutFailedRun,
              CountFailedRun, Incompatible, StartExecution, UpdateTestDBEntry, DeleteItem,
              itemVars
<1>2. CASE \/ DeleteHistory(q) \/ DecrementCounter(q) \/ SetBaseline(q)
           \/ ClearBaseline(q) \/ CutOff(q)
  BY <1>2 DEF DeleteHistory, DecrementCounter, SetBaseline, ClearBaseline, CutOff,
              itemVars
<1>3. CASE \/ ReadForSave(q) \/ ReadForDelete(q) \/ QueryHistory(q)
           \/ ReadForDeleteRuns(q) \/ ReadExistingRuns(q)
           \/ ReadForBaseline(q) \/ ReadBaselineRun(q) \/ ReadForClear(q)
  BY <1>3 DEF ReadForSave, ReadForDelete, QueryHistory, ReadForDeleteRuns,
              ReadExistingRuns, ReadForBaseline, ReadBaselineRun, ReadForClear, itemVars
<1> QED  BY <1>1, <1>2, <1>3 DEF RequestStep

\* The calls of a deletion, one after the other.
LEMMA DeletionGoesOn ==
  ASSUME TypeOK, CallsInOrder, NEW q \in Requests, Op(q) = "delete",
         RequestStep(q) \/ CutOff(q)
  PROVE  \/ Op(q)' = "none" /\ ~DeleteItem(q)
         \/ ReadForDelete(q) /\ At(q, "dropCreate")'
              /\ exists /\ status \in SafeToEdit \cup {Absent}
         \/ /\ DropCreate(q) /\ At(q, "dropScheduled")'
            /\ schedules' = schedules \ {"Create"}
         \/ /\ DropScheduled(q) /\ At(q, "dropScheduled") /\ At(q, "deleteItem")'
            /\ schedules' = schedules \ {"Scheduled"}
         \/ /\ DeleteItem(q) /\ At(q, "deleteItem") /\ At(q, "queryHistory")'
            /\ schedules' = schedules
         \/ /\ QueryHistory(q) /\ At(q, "queryHistory") /\ At(q, "deleteHistory")'
            /\ req'[q].runs = history /\ schedules' = schedules
<1> USE CallTells DEF At, Op
<1>1. CASE CutOff(q)
  <2>1. End(q) /\ exists' = exists
    BY <1>1 DEF CutOff, itemVars
  <2>2. ~DeleteItem(q)
    BY <2>1, EndMoves, ThenMoves DEF DeleteItem
  <2> QED  BY <2>1, <2>2, EndMoves
<1>2. CASE ReadForDelete(q)
  BY <1>2, ThenMoves, EndMoves DEF ReadForDelete, DeleteItem
<1>3. CASE DropCreate(q)
  BY <1>3, ThenMoves DEF DropCreate
<1>4. CASE DropScheduled(q)
  BY <1>4, ThenMoves DEF DropScheduled
<1>5. CASE DeleteItem(q)
  BY <1>5, ThenMoves DEF DeleteItem
<1>6. CASE QueryHistory(q)
  <2>1. req' = [req EXCEPT ![q].at = "deleteHistory", ![q].runs = history]
        /\ At(q, "queryHistory") /\ schedules' = schedules
    BY <1>6 DEF QueryHistory
  <2> QED  BY <1>6, <2>1 DEF TypeOK
<1>7. CASE DeleteHistory(q)
  BY <1>7, EndMoves DEF DeleteHistory, DeleteItem
<1>8. ~PutSchedule(q) /\ ~StartExpired(q) /\ ~PutFailedRun(q) /\ ~CountFailedRun(q)
  BY DEF PutSchedule, StartExpired, PutFailedRun, CountFailedRun
<1>9. ~(\E r \in Runs : Incompatible(q, r)) /\ ~StartExecution(q) /\ ~ReadForSave(q)
      /\ ~UpdateTestDBEntry(q)
  BY DEF Incompatible, StartExecution, ReadForSave, UpdateTestDBEntry
<1>10. /\ ~ReadForDeleteRuns(q) /\ ~ReadExistingRuns(q) /\ ~DecrementCounter(q)
       /\ ~ReadForBaseline(q) /\ ~ReadBaselineRun(q) /\ ~SetBaseline(q)
       /\ ~ReadForClear(q) /\ ~ClearBaseline(q)
  BY DEF ReadForDeleteRuns, ReadExistingRuns, DecrementCounter, ReadForBaseline,
         ReadBaselineRun, SetBaseline, ReadForClear, ClearBaseline
<1> QED
  BY <1>1, <1>2, <1>3, <1>4, <1>5, <1>6, <1>7, <1>8, <1>9, <1>10 DEF RequestStep

\* A deletion drops the schedules before the item, and no update crosses it: so
\* what it leaves cannot write the item again.
LEMMA DeletionsKept ==
  ASSUME TypeOK, RequestsApart, CallsInOrder, DeletionsPrepared, [Next]_vars,
         UsersKeepApart \subseteq Apart, "delete" \in BetweenUpdates
  PROVE  DeletionsPrepared'
<1>1. ASSUME NEW q \in Requests,
             AskFor(q) \/ CreateFires(q) \/ \E r \in Runs : ScheduledFires(q, r)
      PROVE  DeletionsPrepared'
  <2>1. PICK op \in Ops, runs \in SUBSET Runs :
          /\ exists \/ schedules # {}
          /\ MayBegin(op)
          /\ \A p \in Requests \ {q} : req'[p] = req[p]
          /\ req'[q].op = op /\ req'[q].at = FirstCall(op)
          /\ exists' = exists /\ exec' = exec /\ schedules' \subseteq schedules
    BY <1>1, BeginMoves DEF runVars, itemVars
  <2>2. exists'
    BY <2>1 DEF DeletionsPrepared
  <2>3. op = "delete" => FirstCall(op) = "read" /\ \A r \in Runs : exec[r] \notin Updating
    BY <2>1 DEF MayBegin, FirstCall
  <2>4. ASSUME NEW p \in Requests, Op(p)' = "delete"
        PROVE  /\ \A r \in Runs : exec'[r] \notin Updating
               /\ At(p, "dropScheduled")' => "Create" \notin schedules'
               /\ req'[p].at \in {"deleteItem", "queryHistory", "deleteHistory"}
                    => schedules' = {}
    <3>1. CASE p = q
      BY <2>1, <2>3, <2>4, <3>1 DEF Op, At
    <3>2. CASE p # q
      BY <2>1, <2>4, <3>2 DEF DeletionsPrepared, Op, At
    <3> QED  BY <3>1, <3>2
  <2> QED  BY <2>2, <2>4 DEF DeletionsPrepared
<1>2. ASSUME NEW q \in Requests, RequestStep(q) \/ CutOff(q)
      PROVE  DeletionsPrepared'
  <2>1. Goes(q)
    BY <1>2, ScheduleAndReadGo, WriteGoes DEF RequestStep
  <2>2. \A p \in Requests : Op(p)' = Op(p) \/ Op(p)' = "none"
    BY <2>1 DEF Goes, Op
  <2>3. \A r \in Runs : exec'[r] \in Updating => exec[r] \in Updating
    <3>1. CASE StartExecution(q)
      BY <3>1 DEF StartExecution, Updating
    <3>2. CASE ~StartExecution(q)
      BY <1>2, <3>2, RequestsAndRuns DEF Updating
    <3> QED  BY <3>1, <3>2
  <2>4. ~exists' => /\ schedules' = {}
                    /\ \A p \in Requests : Op(p)' \in {"none", "delete", "deleteRuns"}
    <3>1. CASE DeleteItem(q)
      <4>1. /\ Op(q) = "delete" /\ schedules = {} /\ schedules' = schedules
        BY <3>1, CallTells DEF DeleteItem, DeletionsPrepared, At
      <4>2. \A p \in Requests : Op(p) \in {"none", "delete", "deleteRuns"}
        BY <4>1, ApartMeans
      <4> QED  BY <2>2, <4>1, <4>2
    <3>2. CASE ~DeleteItem(q) /\ ~exists'
      <4>1. ~exists
        BY <1>2, <3>2, RequestWrites DEF UpdateTestDBEntry, SetBaseline, ClearBaseline
      <4>2. ~PutSchedule(q)
        BY <4>1, CallTells DEF DeletionsPrepared, PutSchedule
      <4> QED  BY <1>2, <2>2, <4>1, <4>2, RequestWrites DEF DeletionsPrepared
    <3> QED  BY <3>1, <3>2
  <2>5. ASSUME NEW p \in Requests, Op(p)' = "delete"
        PROVE  /\ At(p, "dropScheduled")' => "Create" \notin schedules'
               /\ req'[p].at \in {"deleteItem", "queryHistory", "deleteHistory"}
                    => schedules' = {}
    <3>1. Op(p) = "delete"
      BY <2>2, <2>5
    <3>2. CASE p = q
      BY <1>2, <2>5, <3>1, <3>2, DeletionGoesOn
         DEF TypeOK, Schedules, DeletionsPrepared, At
    <3>3. CASE p # q
      <4>1. ~PutSchedule(q)
        BY <3>1, <3>3, ApartMeans, CallTells DEF PutSchedule
      <4> QED
        BY <1>2, <2>1, <3>1, <3>3, <4>1, RequestWrites DEF Goes, DeletionsPrepared, At
    <3> QED  BY <3>2, <3>3
  <2>6. ASSUME NEW p \in Requests, Op(p)' = "delete", NEW r \in Runs
        PROVE  exec'[r] \notin Updating
    BY <2>2, <2>3, <2>6 DEF DeletionsPrepared
  <2> QED  BY <2>4, <2>5, <2>6 DEF DeletionsPrepared
<1>3. ASSUME NEW r \in Runs, ExecutionStep(r)
      PROVE  DeletionsPrepared'
  <2>1. /\ req' = req /\ schedules' = schedules
        /\ \A s \in Runs \ {r} : exec'[s] = exec[s]
    BY <1>3, ExecutionMoves
  <2>2. exec'[r] \in Updating
          => exec[r] \in Updating \/ \A q \in Requests : Op(q) \notin BetweenUpdates
    BY <1>3 DEF ExecutionStep, UpdaterReads, UpdateScenario, UpdateHistory, CountRun,
                FailEarly, Updating, runVars
  <2>3. exists => exists'
    BY <1>3 DEF ExecutionStep, UpdaterReads, UpdateScenario, UpdateHistory, CountRun,
                FailEarly, itemVars
  <2>4. ASSUME NEW q \in Requests, Op(q) = "delete", NEW s \in Runs
        PROVE  exec'[s] \notin Updating
    BY <2>1, <2>2, <2>4 DEF DeletionsPrepared
  <2> QED  BY <2>1, <2>3, <2>4 DEF DeletionsPrepared, Op, At
<1>4. CASE UNCHANGED vars
  BY <1>4 DEF vars, DeletionsPrepared, Op, At
<1> QED  BY <1>1, <1>2, <1>3, <1>4 DEF Next, ExecutionStep

\* What the status tells, and what the requests rely on.
StatusTold == losses = 0 /\ StatusTellsOfRuns /\ SafeStatusMeansNoRun

\* Nothing new: the item stays, no run or update begins, nobody who was about to
\* write it has turned away, and nobody relies on what the status has not told.
LEMMA StatusStays ==
  ASSUME StatusTold, losses' = 0, exists' = exists, status' = status,
         \A r \in Runs : /\ UnderWay(r)' => UnderWay(r)
                         /\ UpdateToCome(r)' => UpdateToCome(r)
                         /\ exec'[r] \in Updating => writing'[r] \in
                              {"running", "cleaning up", "complete", "failed"},
         \A q \in Requests :
           At(q, "write") => \/ At(q, "write")' /\ req'[q].runs = req[q].runs
                             \/ \A r \in Runs : ~UpdateToCome(r),
         \A q \in Requests :
           (Op(q) = "save" /\ At(q, "write"))' =>
             \/ Op(q) = "save" /\ At(q, "write") /\ req'[q].found = req[q].found
             \/ req'[q].found # Absent /\ \A r \in Runs : ~UpdateToCome(r),
         \A q \in Requests :
           (Op(q) = "delete" /\ ~At(q, "read"))' =>
             \/ Op(q) = "delete" /\ ~At(q, "read")
             \/ \A r \in Runs : ~UnderWay(r)
  PROVE  StatusTold'
<1>1. StatusTellsOfRuns'
  <2>1. /\ exists' => status' # Absent
        /\ ~exists' => \A r \in Runs : ~UnderWay(r)'
    BY DEF StatusTold, StatusTellsOfRuns
  <2>2. ASSUME NEW q \in Requests, (Op(q) = "save" /\ At(q, "write"))'
        PROVE  req'[q].found # Absent /\ \A r \in Runs : ~UpdateToCome(r)'
    BY <2>2 DEF StatusTold, StatusTellsOfRuns
  <2>3. ASSUME NEW q \in Requests, (Op(q) = "delete" /\ ~At(q, "read"))'
        PROVE  \A r \in Runs : ~UnderWay(r)'
    BY <2>3 DEF StatusTold, StatusTellsOfRuns
  <2> QED  BY <2>1, <2>2, <2>3 DEF StatusTellsOfRuns
<1>2. SafeStatusMeansNoRun'
  <2> SUFFICES ASSUME exists', status' \in SafeToEdit, NEW r \in Runs, UpdateToCome(r)'
               PROVE  \E q \in Requests : At(q, "write")' /\ r \in req'[q].runs
    BY DEF SafeStatusMeansNoRun
  <2>1. UpdateToCome(r)
    OBVIOUS
  <2>2. PICK q \in Requests : At(q, "write") /\ r \in req[q].runs
    BY <2>1 DEF StatusTold, SafeStatusMeansNoRun
  <2> QED  BY <2>1, <2>2
<1> QED  BY <1>1, <1>2 DEF StatusTold

\* A run with an update to come is under way; so is one that is between updates,
\* and it has an update to come.
LEMMA ToCome ==
  ASSUME NEW r
  PROVE  /\ UpdateToCome(r) => UnderWay(r)
         /\ UnderWay(r) /\ exec[r] \notin Updating => UpdateToCome(r)
  BY DEF UpdateToCome, UnderWay, Updating

\* A request that makes none of the calls about the status or the run.
LEMMA QuietRequestTells ==
  ASSUME TypeOK, RequestsApart, CallsInOrder, StatusTold, losses' = 0,
         NEW q \in Requests, RequestStep(q),
         ~StartExecution(q), ~UpdateTestDBEntry(q), ~ReadForSave(q), ~ReadForDelete(q),
         exists' = exists, status' = status
  PROVE  StatusTold'
<1>1. Goes(q)
  BY ScheduleAndReadGo, WriteGoes DEF RequestStep
<1>2. \A r \in Runs : /\ UnderWay(r)' => UnderWay(r)
                      /\ UpdateToCome(r)' => UpdateToCome(r)
                      /\ exec'[r] \in Updating => exec[r] \in Updating
                      /\ writing' = writing
  BY RequestsAndRuns DEF UnderWay, UpdateToCome, Updating
<1>3. \A r \in Runs : exec'[r] \in Updating => writing'[r] \in
                        {"running", "cleaning up", "complete", "failed"}
  BY <1>2 DEF StatusTold, StatusTellsOfRuns
<1>4. /\ At(q, "write") => Op(q) = "save"
      /\ Op(q)' = "save" => ~At(q, "write")'
      /\ (Op(q) = "delete" /\ ~At(q, "read"))' => Op(q) = "delete" /\ ~At(q, "read")
  <2>1. CASE \/ DropCreate(q) \/ DropScheduled(q) \/ PutSchedule(q) \/ StartExpired(q)
             \/ PutFailedRun(q) \/ CountFailedRun(q)
    <3>1. ~At(q, "write") /\ ~At(q, "read") /\ ~End(q) =>
            /\ Op(q)' = Op(q) /\ ~At(q, "write") /\ ~At(q, "read")
            /\ Op(q) = "save" => ~At(q, "write")'
      BY <2>1, <1>1, CallTells, ThenMoves
         DEF DropCreate, DropScheduled, PutSchedule, StartExpired, PutFailedRun,
             CountFailedRun, At, Op
    <3>2. ~At(q, "write") /\ ~At(q, "read")
      BY <2>1 DEF DropCreate, DropScheduled, PutSchedule, StartExpired, PutFailedRun,
                  CountFailedRun, At
    <3>3. End(q) => Op(q)' = "none"
      BY EndMoves DEF Op
    <3> QED  BY <3>1, <3>2, <3>3
  <2>2. ASSUME NEW r \in Runs, Incompatible(q, r)
        PROVE  /\ At(q, "write") => Op(q) = "save"
               /\ Op(q)' = Op(q) /\ ~At(q, "write")' /\ Op(q) # "delete"
    <3>1. /\ req' = [req EXCEPT ![q].at = "putFailedRun", ![q].runs = {r}]
          /\ At(q, "execute") \/ (At(q, "write") /\ Op(q) = "save")
      BY <2>2 DEF Incompatible
    <3> QED  BY <3>1, CallTells DEF TypeOK, At, Op
  <2>3. CASE \/ DeleteItem(q) \/ QueryHistory(q) \/ DeleteHistory(q)
             \/ ReadForDeleteRuns(q) \/ ReadExistingRuns(q) \/ DecrementCounter(q)
             \/ ReadForBaseline(q) \/ ReadBaselineRun(q) \/ SetBaseline(q)
             \/ ReadForClear(q) \/ ClearBaseline(q)
    <3>1. Op(q) \notin {"save", "start", "schedule", "scheduleStart"}
      BY <2>3, CallTells DEF DeleteItem, QueryHistory, DeleteHistory,
         ReadForDeleteRuns, ReadExistingRuns, DecrementCounter, ReadForBaseline,
         ReadBaselineRun, SetBaseline, ReadForClear, ClearBaseline
    <3>2. ~At(q, "read") \/ Op(q) # "delete"
      BY <2>3 DEF DeleteItem, QueryHistory, DeleteHistory,
         ReadForDeleteRuns, ReadExistingRuns, DecrementCounter, ReadForBaseline,
         ReadBaselineRun, SetBaseline, ReadForClear, ClearBaseline, At
    <3>3. Op(q)' \in {Op(q), "none"}
      BY <1>1 DEF Goes
    <3> QED  BY <3>1, <3>2, <3>3, CallTells
  <2> QED  BY <2>1, <2>2, <2>3 DEF RequestStep
<1>5. \A p \in Requests \ {q} : req'[p] = req[p]
  BY <1>1 DEF Goes
<1>6. \A p \in Requests :
        At(p, "write") => \/ At(p, "write")' /\ req'[p].runs = req[p].runs
                          \/ \A r \in Runs : ~UpdateToCome(r)
  BY <1>4, <1>5 DEF At, StatusTold, StatusTellsOfRuns
<1>7. \A p \in Requests :
        (Op(p) = "save" /\ At(p, "write"))'
          => Op(p) = "save" /\ At(p, "write") /\ req'[p].found = req[p].found
  BY <1>4, <1>5 DEF At, Op
<1>8. \A p \in Requests :
        (Op(p) = "delete" /\ ~At(p, "read"))' => Op(p) = "delete" /\ ~At(p, "read")
  BY <1>4, <1>5 DEF At, Op
<1> QED  BY <1>2, <1>3, <1>6, <1>7, <1>8, StatusStays

\* A new request relies on nothing yet, and writes nothing.
LEMMA BeginTells ==
  ASSUME TypeOK, CallsInOrder, StatusTold, losses' = 0, NEW q \in Requests,
         AskFor(q) \/ CreateFires(q) \/ \E r \in Runs : ScheduledFires(q, r)
  PROVE  StatusTold'
<1>1. PICK op \in Ops :
        /\ ~InFlight(q)
        /\ \A p \in Requests \ {q} : req'[p] = req[p]
        /\ req'[q].op = op /\ req'[q].at = FirstCall(op)
        /\ UNCHANGED <<exists, status, exec, writing>>
  BY BeginMoves DEF runVars, itemVars
<1>2. /\ FirstCall(op) # "write"
      /\ op = "delete" => FirstCall(op) = "read"
  BY DEF FirstCall
<1>3. ~At(q, "write")
  BY <1>1, CallTells DEF InFlight, Op
<1>4. \A r \in Runs : /\ UnderWay(r)' => UnderWay(r)
                      /\ UpdateToCome(r)' => UpdateToCome(r)
                      /\ exec'[r] \in Updating => writing'[r] \in
                           {"running", "cleaning up", "complete", "failed"}
  BY <1>1 DEF UnderWay, UpdateToCome, StatusTold, StatusTellsOfRuns
<1>5. \A p \in Requests :
        At(p, "write") => At(p, "write")' /\ req'[p].runs = req[p].runs
  BY <1>1, <1>3 DEF At
<1>6. \A p \in Requests :
        (Op(p) = "save" /\ At(p, "write"))'
          => Op(p) = "save" /\ At(p, "write") /\ req'[p].found = req[p].found
  BY <1>1, <1>2 DEF At, Op
<1>7. \A p \in Requests :
        (Op(p) = "delete" /\ ~At(p, "read"))' => Op(p) = "delete" /\ ~At(p, "read")
  BY <1>1, <1>2 DEF At, Op
<1> QED  BY <1>1, <1>4, <1>5, <1>6, <1>7, StatusStays

\* A run that starts is the only one, and whoever started it is about to say so.
LEMMA StartTells ==
  ASSUME TypeOK, RequestsApart, CallsInOrder, OneRunAtATime, DeletionsPrepared,
         StatusTold, losses' = 0, UsersKeepApart \subseteq Apart,
         NEW q \in Requests, StartExecution(q)
  PROVE  StatusTold'
<1>1. /\ At(q, "execute") /\ Then(q, "write")
      /\ exec' = [r \in Runs |-> IF r \in req[q].runs THEN "underWay" ELSE exec[r]]
      /\ UNCHANGED <<exists, status, writing>>
  BY DEF StartExecution, itemVars
<1>2. /\ Op(q) = "start" /\ exists
      /\ \A r \in Runs : ~UnderWay(r)
  BY <1>1, CallTells DEF DeletionsPrepared, OneRunAtATime
<1>3. /\ At(q, "write")' /\ req'[q].runs = req[q].runs /\ Op(q)' = "start"
      /\ \A p \in Requests \ {q} : req'[p] = req[p]
  BY <1>1, <1>2, ThenMoves DEF At, Op
<1>4. \A p \in Requests : Op(p)' \notin {"save", "delete"}
  <2> TAKE p \in Requests
  <2>1. p # q => Op(p) \notin {"save", "delete"}
    BY <1>2, ApartMeans
  <2> QED  BY <1>3, <2>1 DEF Op
<1>5. \A r \in Runs : exec'[r] \in Updating => exec[r] \in Updating
  BY <1>1 DEF Updating
<1>6. \A r \in Runs : UpdateToCome(r)' => r \in req[q].runs
  BY <1>1, <1>2, ToCome DEF UpdateToCome, UnderWay
<1>7. StatusTellsOfRuns'
  <2>1. exists' /\ status' # Absent
    BY <1>1, <1>2 DEF StatusTold, StatusTellsOfRuns
  <2>2. \A r \in Runs : exec'[r] \in Updating => writing'[r] \in
          {"running", "cleaning up", "complete", "failed"}
    BY <1>1, <1>5 DEF StatusTold, StatusTellsOfRuns
  <2> QED  BY <2>1, <2>2, <1>4 DEF StatusTellsOfRuns
<1>8. SafeStatusMeansNoRun'
  BY <1>3, <1>6 DEF SafeStatusMeansNoRun
<1> QED  BY <1>7, <1>8 DEF StatusTold

\* The statuses a request may write over.
LEMMA SafeStatuses ==
  /\ "created" # Absent /\ "queued" # Absent /\ "scheduled" # Absent
  /\ Absent \notin SafeToEdit /\ "queued" \notin SafeToEdit
  /\ "running" \notin SafeToEdit /\ "cleaning up" \notin SafeToEdit
  BY DEF SafeToEdit, Absent

\* The write of a request that started no run finds none under way.
LEMMA EntryTells ==
  ASSUME TypeOK, CallsInOrder, OneRunAtATime, StatusTold, losses' = 0,
         NEW q \in Requests, UpdateTestDBEntry(q)
  PROVE  StatusTold'
<1>1. /\ At(q, "write") /\ End(q) /\ exists'
      /\ status' = CASE Op(q) = "save" -> req[q].found
                     [] Op(q) = "start" -> "queued"
                     [] OTHER -> "scheduled"
      /\ UNCHANGED <<exec, writing>>
  BY DEF UpdateTestDBEntry, runVars
<1>2. /\ Op(q)' = "none"
      /\ \A p \in Requests \ {q} : req'[p] = req[p]
  BY <1>1, EndMoves DEF Op
<1>3. Op(q) \in {"start", "save", "schedule", "scheduleStart"}
  BY <1>1, CallTells
<1>4. status' # Absent
  BY <1>1, <1>3, SafeStatuses DEF StatusTold, StatusTellsOfRuns
<1>5. status' \in SafeToEdit => \A r \in Runs : ~UpdateToCome(r)
  BY <1>1, <1>3, SafeStatuses, ToCome DEF StatusTold, StatusTellsOfRuns, OneRunAtATime
<1>6. \A r \in Runs : UnderWay(r)' = UnderWay(r) /\ UpdateToCome(r)' = UpdateToCome(r)
  BY <1>1 DEF UnderWay, UpdateToCome
<1>7. StatusTellsOfRuns'
  <2>1. ASSUME NEW p \in Requests, Op(p)' # "none"
        PROVE  req'[p] = req[p]
    BY <1>2, <2>1
  <2> QED
    BY <1>1, <1>4, <1>6, <2>1 DEF StatusTold, StatusTellsOfRuns, At, Op
<1>8. SafeStatusMeansNoRun'
  BY <1>5, <1>6 DEF SafeStatusMeansNoRun
<1> QED  BY <1>7, <1>8 DEF StatusTold

\* What is safe to edit has no run with an update to come: nobody who has just
\* started one is in flight beside a save or a deletion.
LEMMA SafeMeansIdle ==
  ASSUME TypeOK, RequestsApart, CallsInOrder, OneRunAtATime, StatusTold,
         UsersKeepApart \subseteq Apart, NEW q \in Requests, At(q, "read"),
         Op(q) \in {"save", "delete"}, exists => status \in SafeToEdit \cup {Absent},
         NEW r \in Runs
  PROVE  ~UpdateToCome(r)
<1>1. CASE ~exists
  BY <1>1, ToCome DEF StatusTold, StatusTellsOfRuns
<1>2. CASE exists
  <2> SUFFICES ASSUME UpdateToCome(r) PROVE FALSE
    OBVIOUS
  <2>1. status \in SafeToEdit
    BY <1>2 DEF StatusTold, StatusTellsOfRuns
  <2>2. PICK p \in Requests : At(p, "write") /\ r \in req[p].runs
    BY <1>2, <2>1 DEF StatusTold, SafeStatusMeansNoRun
  <2>3. p # q
    BY <2>2 DEF At
  <2>4. Op(p) \in {"start", "save", "schedule", "scheduleStart"}
    BY <2>2, CallTells
  <2>5. Op(p) # "start"
    BY <2>3, ApartMeans
  <2>6. Op(p) # "save"
    BY <2>2 DEF StatusTold, StatusTellsOfRuns
  <2>7. Op(p) \notin {"schedule", "scheduleStart"}
    BY ToCome DEF OneRunAtATime
  <2> QED  BY <2>4, <2>5, <2>6, <2>7
<1> QED  BY <1>1, <1>2

\* The reads rely on what the status tells.
LEMMA ReadTells ==
  ASSUME TypeOK, RequestsApart, CallsInOrder, OneRunAtATime, DeletionsPrepared,
         StatusTold, losses' = 0, UsersKeepApart \subseteq Apart,
         NEW q \in Requests, ReadForSave(q) \/ ReadForDelete(q)
  PROVE  StatusTold'
<1>1. /\ At(q, "read") /\ Op(q) \in {"save", "delete"}
      /\ UNCHANGED <<exists, status, exec, writing>>
  BY DEF ReadForSave, ReadForDelete, itemVars, runVars
<1>2. Goes(q)
  BY ScheduleAndReadGo
<1>3. \A r \in Runs : /\ UnderWay(r)' = UnderWay(r)
                      /\ UpdateToCome(r)' = UpdateToCome(r)
                      /\ exec'[r] \in Updating => writing'[r] \in
                           {"running", "cleaning up", "complete", "failed"}
  BY <1>1 DEF UnderWay, UpdateToCome, StatusTold, StatusTellsOfRuns
<1>4. \A p \in Requests :
        At(p, "write") => At(p, "write")' /\ req'[p].runs = req[p].runs
  BY <1>1, <1>2 DEF At, Goes
<1>5. (Op(q) = "save" /\ At(q, "write"))' =>
        req'[q].found # Absent /\ \A r \in Runs : ~UpdateToCome(r)
  <2> SUFFICES ASSUME (Op(q) = "save" /\ At(q, "write"))'
               PROVE  req'[q].found # Absent /\ \A r \in Runs : ~UpdateToCome(r)
    OBVIOUS
  <2>1. ~End(q)
    BY EndMoves DEF Op
  <2>2. ~ReadForDelete(q)
    BY <2>1, ThenMoves DEF ReadForDelete, At
  <2>3. /\ Op(q) = "save"
        /\ exists => status \in SafeToEdit \cup {Absent}
        /\ req' = [req EXCEPT ![q].at = "write",
                              ![q].found = IF exists THEN status ELSE "created"]
    BY <2>1, <2>2 DEF ReadForSave
  <2>4. req'[q].found = IF exists THEN status ELSE "created"
    BY <2>3 DEF TypeOK
  <2>5. req'[q].found # Absent
    BY <2>4, SafeStatuses DEF StatusTold, StatusTellsOfRuns
  <2> QED  BY <1>1, <2>3, <2>5, SafeMeansIdle
<1>6. (Op(q) = "delete" /\ ~At(q, "read"))' => \A r \in Runs : ~UnderWay(r)
  <2> SUFFICES ASSUME (Op(q) = "delete")', NEW r \in Runs PROVE ~UnderWay(r)
    OBVIOUS
  <2>1. Op(q) = "delete" /\ ~End(q)
    BY <1>2, EndMoves DEF Goes, Op
  <2>2. exists /\ status \in SafeToEdit \cup {Absent}
    BY <2>1 DEF ReadForDelete, ReadForSave
  <2>3. ~UpdateToCome(r) /\ exec[r] \notin Updating
    BY <1>1, <2>1, <2>2, SafeMeansIdle DEF DeletionsPrepared
  <2> QED  BY <2>3, ToCome
<1>7. \A p \in Requests \ {q} : req'[p] = req[p]
  BY <1>2 DEF Goes
<1>8. \A p \in Requests :
        (Op(p) = "save" /\ At(p, "write"))' =>
          \/ Op(p) = "save" /\ At(p, "write") /\ req'[p].found = req[p].found
          \/ req'[p].found # Absent /\ \A r \in Runs : ~UpdateToCome(r)
  BY <1>5, <1>7 DEF At, Op
<1>9. \A p \in Requests :
        (Op(p) = "delete" /\ ~At(p, "read"))' =>
          \/ Op(p) = "delete" /\ ~At(p, "read")
          \/ \A r \in Runs : ~UnderWay(r)
  BY <1>6, <1>7 DEF At, Op
<1> QED  BY <1>1, <1>3, <1>4, <1>8, <1>9, StatusStays

\* An item is deleted when no run is under way.
LEMMA DeleteTells ==
  ASSUME TypeOK, RequestsApart, CallsInOrder, StatusTold, losses' = 0,
         UsersKeepApart \subseteq Apart, NEW q \in Requests, DeleteItem(q)
  PROVE  StatusTold'
<1>1. /\ At(q, "deleteItem") /\ ~exists' /\ Then(q, "queryHistory")
      /\ UNCHANGED <<exec, writing>>
  BY DEF DeleteItem, runVars
<1>2. Op(q) = "delete"
  BY <1>1, CallTells
<1>3. \A r \in Runs : ~UnderWay(r) /\ ~UnderWay(r)' /\ ~UpdateToCome(r)'
  BY <1>1, <1>2, ToCome DEF StatusTold, StatusTellsOfRuns, At, UnderWay, UpdateToCome
<1>4. /\ req'[q].op = "delete"
      /\ \A p \in Requests \ {q} : req'[p] = req[p]
  BY <1>1, <1>2, ThenMoves DEF Op
<1>5. \A p \in Requests : Op(p)' # "save"
  <2> TAKE p \in Requests
  <2>1. p # q => Op(p) # "save"
    BY <1>2, ApartMeans
  <2> QED  BY <1>4, <2>1 DEF Op
<1>6. StatusTellsOfRuns'
  BY <1>1, <1>3, <1>5 DEF StatusTold, StatusTellsOfRuns
<1> QED  BY <1>1, <1>6 DEF StatusTold, SafeStatusMeansNoRun

\* What an execution writes tells of its run, the only one under way.
LEMMA ExecutionTells ==
  ASSUME TypeOK, OneRunAtATime, StatusTold, losses' = 0, NEW r \in Runs,
         ExecutionStep(r), ~FailEarly(r)
  PROVE  StatusTold'
<1>1. /\ req' = req /\ UnderWay(r)
      /\ \A s \in Runs \ {r} : exec'[s] = exec[s] /\ writing'[s] = writing[s]
      /\ UpdateToCome(r)' => UpdateToCome(r)
  BY ExecutionMoves
<1>2. exists
  BY <1>1 DEF StatusTold, StatusTellsOfRuns
<1>3. exec'[r] \in Updating => writing'[r] \in
        {"running", "cleaning up", "complete", "failed"}
  <2>1. ASSUME NEW new \in {"running", "cleaning up", "complete", "failed"},
               UpdaterReads(r, new)
        PROVE  writing'[r] = new
    BY <1>2, <2>1 DEF UpdaterReads, TypeOK
  <2>2. CASE UpdateScenario(r)
    BY <2>2 DEF UpdateScenario, StatusTold, StatusTellsOfRuns, Updating
  <2>3. CASE UpdateHistory(r)
    BY <2>3 DEF UpdateHistory, EndUpdate, StatusTold, StatusTellsOfRuns, TypeOK, Updating
  <2>4. CASE CountRun(r)
    BY <2>4 DEF CountRun, EndUpdate, TypeOK, Updating
  <2> QED  BY <2>1, <2>2, <2>3, <2>4 DEF ExecutionStep
<1>4. \A s \in Runs : /\ UnderWay(s)' => UnderWay(s)
                      /\ UpdateToCome(s)' => UpdateToCome(s)
                      /\ exec'[s] \in Updating => writing'[s] \in
                           {"running", "cleaning up", "complete", "failed"}
  BY <1>1, <1>3 DEF UnderWay, UpdateToCome, StatusTold, StatusTellsOfRuns
<1>5. CASE exists' = exists /\ status' = status
  BY <1>1, <1>4, <1>5, StatusStays DEF At, Op
<1>6. CASE ~(exists' = exists /\ status' = status)
  <2>1. UpdateScenario(r)
    BY <1>2, <1>6 DEF ExecutionStep, UpdaterReads, UpdateHistory, CountRun, itemVars
  <2>2. /\ exec[r] = "scenario" /\ exec'[r] = "history" /\ writing' = writing
        /\ exists' /\ status' = writing[r]
    BY <1>2, <1>6, <2>1 DEF UpdateScenario, MetadataWrite, TypeOK
  <2>3. writing[r] \in {"running", "cleaning up", "complete", "failed"}
    BY <2>2 DEF StatusTold, StatusTellsOfRuns, Updating
  <2>4. status' # Absent
    BY <2>2, <2>3 DEF Absent
  <2>5. StatusTellsOfRuns'
    BY <1>1, <1>4, <2>2, <2>4 DEF StatusTold, StatusTellsOfRuns, At, Op
  <2>6. ASSUME status' \in SafeToEdit, NEW s \in Runs PROVE ~UpdateToCome(s)'
    <3>1. Final(status')
      BY <2>2, <2>3, <2>6 DEF Final, SafeToEdit
    <3>2. CASE s = r
      BY <2>2, <3>1, <3>2 DEF UpdateToCome
    <3>3. CASE s # r
      BY <1>1, <1>4, <3>3, ToCome DEF OneRunAtATime
    <3> QED  BY <3>2, <3>3
  <2> QED  BY <2>5, <2>6 DEF StatusTold, SafeStatusMeansNoRun
<1> QED  BY <1>5, <1>6

\* The status tells of the run under way, as long as nothing is cut off or fails
\* early: whatever requests cross, but those that are kept apart.
LEMMA StatusToldKept ==
  ASSUME TypeOK, RequestsApart, CallsInOrder, OneRunAtATime, DeletionsPrepared,
         StatusTold, losses' = 0, [Next]_vars, UsersKeepApart \subseteq Apart
  PROVE  StatusTold'
<1>0. /\ \A q \in Requests : ~CutOff(q)
      /\ \A r \in Runs : ~FailEarly(r)
  BY LossesTell
<1>1. ASSUME NEW q \in Requests,
             AskFor(q) \/ CreateFires(q) \/ \E r \in Runs : ScheduledFires(q, r)
      PROVE  StatusTold'
  BY <1>1, BeginTells
<1>2. ASSUME NEW q \in Requests, RequestStep(q)
      PROVE  StatusTold'
  <2>1. SetBaseline(q) \/ ClearBaseline(q) => exists' = exists /\ status' = status
    BY CallTells DEF SetBaseline, ClearBaseline, DeletionsPrepared, TypeOK
  <2>2. CASE /\ ~StartExecution(q) /\ ~UpdateTestDBEntry(q) /\ ~DeleteItem(q)
             /\ ~ReadForSave(q) /\ ~ReadForDelete(q)
    <3>1. exists' = exists /\ status' = status
      BY <1>2, <2>1, <2>2, RequestWrites
    <3> QED  BY <1>2, <2>2, <3>1, QuietRequestTells
  <2> QED
    BY <2>2, StartTells, EntryTells, DeleteTells, ReadTells
<1>3. ASSUME NEW r \in Runs, ExecutionStep(r)
      PROVE  StatusTold'
  BY <1>0, <1>3, ExecutionTells
<1>4. CASE UNCHANGED vars
  BY <1>4 DEF vars, StatusTold, StatusTellsOfRuns, SafeStatusMeansNoRun, UnderWay,
              UpdateToCome, At, Op
<1> QED  BY <1>0, <1>1, <1>2, <1>3, <1>4 DEF Next, ExecutionStep

\* Nothing adds to the history of a deleted scenario, and what is left of it is in
\* the hand of a deletion: unless DynamoDB leaves items of a batch unprocessed.
LEMMA HistoryKept ==
  ASSUME TypeOK, RequestsApart, CallsInOrder, DeletionsPrepared, StatusTold,
         HistoryInHand, ~Unprocessed, losses' = 0, [Next]_vars,
         UsersKeepApart \subseteq Apart
  PROVE  HistoryInHand'
<1>0. /\ \A q \in Requests : ~CutOff(q)
      /\ \A r \in Runs : ~FailEarly(r)
  BY LossesTell
<1> SUFFICES ASSUME ~exists' PROVE HistoryInHand'
  BY DEF HistoryInHand
<1> DEFINE Holds(q) == /\ Op(q) = "delete"
                       /\ \/ At(q, "queryHistory")
                          \/ At(q, "deleteHistory") /\ history \subseteq req[q].runs
<1>1. ASSUME NEW q \in Requests,
             AskFor(q) \/ CreateFires(q) \/ \E r \in Runs : ScheduledFires(q, r)
      PROVE  FALSE
  <2>1. exists' = exists /\ (exists \/ schedules # {})
    BY <1>1, BeginMoves DEF itemVars
  <2> QED  BY <2>1 DEF DeletionsPrepared
<1>2. ASSUME NEW q \in Requests, RequestStep(q)
      PROVE  HistoryInHand'
  <2>1. CASE DeleteItem(q)
    <3>1. Op(q) = "delete" /\ Then(q, "queryHistory")
      BY <2>1, CallTells DEF DeleteItem
    <3> QED  BY <3>1, ThenMoves DEF HistoryInHand, At, Op
  <2>2. CASE QueryHistory(q)
    <3>1. /\ Op(q) = "delete" /\ history' = history
          /\ req' = [req EXCEPT ![q].at = "deleteHistory", ![q].runs = history]
      BY <2>2, CallTells DEF QueryHistory
    <3> QED  BY <3>1 DEF HistoryInHand, At, Op, TypeOK
  <2>3. CASE ~DeleteItem(q) /\ ~QueryHistory(q)
    <3>1. ~exists
      BY <1>2, <2>3, RequestWrites DEF UpdateTestDBEntry, SetBaseline, ClearBaseline
    <3>2. Op(q) \in {"delete", "deleteRuns"}
      BY <3>1, <1>2, CallTells
         DEF DeletionsPrepared, RequestStep, DropCreate, DropScheduled, PutSchedule,
             StartExpired, PutFailedRun, CountFailedRun, Incompatible, StartExecution,
             ReadForSave, UpdateTestDBEntry, ReadForDelete, DeleteItem, QueryHistory,
             DeleteHistory, ReadForDeleteRuns, ReadExistingRuns, DecrementCounter,
             ReadForBaseline, ReadBaselineRun, SetBaseline, ReadForClear, ClearBaseline
    <3>3. Goes(q)
      BY <1>2, ScheduleAndReadGo, WriteGoes DEF RequestStep
    <3>4. CASE DeleteHistory(q)
      <4>1. /\ history' = history \ req[q].runs
            /\ At(q, "deleteHistory")
        BY <3>4 DEF DeleteHistory
      <4>2. CASE history \subseteq req[q].runs
        BY <4>1, <4>2 DEF HistoryInHand
      <4>3. CASE ~(history \subseteq req[q].runs)
        <5>1. PICK p \in Requests : Holds(p)
          BY <3>1, <4>3 DEF HistoryInHand
        <5>2. p # q
          BY <4>1, <4>3, <5>1 DEF At
        <5>3. req'[p] = req[p] /\ history' \subseteq history
          BY <3>3, <4>1, <5>2 DEF Goes
        <5> QED  BY <5>1, <5>3 DEF HistoryInHand, At, Op
      <4> QED  BY <4>2, <4>3
    <3>5. CASE ~DeleteHistory(q)
      <4>1. history' = history
        BY <1>2, <3>2, <3>5, RequestWrites, CallTells DEF PutFailedRun
      <4>2. CASE history = {}
        BY <4>1, <4>2 DEF HistoryInHand
      <4>3. CASE history # {}
        <5>1. PICK p \in Requests : Holds(p)
          BY <3>1, <4>3 DEF HistoryInHand
        <5>2. p # q
          <6> SUFFICES ASSUME p = q PROVE FALSE
            OBVIOUS
          <6>1. At(q, "queryHistory") \/ At(q, "deleteHistory")
            BY <5>1
          <6> QED
            BY <1>2, <2>3, <3>5, <5>1, <6>1
               DEF RequestStep, DropCreate, DropScheduled, PutSchedule, StartExpired,
                   PutFailedRun, CountFailedRun, Incompatible, StartExecution,
                   ReadForSave, UpdateTestDBEntry, ReadForDelete, ReadForDeleteRuns,
                   ReadExistingRuns, DecrementCounter, ReadForBaseline, ReadBaselineRun,
                   SetBaseline, ReadForClear, ClearBaseline, At
        <5>3. req'[p] = req[p]
          BY <3>3, <5>2 DEF Goes
        <5> QED  BY <4>1, <5>1, <5>3 DEF HistoryInHand, At, Op
      <4> QED  BY <4>2, <4>3
    <3> QED  BY <3>4, <3>5
  <2> QED  BY <2>1, <2>2, <2>3
<1>3. ASSUME NEW r \in Runs, ExecutionStep(r)
      PROVE  FALSE
  <2>1. exists => exists'
    BY <1>3 DEF ExecutionStep, UpdaterReads, UpdateScenario, UpdateHistory, CountRun,
                FailEarly, itemVars
  <2>2. UnderWay(r)
    BY <1>3, ExecutionMoves
  <2> QED  BY <2>1, <2>2 DEF StatusTold, StatusTellsOfRuns
<1>4. CASE UNCHANGED vars
  BY <1>4 DEF vars, HistoryInHand, At, Op
<1> QED  BY <1>0, <1>1, <1>2, <1>3, <1>4 DEF Next, ExecutionStep

\* What the users keep apart, and what they ask for only between runs and updates.
DeletionAssumption ==
  /\ UsersKeepApart \subseteq Apart
  /\ StatusOps \subseteq IdleOnly
  /\ "delete" \in BetweenUpdates

\* All parts together, step by step.
LEMMA DeletionInvariantStarts == ASSUME Init PROVE DeletionInvariant
<1>1. /\ \A q \in Requests : Op(q) = "none" /\ At(q, "none")
      /\ \A r \in Runs : exec[r] = "none"
      /\ exists /\ status = "created"
  BY DEF Init, NoRequest, Op, At
<1>2. RequestsApart /\ CallsInOrder
  BY <1>1 DEF RequestsApart, CallsInOrder, InFlight, Op, At, CallsOf
<1>3. \A r \in Runs : ~UnderWay(r) /\ exec[r] \notin Updating
  BY <1>1 DEF UnderWay, Updating
<1>4. OneRunAtATime
  BY <1>1, <1>3 DEF OneRunAtATime, At
<1>5. DeletionsPrepared
  BY <1>1 DEF DeletionsPrepared
<1>6. StatusTellsOfRuns /\ SafeStatusMeansNoRun
  BY <1>1, <1>3, SafeStatuses, ToCome DEF StatusTellsOfRuns, SafeStatusMeansNoRun
<1>7. HistoryInHand
  BY <1>1 DEF HistoryInHand
<1> QED  BY <1>2, <1>4, <1>5, <1>6, <1>7 DEF DeletionInvariant

\* Each part is kept with the help of the others.
LEMMA DeletionInvariantKept ==
  ASSUME DeletionAssumption, TypeOK, DeletionInvariant, [Next]_vars
  PROVE  DeletionInvariant'
<1> USE DEF DeletionAssumption, DeletionInvariant
<1>1. RequestsApart' /\ CallsInOrder'
  BY OrderKept
<1>2. OneRunAtATime'
  BY OneRunKept
<1>3. DeletionsPrepared'
  BY DeletionsKept
<1>4. ASSUME losses' = 0 PROVE StatusTold /\ StatusTold'
  <2>1. losses = 0
    BY <1>4, LossesTell
  <2>2. StatusTold
    BY <2>1 DEF StatusTold
  <2> QED  BY <1>4, <2>2, StatusToldKept
<1>5. ASSUME losses' = 0, ~Unprocessed PROVE HistoryInHand'
  BY <1>4, <1>5, HistoryKept DEF StatusTold
<1> QED  BY <1>1, <1>2, <1>3, <1>4, <1>5 DEF StatusTold

\* So all parts hold together.
LEMMA DeletionInvariantHolds ==
  ASSUME DeletionAssumption PROVE Spec => [](TypeOK /\ DeletionInvariant)
<1>1. Init => DeletionInvariant
  BY DeletionInvariantStarts
<1>2. TypeOK /\ DeletionInvariant /\ [Next]_vars => DeletionInvariant'
  BY DeletionInvariantKept
<1> QED  BY <1>1, <1>2, ApiTypeCorrect, PTL DEF Spec

\* The guard of saveOnly and deleteTest can be relied upon: nothing is safe to edit
\* while a run has an update to come.
THEOREM SafeStatusCanBeTrusted ==
  ASSUME DeletionAssumption PROVE Spec => []SafeStatusMeansNoRun
<1>1. DeletionInvariant => SafeStatusMeansNoRun
  BY DEF DeletionInvariant, SafeStatusMeansNoRun
<1> QED  BY <1>1, DeletionInvariantHolds, PTL

\* Deletion takes everything: when the requests are over, a deleted scenario has no
\* history item and no run under way.
THEOREM DeletionLeavesNothing ==
  ASSUME DeletionAssumption, ~Unprocessed
  PROVE  Spec => []DeletedScenariosLeaveNothing
<1>1. DeletionInvariant => DeletedScenariosLeaveNothing
  BY DEF DeletionInvariant, DeletedScenariosLeaveNothing, HistoryInHand,
         StatusTellsOfRuns, Settled, InFlight, Op
<1> QED  BY <1>1, DeletionInvariantHolds, PTL

\* What crosses a deletion, and what the scenario leaves behind, does not write its
\* item again.
LEMMA DeletedStays ==
  ASSUME TypeOK, DeletionInvariant, [Next]_vars, ~exists, losses' = 0
  PROVE  ~exists'
<1>0. /\ losses = 0
      /\ \A q \in Requests : ~CutOff(q)
      /\ \A r \in Runs : ~FailEarly(r)
  BY LossesTell
<1>1. ASSUME NEW q \in Requests,
             AskFor(q) \/ CreateFires(q) \/ \E r \in Runs : ScheduledFires(q, r)
      PROVE  exists' = exists
  BY <1>1, BeginMoves DEF itemVars
<1>2. ASSUME NEW q \in Requests, RequestStep(q)
      PROVE  ~exists'
  <2>1. Op(q) \in {"none", "delete", "deleteRuns"}
    BY DEF DeletionInvariant, DeletionsPrepared
  <2>2. ~UpdateTestDBEntry(q) /\ ~SetBaseline(q) /\ ~ClearBaseline(q)
    BY <2>1, CallTells
       DEF DeletionInvariant, UpdateTestDBEntry, SetBaseline, ClearBaseline
  <2> QED  BY <1>2, <2>2, RequestWrites DEF DeleteItem
<1>3. ASSUME NEW r \in Runs, ExecutionStep(r)
      PROVE  FALSE
  BY <1>0, <1>3, ExecutionMoves DEF DeletionInvariant, StatusTellsOfRuns
<1>4. CASE UNCHANGED vars
  BY <1>4 DEF vars
<1> QED  BY <1>0, <1>1, <1>2, <1>3, <1>4 DEF Next, ExecutionStep

\* Deletion is for good: a deleted scenario stays deleted.
THEOREM DeletionIsForGood ==
  ASSUME DeletionAssumption PROVE Spec => StaysDeleted
<1>1. TypeOK /\ DeletionInvariant /\ [Next]_vars
        => (~exists /\ losses' = 0 => ~exists')
  BY DeletedStays
<1> QED  BY <1>1, DeletionInvariantHolds, PTL DEF Spec, StaysDeleted

-------------------------------------------------------------------------------
(***************************************************************************)
(* Schedules.                                                              *)
(***************************************************************************)

\* A promise is kept while the schedules stay and its request does not move.
LEMMA PromiseStays ==
  ASSUME SchedulePromised, NEW q \in Requests, ~Promises(q),
         \A p \in Requests \ {q} : req'[p] = req[p],
         schedules' = schedules, expired' = expired
  PROVE  SchedulePromised'
<1>1. CASE schedules # {} \/ expired
  BY <1>1 DEF SchedulePromised
<1>2. CASE \E p \in Requests : Promises(p)
  <2>1. PICK p \in Requests : Promises(p)
    BY <1>2
  <2>2. req'[p] = req[p]
    BY <2>1
  <2> QED  BY <2>1, <2>2 DEF SchedulePromised, Promises, Op, At
<1> QED  BY <1>1, <1>2 DEF SchedulePromised

\* A step of a request that leaves the schedules and the status alone, made by one
\* that promises nothing and is not about to write "scheduled" afterwards.
LEMMA OtherRequestsPromise ==
  ASSUME SchedulesPromised, NEW q \in Requests, ~Promises(q),
         \A p \in Requests \ {q} : req'[p] = req[p],
         schedules' = schedules, expired' = expired, writing' = writing,
         status' = "scheduled" \/ WritesScheduled(q)'
           => status = "scheduled" \/ WritesScheduled(q),
         ~(Op(q) = "start" /\ req[q].at \in {"dropCreate", "dropScheduled"})'
  PROVE  SchedulesPromised'
<1>1. ASSUME status' = "scheduled" \/ \E p \in Requests : WritesScheduled(p)'
      PROVE  SchedulePromised'
  <2>1. status = "scheduled" \/ \E p \in Requests : WritesScheduled(p)
    <3>1. ASSUME NEW p \in Requests, p # q, WritesScheduled(p)'
          PROVE  WritesScheduled(p)
      BY <3>1 DEF WritesScheduled, At, Op
    <3> QED  BY <1>1, <3>1
  <2> QED  BY <2>1, PromiseStays DEF SchedulesPromised
<1>2. ASSUME NEW p \in Requests,
             (Op(p) = "start" /\ req[p].at \in {"dropCreate", "dropScheduled"})'
      PROVE  expired'
  <2>1. p # q
    BY <1>2
  <2> QED  BY <1>2, <2>1 DEF SchedulesPromised, Op
<1> QED  BY <1>1, <1>2 DEF SchedulesPromised

\* Once a schedule is there, or promised, every write of "scheduled" is covered.
LEMMA PromisedAnew ==
  ASSUME SchedulesPromised, SchedulePromised', writing' = writing,
         \A q \in Requests :
           (Op(q) = "start" /\ req[q].at \in {"dropCreate", "dropScheduled"})' => expired'
  PROVE  SchedulesPromised'
  BY DEF SchedulesPromised

\* A new request changes nothing, and the one-time schedule that fires is made
\* anew by the request it sends.
LEMMA BeginPromises ==
  ASSUME TypeOK, CallsInOrder, SchedulesPromised, NEW q \in Requests,
         AskFor(q) \/ CreateFires(q) \/ \E r \in Runs : ScheduledFires(q, r)
  PROVE  SchedulesPromised'
<1>1. PICK op \in Ops, runs \in SUBSET Runs :
        /\ Begin(q, op, runs)
        /\ ~InFlight(q)
        /\ \A p \in Requests \ {q} : req'[p] = req[p]
        /\ req'[q].op = op /\ req'[q].at = FirstCall(op)
        /\ UNCHANGED <<status, expired, writing>>
  BY BeginMoves DEF runVars, itemVars
<1>2. /\ FirstCall(op) # "write"
      /\ op = "start" => FirstCall(op) = "execute"
      /\ op = "scheduleStart" => FirstCall(op) = "dropCreate"
  BY DEF FirstCall
<1>3. ~Promises(q) /\ ~WritesScheduled(q)'
  BY <1>1, <1>2 DEF InFlight, Promises, Op, WritesScheduled, At
<1>4. CASE schedules' = schedules
  BY <1>1, <1>2, <1>3, <1>4, OtherRequestsPromise DEF Op
<1>5. CASE schedules' # schedules
  <2>1. CreateFires(q)
    BY <1>5 DEF AskFor, ScheduledFires
  <2>2. Begin(q, "scheduleStart", {})
    BY <2>1 DEF CreateFires
  <2>3. op = "scheduleStart"
    BY <1>1, <2>2 DEF Begin, TypeOK
  <2>4. SchedulePromised'
    BY <1>1, <1>2, <2>3 DEF SchedulePromised, Promises, Op, At
  <2>5. \A p \in Requests :
          (Op(p) = "start" /\ req[p].at \in {"dropCreate", "dropScheduled"})' => expired'
    BY <1>1, <2>3 DEF SchedulesPromised, Op
  <2> QED  BY <1>1, <2>4, <2>5, PromisedAnew
<1> QED  BY <1>4, <1>5

\* Schedules are dropped for a new one, for a deletion, or because they expired.
LEMMA ScheduleStepPromises ==
  ASSUME TypeOK, RequestsApart, CallsInOrder, SchedulesPromised,
         UsersKeepApart \subseteq Apart, NEW q \in Requests,
         DropCreate(q) \/ DropScheduled(q) \/ PutSchedule(q) \/ StartExpired(q)
  PROVE  SchedulesPromised'
<1>1. Goes(q) /\ writing' = writing
  BY ScheduleAndReadGo
     DEF DropCreate, DropScheduled, PutSchedule, StartExpired, runVars
<1>2. CASE DropCreate(q) \/ DropScheduled(q)
  <2>1. Op(q) \in {"start", "schedule", "scheduleStart", "delete"} /\ expired' = expired
    BY <1>2, CallTells DEF DropCreate, DropScheduled
  <2>2. Op(q) = "start" => expired
    BY <1>2 DEF SchedulesPromised, DropCreate, DropScheduled, At
  <2>3. Op(q) # "start" => Promises(q)'
    BY <1>2, <2>1, ThenMoves DEF DropCreate, DropScheduled, Promises, Op, At
  <2>4. SchedulePromised'
    BY <2>1, <2>2, <2>3 DEF SchedulePromised
  <2>5. \A p \in Requests :
          (Op(p) = "start" /\ req[p].at \in {"dropCreate", "dropScheduled"})' => expired'
    <3> TAKE p \in Requests
    <3>1. CASE p = q
      BY <1>1, <2>1, <2>2, <3>1 DEF Goes, Op
    <3>2. CASE p # q
      BY <1>1, <2>1, <3>2 DEF Goes, SchedulesPromised, Op
    <3> QED  BY <3>1, <3>2
  <2> QED  BY <1>1, <2>4, <2>5, PromisedAnew
<1>3. CASE StartExpired(q)
  <2>1. expired'
    BY <1>3 DEF StartExpired
  <2> QED  BY <1>1, <2>1, PromisedAnew DEF SchedulePromised
<1>4. CASE PutSchedule(q)
  <2>1. Op(q) \in {"schedule", "scheduleStart"} /\ schedules' # {}
    BY <1>4, CallTells DEF PutSchedule
  <2>2. \A p \in Requests : Op(p)' # "start"
    <3> TAKE p \in Requests
    <3>1. p # q => Op(p) # "start"
      BY <2>1, ApartMeans
    <3> QED  BY <1>1, <2>1, <3>1 DEF Goes, Op
  <2>3. SchedulePromised'
    BY <2>1 DEF SchedulePromised
  <2> QED  BY <1>1, <2>2, <2>3, PromisedAnew
<1> QED  BY <1>2, <1>3, <1>4

\* Requests that neither drop nor put schedules.
LEMMA QuietForSchedules ==
  ASSUME TypeOK, CallsInOrder, NEW q \in Requests, RequestStep(q),
         ~DropCreate(q), ~DropScheduled(q), ~PutSchedule(q), ~StartExpired(q),
         ~DeleteItem(q)
  PROVE  /\ ~Promises(q)
         /\ schedules' = schedules /\ expired' = expired /\ writing' = writing
         /\ status' = "scheduled" \/ WritesScheduled(q)'
              => status = "scheduled" \/ WritesScheduled(q)
         /\ ~(Op(q) = "start" /\ req[q].at \in {"dropCreate", "dropScheduled"})'
<1>1. Goes(q)
  BY ScheduleAndReadGo, WriteGoes DEF RequestStep
<1>2. CASE UpdateTestDBEntry(q)
  <2>1. /\ At(q, "write") /\ End(q)
        /\ status' = CASE Op(q) = "save" -> req[q].found
                       [] Op(q) = "start" -> "queued"
                       [] OTHER -> "scheduled"
        /\ schedules' = schedules /\ expired' = expired /\ writing' = writing
    BY <1>2 DEF UpdateTestDBEntry, runVars
  <2>2. Op(q) \in {"start", "save", "schedule", "scheduleStart"}
    BY <2>1, CallTells
  <2>3. status' = "scheduled" => WritesScheduled(q)
    BY <2>1, <2>2 DEF WritesScheduled
  <2>4. Op(q)' = "none"
    BY <2>1, EndMoves DEF Op
  <2> QED  BY <2>1, <2>2, <2>3, <2>4 DEF Promises, WritesScheduled
<1>3. CASE ReadForSave(q)
  <2>1. /\ At(q, "read") /\ Op(q) = "save"
        /\ schedules' = schedules /\ expired' = expired /\ writing' = writing
        /\ status' = status
    BY <1>3 DEF ReadForSave, runVars, itemVars
  <2>2. CASE End(q)
    BY <2>1, <2>2, EndMoves DEF Promises, WritesScheduled, Op
  <2>3. CASE req' = [req EXCEPT ![q].at = "write",
                                ![q].found = IF exists THEN status ELSE "created"]
    <3>1. /\ req'[q].found = IF exists THEN status ELSE "created"
          /\ Op(q)' = "save"
      BY <2>1, <2>3 DEF TypeOK, Op
    <3> QED  BY <2>1, <3>1 DEF Promises, WritesScheduled
  <2> QED  BY <1>3, <2>2, <2>3 DEF ReadForSave
<1>4. CASE \/ PutFailedRun(q) \/ CountFailedRun(q) \/ StartExecution(q)
           \/ \E r \in Runs : Incompatible(q, r)
  <2>1. Op(q) \in {"start", "save"}
    BY <1>4, CallTells DEF PutFailedRun, CountFailedRun, StartExecution, Incompatible
  <2>2. /\ schedules' = schedules /\ expired' = expired /\ writing' = writing
        /\ status' = status
    BY <1>4 DEF PutFailedRun, CountFailedRun, StartExecution, Incompatible, runVars,
                itemVars
  <2>3. StartExecution(q) => Op(q) = "start"
    BY CallTells DEF StartExecution
  <2>4. ~StartExecution(q) => ~At(q, "write")'
    BY <1>4, ThenMoves, EndMoves
       DEF PutFailedRun, CountFailedRun, Incompatible, At, TypeOK
  <2>5. req'[q].at \notin {"dropCreate", "dropScheduled"}
    BY <1>4, ThenMoves, EndMoves
       DEF PutFailedRun, CountFailedRun, StartExecution, Incompatible, TypeOK
  <2>6. Op(q)' \in {"start", "none"} \/ ~At(q, "write")'
    BY <1>1, <2>3, <2>4 DEF Goes
  <2> QED  BY <2>1, <2>2, <2>5, <2>6 DEF Promises, WritesScheduled
<1>5. CASE \/ ReadForDelete(q) \/ QueryHistory(q) \/ DeleteHistory(q)
           \/ ReadForDeleteRuns(q) \/ ReadExistingRuns(q) \/ DecrementCounter(q)
           \/ ReadForBaseline(q) \/ ReadBaselineRun(q) \/ SetBaseline(q)
           \/ ReadForClear(q) \/ ClearBaseline(q)
  <2>1. Op(q) \in {"delete", "deleteRuns", "setBaseline", "clearBaseline"}
    BY <1>5, CallTells
       DEF ReadForDelete, QueryHistory, DeleteHistory, ReadForDeleteRuns,
           ReadExistingRuns, DecrementCounter, ReadForBaseline, ReadBaselineRun,
           SetBaseline, ReadForClear, ClearBaseline
  <2>2. /\ schedules' = schedules /\ expired' = expired /\ writing' = writing
        /\ status' = status
    BY <1>5 DEF ReadForDelete, QueryHistory, DeleteHistory, ReadForDeleteRuns,
           ReadExistingRuns, DecrementCounter, ReadForBaseline, ReadBaselineRun,
           SetBaseline, ReadForClear, ClearBaseline, runVars, itemVars
  <2>3. Op(q) = "delete" => req[q].at \in {"read", "queryHistory", "deleteHistory"}
    BY <1>5, CallTells
       DEF ReadForDelete, QueryHistory, DeleteHistory, ReadForDeleteRuns,
           ReadExistingRuns, DecrementCounter, ReadForBaseline, ReadBaselineRun,
           SetBaseline, ReadForClear, ClearBaseline, At
  <2>4. Op(q)' \in {Op(q), "none"}
    BY <1>1 DEF Goes
  <2> QED  BY <2>1, <2>2, <2>3, <2>4 DEF Promises, WritesScheduled
<1> QED  BY <1>2, <1>3, <1>4, <1>5 DEF RequestStep

\* They keep every promise.
LEMMA QuietRequestPromises ==
  ASSUME TypeOK, CallsInOrder, SchedulesPromised, NEW q \in Requests, RequestStep(q),
         ~DropCreate(q), ~DropScheduled(q), ~PutSchedule(q), ~StartExpired(q),
         ~DeleteItem(q)
  PROVE  SchedulesPromised'
<1>1. \A p \in Requests \ {q} : req'[p] = req[p]
  BY ScheduleAndReadGo, WriteGoes DEF RequestStep, Goes
<1> QED  BY <1>1, QuietForSchedules, OtherRequestsPromise

\* Nobody promises or needs a schedule beside a deletion.
LEMMA DeletePromises ==
  ASSUME TypeOK, RequestsApart, CallsInOrder, SchedulesPromised,
         UsersKeepApart \subseteq Apart, NEW q \in Requests, DeleteItem(q)
  PROVE  SchedulesPromised'
<1>1. /\ Op(q) = "delete" /\ Then(q, "queryHistory")
      /\ status' = Absent /\ writing' = writing
  BY CallTells DEF DeleteItem, runVars
<1>2. \A p \in Requests : Op(p)' \in {"none", "delete", "deleteRuns"}
  <2> TAKE p \in Requests
  <2>1. p # q => Op(p) \in {"none", "delete", "deleteRuns"}
    BY <1>1, ApartMeans
  <2> QED  BY <1>1, <2>1, ThenMoves DEF Op
<1>3. status' # "scheduled"
  BY <1>1 DEF Absent
<1> QED  BY <1>1, <1>2, <1>3 DEF SchedulesPromised, WritesScheduled

\* An execution never says "scheduled".
LEMMA ExecutionPromises ==
  ASSUME TypeOK, SchedulesPromised, NEW r \in Runs, ExecutionStep(r)
  PROVE  SchedulesPromised'
<1>1. /\ req' = req /\ schedules' = schedules
      /\ \A s \in Runs \ {r} : writing'[s] = writing[s]
  BY ExecutionMoves
<1>2. expired' = expired
  BY DEF ExecutionStep, UpdaterReads, UpdateScenario, UpdateHistory, CountRun, FailEarly
<1>3. writing'[r] # "scheduled"
  BY DEF ExecutionStep, UpdaterReads, UpdateScenario, UpdateHistory, CountRun, FailEarly,
         EndUpdate, SchedulesPromised, TypeOK, Absent, runVars
<1>4. status' = "scheduled" => status = "scheduled"
  BY DEF ExecutionStep, UpdaterReads, UpdateScenario, MetadataWrite, UpdateHistory,
         CountRun, FailEarly, SchedulesPromised, itemVars
<1>5. /\ \A q \in Requests : Promises(q)' = Promises(q)
      /\ \A q \in Requests : WritesScheduled(q)' = WritesScheduled(q)
  BY <1>1 DEF Promises, WritesScheduled, Op, At
<1>6. SchedulePromised => SchedulePromised'
  BY <1>1, <1>2, <1>5 DEF SchedulePromised
<1> QED  BY <1>1, <1>2, <1>3, <1>4, <1>5, <1>6 DEF SchedulesPromised, Op

\* At first nothing is scheduled.
LEMMA ScheduleInvariantStarts == ASSUME Init PROVE ScheduleInvariant
<1>1. /\ \A q \in Requests : Op(q) = "none" /\ At(q, "none")
      /\ \A r \in Runs : writing[r] = Absent
      /\ status = "created"
  BY DEF Init, NoRequest, Op, At
<1>2. RequestsApart /\ CallsInOrder
  BY <1>1 DEF RequestsApart, CallsInOrder, InFlight, Op, At, CallsOf
<1>3. SchedulesPromised
  BY <1>1 DEF SchedulesPromised, WritesScheduled, At, Absent
<1> QED  BY <1>2, <1>3 DEF ScheduleInvariant

\* No step breaks a promise, unless something is cut off.
LEMMA ScheduleInvariantKept ==
  ASSUME UsersKeepApart \subseteq Apart, TypeOK, ScheduleInvariant, [Next]_vars
  PROVE  ScheduleInvariant'
<1> USE DEF ScheduleInvariant
<1>1. RequestsApart' /\ CallsInOrder'
  BY OrderKept
<1>2. ASSUME losses' = 0 PROVE SchedulesPromised'
  <2>0. /\ losses = 0
        /\ \A q \in Requests : ~CutOff(q)
    BY <1>2, LossesTell
  <2>1. ASSUME NEW q \in Requests,
               AskFor(q) \/ CreateFires(q) \/ \E r \in Runs : ScheduledFires(q, r)
        PROVE  SchedulesPromised'
    BY <2>0, <2>1, BeginPromises
  <2>2. ASSUME NEW q \in Requests, RequestStep(q)
        PROVE  SchedulesPromised'
    BY <2>0, <2>2, ScheduleStepPromises, DeletePromises, QuietRequestPromises
  <2>3. ASSUME NEW r \in Runs, ExecutionStep(r)
        PROVE  SchedulesPromised'
    BY <2>0, <2>3, ExecutionPromises
  <2>4. CASE UNCHANGED vars
    BY <2>0, <2>4 DEF vars, SchedulesPromised, SchedulePromised, Promises,
                      WritesScheduled, Op, At
  <2> QED  BY <2>0, <2>1, <2>2, <2>3, <2>4 DEF Next, ExecutionStep
<1> QED  BY <1>1, <1>2

\* A scenario that says "scheduled" has a schedule, or its schedule has expired,
\* whatever the users do besides what they keep apart.
THEOREM ScheduledScenariosHaveSchedules ==
  ASSUME UsersKeepApart \subseteq Apart
  PROVE  Spec => []ScheduledMeansASchedule
<1>1. Init => ScheduleInvariant
  BY ScheduleInvariantStarts
<1>2. TypeOK /\ ScheduleInvariant /\ [Next]_vars => ScheduleInvariant'
  BY ScheduleInvariantKept
<1>3. ScheduleInvariant => ScheduledMeansASchedule
  BY DEF ScheduleInvariant, ScheduledMeansASchedule, SchedulesPromised, SchedulePromised,
         Promises, Settled, InFlight, Op
<1> QED  BY <1>1, <1>2, <1>3, ApiTypeCorrect, PTL DEF Spec

-------------------------------------------------------------------------------
(***************************************************************************)
(* The counter.                                                            *)
(***************************************************************************)

\* A run that is to be recorded as incompatible has no history item yet.
LEMMA FailedRunsKept ==
  ASSUME TypeOK, CallsInOrder, FailedRunsAreNew, [Next]_vars
  PROVE  FailedRunsAreNew'
<1> DEFINE NewOne(q) == \E r \in Runs :
             req[q].runs = {r} /\ exec[r] = "over" /\ r \notin history
           Only(q) == \A p \in Requests \ {q} :
             At(p, "putFailedRun") => req[p].runs # req[q].runs
<1>a. ASSUME NEW q \in Requests, At(q, "putFailedRun")
      PROVE  NewOne(q) /\ Only(q)
  BY <1>a DEF FailedRunsAreNew
\* The requests about to record a run are among those that were.
<1>b. ASSUME \A q \in Requests :
               At(q, "putFailedRun")' => At(q, "putFailedRun") /\ req'[q] = req[q],
             \A r \in history' : exec'[r] # "none",
             \A r \in Runs : exec[r] = "over" => exec'[r] = "over" /\
               (r \in history' => \/ r \in history
                                  \/ \A q \in Requests :
                                       At(q, "putFailedRun")' => req[q].runs # {r})
      PROVE  FailedRunsAreNew'
  <2>1. ASSUME NEW q \in Requests, At(q, "putFailedRun")'
        PROVE  NewOne(q)' /\ Only(q)'
    <3>1. At(q, "putFailedRun") /\ req'[q] = req[q]
      BY <1>b, <2>1
    <3>2. PICK r \in Runs : req[q].runs = {r} /\ exec[r] = "over" /\ r \notin history
      BY <1>a, <3>1
    <3>3. NewOne(q)'
      BY <1>b, <2>1, <3>1, <3>2
    <3>4. Only(q)'
      BY <1>a, <1>b, <3>1
    <3> QED  BY <3>3, <3>4
  <2> QED  BY <1>b, <2>1 DEF FailedRunsAreNew
<1>1. ASSUME NEW q \in Requests,
             AskFor(q) \/ CreateFires(q) \/ \E r \in Runs : ScheduledFires(q, r)
      PROVE  FailedRunsAreNew'
  <2>1. PICK op \in Ops :
          /\ \A p \in Requests \ {q} : req'[p] = req[p]
          /\ req'[q].at = FirstCall(op)
          /\ UNCHANGED <<history, exec>>
    BY <1>1, BeginMoves DEF runVars
  <2>2. FirstCall(op) # "putFailedRun"
    BY DEF FirstCall
  <2> QED  BY <1>b, <2>1, <2>2 DEF At, FailedRunsAreNew
<1>2. ASSUME NEW q \in Requests, NEW r \in Runs, Incompatible(q, r)
      PROVE  FailedRunsAreNew'
  <2>1. /\ exec[r] = "none" /\ history' = history /\ ~At(q, "putFailedRun")
        /\ exec' = [exec EXCEPT ![r] = "over"]
        /\ req' = [req EXCEPT ![q].at = "putFailedRun", ![q].runs = {r}]
    BY <1>2 DEF Incompatible, At
  <2>2. /\ \A p \in Requests \ {q} : req'[p] = req[p]
        /\ req'[q].at = "putFailedRun" /\ req'[q].runs = {r}
        /\ \A s \in Runs \ {r} : exec'[s] = exec[s]
        /\ exec'[r] = "over"
    BY <2>1 DEF TypeOK
  <2>3. r \notin history
    BY <2>1 DEF FailedRunsAreNew
  <2>4. \A s \in history' : exec'[s] # "none"
    BY <2>1, <2>2 DEF FailedRunsAreNew, TypeOK
  <2>5. ASSUME NEW p \in Requests, p # q, At(p, "putFailedRun")'
        PROVE  NewOne(p)' /\ req[p].runs # {r} /\ Only(p)'
    <3>1. At(p, "putFailedRun") /\ req'[p] = req[p]
      BY <2>2, <2>5 DEF At
    <3>2. PICK s \in Runs : req[p].runs = {s} /\ exec[s] = "over" /\ s \notin history
      BY <1>a, <3>1
    <3>3. s # r
      BY <2>1, <3>2
    <3>4. NewOne(p)' /\ req[p].runs # {r}
      BY <2>1, <2>2, <3>1, <3>2, <3>3
    <3>5. Only(p)'
      <4> SUFFICES ASSUME NEW o \in Requests \ {p}, At(o, "putFailedRun")'
                   PROVE  req'[o].runs # req'[p].runs
        OBVIOUS
      <4>1. CASE o = q
        BY <2>2, <3>1, <3>4, <4>1
      <4>2. CASE o # q
        <5>1. Only(p)
          BY <1>a, <3>1
        <5>2. At(o, "putFailedRun") /\ req'[o] = req[o]
          BY <2>2, <4>2 DEF At
        <5> QED  BY <3>1, <5>1, <5>2
      <4> QED  BY <4>1, <4>2
    <3> QED  BY <3>4, <3>5
  <2>6. NewOne(q)' /\ Only(q)'
    BY <2>1, <2>2, <2>3, <2>5
  <2> QED  BY <2>4, <2>5, <2>6 DEF FailedRunsAreNew
<1>3. ASSUME NEW q \in Requests, RequestStep(q) \/ CutOff(q),
             \A r \in Runs : ~Incompatible(q, r)
      PROVE  FailedRunsAreNew'
  <2>1. Goes(q)
    BY <1>3, ScheduleAndReadGo, WriteGoes DEF RequestStep
  <2>2. ~At(q, "putFailedRun")'
    <3>1. CASE End(q)
      BY <3>1, EndMoves DEF At
    <3>2. CASE ~End(q)
      <4>1. ASSUME NEW call, call # "putFailedRun", Then(q, call)
            PROVE  ~At(q, "putFailedRun")'
        BY <4>1, ThenMoves DEF At
      <4>2. CASE \/ ReadForSave(q) \/ QueryHistory(q) \/ ReadExistingRuns(q)
        BY <3>2, <4>2 DEF ReadForSave, QueryHistory, ReadExistingRuns, At, TypeOK
      <4> QED
        BY <1>3, <3>2, <4>1, <4>2
           DEF RequestStep, CutOff, DropCreate, DropScheduled, PutSchedule, StartExpired,
               PutFailedRun, CountFailedRun, StartExecution, UpdateTestDBEntry,
               ReadForDelete, DeleteItem, DeleteHistory, ReadForDeleteRuns,
               DecrementCounter, ReadForBaseline, ReadBaselineRun, SetBaseline,
               ReadForClear, ClearBaseline
    <3> QED  BY <3>1, <3>2
  <2>3. \A r \in Runs : exec[r] # "none" => exec'[r] # "none"
                         /\ (exec[r] = "over" => exec'[r] = "over")
    <3>1. CASE StartExecution(q)
      BY <3>1 DEF StartExecution
    <3>2. CASE ~StartExecution(q)
      BY <1>3, <3>2, RequestsAndRuns
    <3> QED  BY <3>1, <3>2
  <2>4. \A p \in Requests :
          At(p, "putFailedRun")' => At(p, "putFailedRun") /\ req'[p] = req[p] /\ p # q
    BY <2>1, <2>2 DEF Goes, At
  <2>5. CASE PutFailedRun(q)
    <3>1. /\ At(q, "putFailedRun") /\ history' = history \cup req[q].runs
          /\ exec' = exec
      BY <2>5 DEF PutFailedRun, runVars
    <3>2. PICK r \in Runs : req[q].runs = {r} /\ exec[r] = "over"
      BY <1>a, <3>1
    <3>3. \A p \in Requests : At(p, "putFailedRun")' => req[p].runs # {r}
      BY <1>a, <2>4, <3>1, <3>2
    <3> QED  BY <1>b, <2>4, <3>1, <3>2, <3>3 DEF FailedRunsAreNew
  <2>6. CASE ~PutFailedRun(q)
    <3>1. history' \subseteq history
      BY <1>3, <2>6, RequestWrites DEF DeleteHistory
    <3> QED  BY <1>b, <2>3, <2>4, <3>1 DEF FailedRunsAreNew, TypeOK
  <2> QED  BY <2>5, <2>6
<1>4. ASSUME NEW r \in Runs, ExecutionStep(r)
      PROVE  FailedRunsAreNew'
  <2>1. /\ req' = req /\ exec[r] # "over" /\ exec'[r] # "none"
        /\ \A s \in Runs \ {r} : exec'[s] = exec[s]
    BY <1>4, ExecutionMoves DEF UnderWay, Updating
  <2>2. history' \subseteq history \cup {r}
    BY <1>4 DEF ExecutionStep, UpdaterReads, UpdateScenario, UpdateHistory, CountRun,
                FailEarly
  <2> QED  BY <1>b, <2>1, <2>2 DEF FailedRunsAreNew, At, TypeOK
<1>5. CASE UNCHANGED vars
  BY <1>b, <1>5 DEF vars, FailedRunsAreNew, At
<1> QED  BY <1>1, <1>2, <1>3, <1>4, <1>5 DEF Next, RequestStep, ExecutionStep

\* What is deleted with a scenario, or run by run, is there to be deleted.
LEMMA RunsToDeleteKept ==
  ASSUME TypeOK, DeletionInvariant, RunsToDelete, [Next]_vars, losses' = 0,
         ~Unprocessed, UsersKeepApart \subseteq Apart
  PROVE  RunsToDelete'
<1> DEFINE Has(q) ==
      /\ Op(q) = "delete" /\ req[q].at \in {"queryHistory", "deleteHistory"} => ~exists
      /\ Op(q) = "deleteRuns" /\ At(q, "deleteHistory") /\ exists
           => req[q].runs \subseteq history
<1>0. ~exists => ~exists'
  BY DeletedStays
<1>a. \A q \in Requests : ~CutOff(q)
  BY LossesTell
<1>b. CallsInOrder /\ RequestsApart
  BY DEF DeletionInvariant
\* A request that does not move has its runs while history items are only added.
<1>c. ASSUME NEW p \in Requests, req'[p] = req[p],
             history \subseteq history' \/ Op(p) # "deleteRuns"
      PROVE  Has(p)'
  BY <1>0, <1>c DEF RunsToDelete, Op, At
<1>1. ASSUME NEW q \in Requests,
             AskFor(q) \/ CreateFires(q) \/ \E r \in Runs : ScheduledFires(q, r)
      PROVE  RunsToDelete'
  <2>1. PICK op \in Ops :
          /\ \A p \in Requests \ {q} : req'[p] = req[p]
          /\ req'[q].at = FirstCall(op)
          /\ history' = history
    BY <1>1, BeginMoves
  <2>2. FirstCall(op) \notin {"queryHistory", "deleteHistory"}
    BY DEF FirstCall
  <2>3. Has(q)'
    BY <2>1, <2>2 DEF At
  <2> QED  BY <1>c, <2>1, <2>3 DEF RunsToDelete
<1>2. ASSUME NEW q \in Requests, RequestStep(q)
      PROVE  RunsToDelete'
  <2>1. Goes(q)
    BY <1>2, <1>b, ScheduleAndReadGo, WriteGoes DEF RequestStep
  <2>2. Has(q)'
    <3>1. CASE Op(q)' = "delete"
      <4>1. Op(q) = "delete"
        BY <2>1, <3>1 DEF Goes
      <4>2. CASE DeleteItem(q)
        BY <4>1, <4>2 DEF DeleteItem, Op
      <4>3. CASE QueryHistory(q)
        <5>1. ~exists'
          BY <1>0, <4>1, <4>3 DEF QueryHistory, RunsToDelete, At
        <5> QED  BY <5>1
      <4>4. CASE ~DeleteItem(q) /\ ~QueryHistory(q)
        <5>1. req'[q].at \in {"dropCreate", "dropScheduled", "deleteItem"}
          BY <1>b, <1>2, <3>1, <4>1, <4>4, DeletionGoesOn DEF At
        <5> QED  BY <5>1 DEF At
      <4> QED  BY <4>2, <4>3, <4>4
    <3>2. CASE Op(q)' = "deleteRuns" /\ At(q, "deleteHistory")'
      <4>1. Op(q) = "deleteRuns"
        BY <2>1, <3>2 DEF Goes
      <4>2. ReadExistingRuns(q)
        <5>1. ~End(q)
          BY <3>2, EndMoves DEF Op
        <5>2. ReadForDeleteRuns(q) \/ DeleteHistory(q) \/ DecrementCounter(q)
                \/ ReadExistingRuns(q)
          BY <1>b, <1>2, <4>1, CallTells
             DEF RequestStep, DropCreate, DropScheduled, PutSchedule, StartExpired,
                 PutFailedRun, CountFailedRun, Incompatible, StartExecution, ReadForSave,
                 UpdateTestDBEntry, ReadForDelete, DeleteItem, QueryHistory,
                 ReadForBaseline, ReadBaselineRun, SetBaseline, ReadForClear,
                 ClearBaseline
        <5> QED
          BY <3>2, <5>1, <5>2, ThenMoves
             DEF ReadForDeleteRuns, DeleteHistory, DecrementCounter, At
      <4>3. /\ req' = [req EXCEPT ![q].at = "deleteHistory", ![q].runs = @ \cap history]
            /\ history' = history
        BY <3>2, <4>2, EndMoves DEF ReadExistingRuns, At
      <4> QED  BY <3>2, <4>3 DEF TypeOK
    <3> QED  BY <3>1, <3>2
  <2>3. ASSUME NEW p \in Requests, p # q
        PROVE  Has(p)'
    <3>1. req'[p] = req[p]
      BY <2>1, <2>3 DEF Goes
    <3>2. CASE history \subseteq history' \/ Op(p) # "deleteRuns"
      BY <1>c, <3>1, <3>2
    <3>3. CASE ~(history \subseteq history') /\ Op(p) = "deleteRuns"
      <4>1. DeleteHistory(q)
        BY <1>2, <3>3, RequestWrites DEF PutFailedRun
      <4>2. Op(q) # "deleteRuns"
        BY <1>b, <2>3, <3>3, ApartMeans
      <4>3. Op(q) = "delete" /\ At(q, "deleteHistory")
        BY <1>b, <4>1, <4>2, CallTells DEF DeleteHistory
      <4>4. ~exists'
        BY <1>0, <4>3 DEF RunsToDelete, At
      <4> QED  BY <3>1, <3>3, <4>4 DEF Op
    <3> QED  BY <3>2, <3>3
  <2> QED  BY <2>2, <2>3 DEF RunsToDelete
<1>3. ASSUME NEW r \in Runs, ExecutionStep(r)
      PROVE  RunsToDelete'
  <2>1. req' = req
    BY <1>3, ExecutionMoves
  <2>2. history \subseteq history'
    BY <1>3 DEF ExecutionStep, UpdaterReads, UpdateScenario, UpdateHistory, CountRun,
                FailEarly
  <2> QED  BY <1>c, <2>1, <2>2 DEF RunsToDelete
<1>4. CASE UNCHANGED vars
  BY <1>4 DEF vars, RunsToDelete, Op, At
<1> QED  BY <1>a, <1>1, <1>2, <1>3, <1>4 DEF Next, ExecutionStep

\* The counter as it was meant to be, and what it counts.
Counted == counter + drift

Balanced ==
  Counted + Cardinality(Increments) = Cardinality(history) + Cardinality(Decrements)

\* An update of the counter that fails is as good as one that succeeds for what was
\* meant to be counted.
LEMMA Adds ==
  ASSUME TypeOK, exists, NEW n \in Int, AddToCounter(n)
  PROVE  Counted' = Counted + n
<1>1. counter \in Int /\ drift \in Int
  BY DriftAssumption DEF TypeOK
<1>2. CASE counter' = counter + n /\ drift' = drift
  BY <1>1, <1>2 DEF Counted
<1>3. CASE counter' = counter /\ drift' = drift + n
  BY <1>1, <1>3 DEF Counted
<1> QED  BY <1>2, <1>3 DEF AddToCounter

\* What is counted is finite.
LEMMA CountedSets ==
  ASSUME TypeOK
  PROVE  /\ IsFiniteSet(history) /\ IsFiniteSet(Increments) /\ IsFiniteSet(Decrements)
         /\ Cardinality(history) \in Nat /\ Cardinality(Increments) \in Nat
         /\ Cardinality(Decrements) \in Nat
         /\ Counted \in Int
<1>1. IsFiniteSet(history)
  BY RequestsAssumption, FS_Subset DEF TypeOK
<1>2. IsFiniteSet(Increments)
  <2>1. IsFiniteSet(Runs \cup Requests)
    BY RequestsAssumption, FS_Union
  <2>2. Increments \in SUBSET (Runs \cup Requests)
    BY DEF Increments
  <2> QED  BY <2>1, <2>2, FS_Subset
<1>3. IsFiniteSet(Decrements)
  <2>1. IsFiniteSet(Requests \X Runs)
    BY RequestsAssumption, FS_Product
  <2>2. Decrements \in SUBSET (Requests \X Runs)
    BY DEF Decrements
  <2> QED  BY <2>1, <2>2, FS_Subset
<1>4. Counted \in Int
  <2>1. counter \in Int /\ drift \in Int
    BY DriftAssumption DEF TypeOK
  <2> QED  BY <2>1 DEF Counted
<1> QED  BY <1>1, <1>2, <1>3, <1>4, FS_CardinalityType

\* A request is not a run: what it adds to the increments or takes from them.
LEMMA IncrementsMove ==
  ASSUME TypeOK, NEW q \in Requests,
         \A p \in Requests \ {q} : req'[p] = req[p],
         \A r \in Runs : exec'[r] = "count" <=> exec[r] = "count"
  PROVE  /\ ~At(q, "countFailedRun") /\ ~At(q, "countFailedRun")'
              => Increments' = Increments
         /\ ~At(q, "countFailedRun") /\ At(q, "countFailedRun")'
              => Increments' = Increments \cup {q} /\ q \notin Increments
         /\ At(q, "countFailedRun") /\ ~At(q, "countFailedRun")'
              => Increments' = Increments \ {q} /\ q \in Increments
<1>1. q \notin Runs
  BY KindsAssumption
<1> QED  BY <1>1 DEF Increments, At

\* A request that neither reaches nor leaves its decrement takes nothing from the
\* decrements.
LEMMA DecrementsMove ==
  ASSUME NEW q \in Requests,
         \A p \in Requests \ {q} : req'[p] = req[p],
         ~At(q, "decrement"), ~At(q, "decrement")'
  PROVE  Decrements' = Decrements
  BY DEF Decrements, At

\* The steps of requests that have nothing to do with the counter.
LEMMA QuietForCounter ==
  ASSUME TypeOK, CallsInOrder, NEW q \in Requests, RequestStep(q),
         ~PutFailedRun(q), ~CountFailedRun(q), ~DeleteItem(q), ~DeleteHistory(q),
         ~DecrementCounter(q)
  PROVE  /\ Counted' = Counted /\ history' = history
         /\ req[q].at \notin {"countFailedRun", "decrement"}
         /\ req'[q].at \notin {"countFailedRun", "decrement"}
         /\ \A r \in Runs : exec'[r] = "count" <=> exec[r] = "count"
<1>1. Counted' = Counted /\ history' = history
  BY DEF RequestStep, DropCreate, DropScheduled, PutSchedule, StartExpired, Incompatible,
         StartExecution, ReadForSave, UpdateTestDBEntry, ReadForDelete, QueryHistory,
         ReadForDeleteRuns, ReadExistingRuns, ReadForBaseline, ReadBaselineRun,
         SetBaseline, ReadForClear, ClearBaseline, itemVars, Counted
<1>2. req[q].at \notin {"countFailedRun", "decrement"}
  BY DEF RequestStep, DropCreate, DropScheduled, PutSchedule, StartExpired, Incompatible,
         StartExecution, ReadForSave, UpdateTestDBEntry, ReadForDelete, QueryHistory,
         ReadForDeleteRuns, ReadExistingRuns, ReadForBaseline, ReadBaselineRun,
         SetBaseline, ReadForClear, ClearBaseline, At
<1>3. req'[q].at \notin {"countFailedRun", "decrement"}
  <2>1. CASE End(q)
    BY <2>1, EndMoves
  <2>2. ASSUME NEW call, call \notin {"countFailedRun", "decrement"}, Then(q, call)
        PROVE  req'[q].at \notin {"countFailedRun", "decrement"}
    BY <2>2, ThenMoves
  <2>3. CASE /\ ~End(q)
             /\ \/ ReadForSave(q) \/ QueryHistory(q) \/ ReadExistingRuns(q)
                \/ \E r \in Runs : Incompatible(q, r)
    BY <2>3 DEF ReadForSave, QueryHistory, ReadExistingRuns, Incompatible, TypeOK
  <2> QED
    BY <2>1, <2>2, <2>3
       DEF RequestStep, DropCreate, DropScheduled, PutSchedule, StartExpired,
           StartExecution, UpdateTestDBEntry, ReadForDelete, ReadForDeleteRuns,
           ReadForBaseline, ReadBaselineRun, SetBaseline, ReadForClear, ClearBaseline
<1>4. \A r \in Runs : exec'[r] = "count" <=> exec[r] = "count"
  <2>1. CASE StartExecution(q)
    BY <2>1 DEF StartExecution
  <2>2. CASE ~StartExecution(q)
    BY <2>2, RequestsAndRuns
  <2> QED  BY <2>1, <2>2
<1> QED  BY <1>1, <1>2, <1>3, <1>4

\* A request that adds a history item, counts it, deletes items or counts those.
LEMMA RequestBalances ==
  ASSUME TypeOK, TypeOK', CallsInOrder, FailedRunsAreNew, RunsToDelete, Balanced,
         exists, exists', ~Unprocessed, NEW q \in Requests, RequestStep(q)
  PROVE  Balanced'
<1>0. /\ \A p \in Requests \ {q} : req'[p] = req[p]
      /\ \A r \in Runs : exec'[r] = "count" <=> exec[r] = "count"
  <2>1. \A p \in Requests \ {q} : req'[p] = req[p]
    BY ScheduleAndReadGo, WriteGoes DEF RequestStep, Goes
  <2>2. \A r \in Runs : exec'[r] = "count" <=> exec[r] = "count"
    <3>1. CASE StartExecution(q)
      BY <3>1 DEF StartExecution
    <3>2. CASE ~StartExecution(q)
      BY <3>2, RequestsAndRuns
    <3> QED  BY <3>1, <3>2
  <2> QED  BY <2>1, <2>2
<1>1. CASE PutFailedRun(q)
  <2>1. /\ At(q, "putFailedRun") /\ Then(q, "countFailedRun")
        /\ history' = history \cup req[q].runs /\ Counted' = Counted
    BY <1>1 DEF PutFailedRun, itemVars, Counted
  <2>2. PICK r \in Runs : req[q].runs = {r} /\ r \notin history
    BY <2>1 DEF FailedRunsAreNew
  <2>3. Cardinality(history') = Cardinality(history) + 1
    BY <2>1, <2>2, CountedSets, FS_AddElement
  <2>4. At(q, "countFailedRun")' /\ ~At(q, "countFailedRun")
        /\ ~At(q, "decrement") /\ ~At(q, "decrement")'
    BY <2>1, ThenMoves DEF At
  <2>5. Increments' = Increments \cup {q} /\ q \notin Increments
    BY <1>0, <2>4, IncrementsMove
  <2>6. Cardinality(Increments') = Cardinality(Increments) + 1
    BY <2>5, CountedSets, FS_AddElement
  <2>7. Decrements' = Decrements
    BY <1>0, <2>4, DecrementsMove
  <2> QED  BY <2>1, <2>3, <2>6, <2>7, CountedSets DEF Balanced
<1>2. CASE CountFailedRun(q)
  <2>1. /\ At(q, "countFailedRun") /\ End(q)
        /\ history' = history /\ Counted' = Counted + 1
    BY <1>2, NumbersKnown, Adds DEF CountFailedRun
  <2>2. ~At(q, "countFailedRun")' /\ ~At(q, "decrement") /\ ~At(q, "decrement")'
    BY <2>1, EndMoves DEF At
  <2>3. Increments' = Increments \ {q} /\ q \in Increments
    BY <1>0, <2>1, <2>2, IncrementsMove
  <2>4. Cardinality(Increments') = Cardinality(Increments) - 1
    BY <2>3, CountedSets, FS_RemoveElement
  <2>5. Decrements' = Decrements
    BY <1>0, <2>2, DecrementsMove
  <2> QED  BY <2>1, <2>4, <2>5, CountedSets DEF Balanced
<1> DEFINE Mine == {q} \X req[q].runs
<1>a. /\ IsFiniteSet(req[q].runs) /\ Cardinality(req[q].runs) \in Nat
      /\ IsFiniteSet(Mine) /\ Cardinality(Mine) = Cardinality(req[q].runs)
  <2>1. IsFiniteSet(req[q].runs)
    BY RequestsAssumption, FS_Subset DEF TypeOK
  <2>2. Cardinality(req[q].runs) \in Nat
    BY <2>1, FS_CardinalityType
  <2>3. IsFiniteSet({q}) /\ Cardinality({q}) = 1
    BY FS_Singleton
  <2>4. /\ IsFiniteSet(Mine)
        /\ Cardinality(Mine) = Cardinality({q}) * Cardinality(req[q].runs)
    BY <2>1, <2>3, FS_Product
  <2> QED  BY <2>1, <2>2, <2>3, <2>4
<1>3. CASE DecrementCounter(q)
  <2>0. Counted' = Counted + (-Cardinality(req[q].runs))
    BY <1>3, RunsCounted, Adds DEF DecrementCounter
  <2>1. /\ At(q, "decrement") /\ End(q) /\ history' = history
        /\ Counted' = Counted - Cardinality(req[q].runs)
    BY <1>3, <1>a, <2>0, CountedSets DEF DecrementCounter
  <2>2. ~At(q, "decrement")' /\ ~At(q, "countFailedRun") /\ ~At(q, "countFailedRun")'
    BY <2>1, EndMoves DEF At
  <2>3. Increments' = Increments
    BY <1>0, <2>2, IncrementsMove
  <2>4. Decrements' = Decrements \ Mine /\ Mine \subseteq Decrements
    BY <1>0, <2>1, <2>2 DEF Decrements, At, TypeOK
  <2>5. Cardinality(Decrements') = Cardinality(Decrements) - Cardinality(Mine)
    <3>1. Decrements \cap Mine = Mine
      BY <2>4
    <3> HIDE DEF Mine
    <3>2. Cardinality(Decrements \ Mine)
            = Cardinality(Decrements) - Cardinality(Decrements \cap Mine)
      BY CountedSets, FS_Difference
    <3> QED  BY <2>4, <3>1, <3>2
  <2> HIDE DEF Mine
  <2> QED  BY <1>a, <2>1, <2>3, <2>5, CountedSets DEF Balanced
<1>4. CASE DeleteHistory(q)
  <2>1. /\ At(q, "deleteHistory") /\ history' = history \ req[q].runs
        /\ (Op(q) = "deleteRuns" /\ Then(q, "decrement")) \/ Op(q) = "delete"
        /\ Counted' = Counted
    BY <1>4 DEF DeleteHistory, itemVars, Counted
  <2>2. Op(q) = "deleteRuns" /\ Then(q, "decrement") /\ req[q].runs \subseteq history
    BY <2>1 DEF RunsToDelete, At
  <2>3. At(q, "decrement")' /\ ~At(q, "decrement") /\ req'[q].runs = req[q].runs
        /\ ~At(q, "countFailedRun") /\ ~At(q, "countFailedRun")'
    BY <2>1, <2>2, ThenMoves DEF At
  <2>4. Increments' = Increments
    BY <1>0, <2>3, IncrementsMove
  <2>5. Decrements' = Decrements \cup Mine /\ Decrements \cap Mine = {}
    BY <1>0, <2>3 DEF Decrements, At, TypeOK
  <2>6. Cardinality(Decrements') = Cardinality(Decrements) + Cardinality(Mine)
    <3> HIDE DEF Mine
    <3>1. Cardinality(Decrements \cup Mine) = Cardinality(Decrements)
            + Cardinality(Mine) - Cardinality(Decrements \cap Mine)
      BY <1>a, CountedSets, FS_Union
    <3>2. Cardinality(Decrements \cap Mine) = 0
      BY <2>5, FS_EmptySet
    <3>3. Cardinality(Decrements') = Cardinality(Decrements \cup Mine)
      BY <2>5
    <3> QED  BY <1>a, <3>1, <3>2, <3>3, CountedSets
  <2>7. Cardinality(history') = Cardinality(history) - Cardinality(req[q].runs)
    <3>1. history \cap req[q].runs = req[q].runs
      BY <2>2
    <3>2. Cardinality(history \ req[q].runs)
            = Cardinality(history) - Cardinality(history \cap req[q].runs)
      BY CountedSets, FS_Difference
    <3> QED  BY <2>1, <3>1, <3>2
  <2> HIDE DEF Mine
  <2> QED  BY <1>a, <2>1, <2>4, <2>6, <2>7, CountedSets DEF Balanced
<1>5. CASE /\ ~PutFailedRun(q) /\ ~CountFailedRun(q) /\ ~DecrementCounter(q)
           /\ ~DeleteHistory(q)
  <2>1. ~DeleteItem(q)
    BY DEF DeleteItem
  <2>2. /\ Counted' = Counted /\ history' = history
        /\ req[q].at \notin {"countFailedRun", "decrement"}
        /\ req'[q].at \notin {"countFailedRun", "decrement"}
    BY <1>5, <2>1, QuietForCounter
  <2>3. Increments' = Increments /\ Decrements' = Decrements
    BY <1>0, <2>2, IncrementsMove, DecrementsMove DEF At
  <2> QED  BY <2>2, <2>3 DEF Balanced
<1> QED  BY <1>1, <1>2, <1>3, <1>4, <1>5

\* An execution that adds a history item, or counts it.
LEMMA ExecutionBalances ==
  ASSUME TypeOK, Balanced, exists, NEW r \in Runs, ExecutionStep(r)
  PROVE  Balanced'
<1>0. /\ req' = req /\ r \notin Requests
      /\ \A s \in Runs \ {r} : exec'[s] = exec[s]
  BY ExecutionMoves, KindsAssumption
<1>1. Decrements' = Decrements
  BY <1>0 DEF Decrements, At
<1>2. CASE UpdateHistory(r) /\ r \notin history
  <2>1. /\ exec[r] = "history" /\ exec'[r] = "count" /\ Counted' = Counted
        /\ history' = history \cup {r}
    BY <1>2 DEF UpdateHistory, TypeOK, itemVars, Counted
  <2>2. Increments' = Increments \cup {r} /\ r \notin Increments
    BY <1>0, <2>1 DEF Increments, At
  <2>3. Cardinality(Increments') = Cardinality(Increments) + 1
    BY <2>2, CountedSets, FS_AddElement
  <2>4. Cardinality(history') = Cardinality(history) + 1
    BY <1>2, <2>1, CountedSets, FS_AddElement
  <2> QED  BY <1>1, <2>1, <2>3, <2>4, CountedSets DEF Balanced
<1>3. CASE CountRun(r)
  <2>1. /\ exec[r] = "count" /\ exec'[r] # "count" /\ Counted' = Counted + 1
        /\ history' = history
    BY <1>3, NumbersKnown, Adds DEF CountRun, EndUpdate, TypeOK
  <2>2. Increments' = Increments \ {r} /\ r \in Increments
    BY <1>0, <2>1 DEF Increments, At
  <2>3. Cardinality(Increments') = Cardinality(Increments) - 1
    BY <2>2, CountedSets, FS_RemoveElement
  <2> QED  BY <1>1, <2>1, <2>3, CountedSets DEF Balanced
<1>4. CASE ~(UpdateHistory(r) /\ r \notin history) /\ ~CountRun(r)
  <2>1. /\ Counted' = Counted /\ history' = history
        /\ exec'[r] = "count" <=> exec[r] = "count"
    <3>1. ASSUME NEW new, UpdaterReads(r, new)
          PROVE  /\ Counted' = Counted /\ history' = history
                 /\ exec[r] # "count" /\ exec'[r] # "count"
      BY <3>1 DEF UpdaterReads, itemVars, TypeOK, Counted
    <3>2. CASE UpdateScenario(r)
      BY <3>2 DEF UpdateScenario, TypeOK, Counted
    <3>3. CASE UpdateHistory(r) /\ r \in history
      BY <3>3 DEF UpdateHistory, EndUpdate, TypeOK, itemVars, Counted
    <3>4. CASE FailEarly(r)
      BY <3>4 DEF FailEarly, runVars, Counted
    <3> QED  BY <1>4, <3>1, <3>2, <3>3, <3>4 DEF ExecutionStep
  <2>2. Increments' = Increments
    BY <1>0, <2>1 DEF Increments, At
  <2> QED  BY <1>1, <2>1, <2>2 DEF Balanced
<1> QED  BY <1>2, <1>3, <1>4

\* At first there is nothing to count.
LEMMA CounterInvariantStarts == ASSUME Init PROVE CounterInvariant
<1>1. /\ \A q \in Requests : Op(q) = "none" /\ At(q, "none") /\ req[q].at = "none"
      /\ \A r \in Runs : exec[r] = "none"
      /\ history = {} /\ counter = 0 /\ drift = 0
  BY DEF Init, NoRequest, Op, At
<1>2. Increments = {} /\ Decrements = {}
  BY <1>1 DEF Increments, Decrements, At
<1>3. Balanced
  BY <1>1, <1>2, FS_EmptySet DEF Balanced, Counted
<1> QED
  BY <1>1, <1>3 DEF CounterInvariant, FailedRunsAreNew, RunsToDelete, CounterInStep,
                    Balanced, Counted, At

\* The counter is in step after every step that loses nothing.
LEMMA CounterInvariantKept ==
  ASSUME DeletionAssumption, TypeOK, TypeOK', DeletionInvariant, CounterInvariant,
         [Next]_vars
  PROVE  CounterInvariant'
<1>1. FailedRunsAreNew'
  BY FailedRunsKept DEF CounterInvariant, DeletionInvariant
<1>2. ASSUME losses' = 0, ~Unprocessed
      PROVE  RunsToDelete' /\ CounterInStep'
  <2>0. /\ losses = 0 /\ RunsToDelete
        /\ \A q \in Requests : ~CutOff(q)
    BY <1>2, LossesTell DEF CounterInvariant
  <2>1. RunsToDelete'
    BY <1>2, <2>0, RunsToDeleteKept DEF DeletionAssumption
  <2>2. ASSUME exists' PROVE Balanced'
    <3>1. exists /\ Balanced
      <4>1. exists
        BY <1>2, <2>2, DeletedStays
      <4> QED  BY <1>2, <2>0, <4>1 DEF CounterInvariant, CounterInStep, Balanced, Counted
    <3>2. ASSUME NEW q \in Requests,
                 AskFor(q) \/ CreateFires(q) \/ \E r \in Runs : ScheduledFires(q, r)
          PROVE  Balanced'
      <4>1. PICK op \in Ops :
              /\ ~InFlight(q)
              /\ \A p \in Requests \ {q} : req'[p] = req[p]
              /\ req'[q].at = FirstCall(op)
              /\ UNCHANGED <<counter, drift, history, exec>>
        BY <3>2, BeginMoves DEF itemVars, runVars
      <4>2. FirstCall(op) \notin {"countFailedRun", "decrement"}
        BY DEF FirstCall
      <4>3. ~At(q, "countFailedRun") /\ ~At(q, "decrement")
        BY <4>1, CallTells DEF DeletionInvariant, InFlight, Op
      <4>4. Increments' = Increments /\ Decrements' = Decrements
        BY <4>1, <4>2, <4>3, IncrementsMove, DecrementsMove DEF At
      <4> QED  BY <3>1, <4>1, <4>4 DEF Balanced, Counted
    <3>3. ASSUME NEW q \in Requests, RequestStep(q)
          PROVE  Balanced'
      BY <1>2, <2>0, <2>2, <3>1, <3>3, RequestBalances
         DEF CounterInvariant, DeletionInvariant
    <3>4. ASSUME NEW r \in Runs, ExecutionStep(r)
          PROVE  Balanced'
      BY <3>1, <3>4, ExecutionBalances
    <3>5. CASE UNCHANGED vars
      BY <3>1, <3>5 DEF vars, Balanced, Counted, Increments, Decrements, At
    <3> QED  BY <2>0, <3>2, <3>3, <3>4, <3>5 DEF Next, ExecutionStep
  <2> QED  BY <2>1, <2>2 DEF CounterInStep, Balanced, Counted
<1> QED  BY <1>1, <1>2 DEF CounterInvariant

\* totalTestRuns is the number of history items, but for the increments and
\* decrements under way and for those that failed, whichever requests create and
\* delete the items.
THEOREM CounterStaysInStep ==
  ASSUME DeletionAssumption, ~Unprocessed
  PROVE  Spec => []CounterInStep
<1>1. Init => CounterInvariant
  BY CounterInvariantStarts
<1>2. TypeOK /\ TypeOK' /\ DeletionInvariant /\ CounterInvariant /\ [Next]_vars
        => CounterInvariant'
  BY CounterInvariantKept
<1>3. CounterInvariant => CounterInStep
  BY DEF CounterInvariant, CounterInStep
<1> QED  BY <1>1, <1>2, <1>3, DeletionInvariantHolds, PTL DEF Spec
================================================================================
