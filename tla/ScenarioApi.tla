------------------------------ MODULE ScenarioApi -----------------------------
(***************************************************************************)
(* What the API's requests do to one scenario (its item in ScenariosTable, *)
(* its runs' items in HistoryTable, its schedules) while other requests    *)
(* and the executions of its runs are under way.                           *)
(*                                                                         *)
(* A step is one call to DynamoDB, EventBridge Scheduler or Step           *)
(* Functions; a loop of calls over the runs of a request is one step.  Of  *)
(* an execution only the updates of test-metadata-updater are left:        *)
(* TestExecution has the rest.  The requests do not lock anything, so      *)
(* which of them cross is a constant: the properties say which crossings   *)
(* are harmless.                                                           *)
(***************************************************************************)
EXTENDS Integers, FiniteSets, ScenarioStatus

CONSTANTS
  Requests,        \* API requests in flight at a time
  Runs,            \* testRunIds, each used once
  NoRun,           \* marks "no baseline"
  Apart,           \* pairs {a, b} of operations that are never in flight together
  IdleOnly,        \* operations nobody asks for while a run is under way
  BetweenUpdates,  \* operations no update of a run's status crosses
  Unprocessed,     \* may a batch delete leave items unprocessed?
  MaxLosses,       \* bound on requests cut off and on runs that fail early
  Drifts           \* bound on what failed updates of the counter add up to

Ops == {"start", "save", "schedule", "scheduleStart", "delete", "setBaseline",
        "clearBaseline", "deleteRuns"}

ASSUME RequestsAssumption == IsFiniteSet(Requests) /\ IsFiniteSet(Runs)
ASSUME NoRunAssumption == NoRun \notin Runs
ASSUME KindsAssumption == Requests \cap Runs = {}
ASSUME ApartAssumption == Apart \subseteq {{a, b} : a \in Ops, b \in Ops}
ASSUME WaitingAssumption == IdleOnly \subseteq Ops /\ BetweenUpdates \subseteq Ops
ASSUME LossAssumption == Unprocessed \in BOOLEAN /\ MaxLosses \in Nat
ASSUME DriftAssumption == Drifts \subseteq Int /\ 0 \in Drifts

VARIABLES
  exists,     \* is there a scenario item?
  status,     \* its status, Absent when it has none
  baseline,   \* its baselineId, NoRun when it has none
  counter,    \* its totalTestRuns
  drift,      \* what the updates of it that failed add up to: only the log knows
  history,    \* runs with a history item
  schedules,  \* the schedules {testId}Create and {testId}Scheduled there are
  expired,    \* has the schedule's cron expiry date passed?
  exec,       \* where each run's execution is
  writing,    \* the status its updater is writing
  req,        \* the requests: operation, next call, and what has been read
  losses      \* requests cut off and early failures so far

itemVars == <<exists, status, baseline, counter, drift>>
runVars  == <<exec, writing>>
vars == <<exists, status, baseline, counter, drift, history, schedules, expired,
          exec, writing, req, losses>>

-------------------------------------------------------------------------------
Schedules == {"Create", "Scheduled"}

\* Between updates an execution is "underWay"; otherwise the updater's next write.
Updating   == {"scenario", "history", "count"}
ExecStates == {"none", "underWay", "over"} \cup Updating

\* The next call of a request.
Calls == {"none", "read", "dropCreate", "dropScheduled", "putSchedule", "execute",
          "write", "putFailedRun", "countFailedRun", "readHistory", "setBaseline",
          "clearBaseline", "deleteItem", "queryHistory", "deleteHistory",
          "decrement"}

NoRequest == [op |-> "none", at |-> "none", found |-> Absent, runs |-> {}]

TypeOK ==
  /\ exists \in BOOLEAN
  /\ status \in Status \cup {Absent}
  /\ baseline \in Runs \cup {NoRun}
  /\ counter \in Int
  /\ drift \in Drifts
  /\ history \subseteq Runs
  /\ schedules \subseteq Schedules
  /\ expired \in BOOLEAN
  /\ exec \in [Runs -> ExecStates]
  /\ writing \in [Runs -> Status \cup {Absent}]
  /\ req \in [Requests -> [op : Ops \cup {"none"}, at : Calls,
                           found : Status \cup {Absent}, runs : SUBSET Runs]]
  /\ losses \in 0 .. MaxLosses

\* A scenario that was saved and has never run.
Init ==
  /\ exists = TRUE
  /\ status = "created"
  /\ baseline = NoRun
  /\ counter = 0 /\ drift = 0
  /\ history = {}
  /\ schedules = {}
  /\ expired = FALSE
  /\ exec = [r \in Runs |-> "none"]
  /\ writing = [r \in Runs |-> Absent]
  /\ req = [q \in Requests |-> NoRequest]
  /\ losses = 0

-------------------------------------------------------------------------------
(***************************************************************************)
(* Requests.                                                               *)
(***************************************************************************)
InFlight(q) == req[q].op # "none"
Op(q) == req[q].op
At(q, call) == req[q].at = call

\* deleteTest and saveOnly: statuses that say that no run is under way.
SafeToEdit == {"complete", "cancelled", "failed", "scheduled", "created"}

UnderWay(r) == exec[r] \in Updating \cup {"underWay"}

MayBegin(op) ==
  /\ \A q \in Requests : InFlight(q) => {op, Op(q)} \notin Apart
  /\ op \in IdleOnly => \A r \in Runs : ~UnderWay(r)
  /\ op \in BetweenUpdates => \A r \in Runs : exec[r] \notin Updating

FirstCall(op) ==
  CASE op \in {"schedule", "scheduleStart"} -> "dropCreate"
    [] op = "start" -> "execute"
    [] OTHER -> "read"

Begin(q, op, runs) ==
  /\ ~InFlight(q) /\ MayBegin(op)
  /\ req' = [req EXCEPT ![q] = [op |-> op, at |-> FirstCall(op), found |-> Absent,
                                runs |-> runs]]

Then(q, call) == req' = [req EXCEPT ![q].at = call]
End(q) == req' = [req EXCEPT ![q] = NoRequest]

\* Users ask for something about a scenario they see.
AskFor(q) ==
  /\ exists
  /\ \/ \E op \in {"save", "schedule", "delete", "clearBaseline"} : Begin(q, op, {})
     \/ \E r \in Runs : Begin(q, "setBaseline", {r})
     \/ \E runs \in SUBSET Runs \ {{}} : Begin(q, "deleteRuns", runs)
     \/ \E r \in Runs : exec[r] = "none" /\ Begin(q, "start", {r})
  /\ UNCHANGED <<itemVars, history, schedules, expired, runVars, losses>>

\* The one-time schedule deletes itself when it fires (ActionAfterCompletion).
CreateFires(q) ==
  /\ "Create" \in schedules
  /\ schedules' = schedules \ {"Create"}
  /\ Begin(q, "scheduleStart", {})
  /\ UNCHANGED <<itemVars, history, expired, runVars, losses>>

ScheduledFires(q, r) ==
  /\ "Scheduled" \in schedules /\ exec[r] = "none"
  /\ Begin(q, "start", {r})
  /\ UNCHANGED <<itemVars, history, schedules, expired, runVars, losses>>

Lose == losses < MaxLosses /\ losses' = losses + 1

\* The API's function is cut off, or a call throws: nothing is undone.
CutOff(q) ==
  /\ InFlight(q) /\ Lose
  /\ End(q)
  /\ UNCHANGED <<itemVars, history, schedules, expired, runVars>>

-------------------------------------------------------------------------------
(***************************************************************************)
(* deleteSchedules, and scheduleTest.                                      *)
(***************************************************************************)
DropCreate(q) ==
  /\ At(q, "dropCreate")
  /\ schedules' = schedules \ {"Create"}
  /\ Then(q, "dropScheduled")
  /\ UNCHANGED <<itemVars, history, expired, runVars, losses>>

DropScheduledForNew(q) ==
  /\ At(q, "dropScheduled")
  /\ schedules' = IF Op(q) = "delete" THEN schedules ELSE schedules \ {"Scheduled"}
  /\ CASE Op(q) = "delete" -> Then(q, "deleteItem")
       [] Op(q) = "start"  -> End(q)
       [] OTHER            -> Then(q, "putSchedule")
  /\ UNCHANGED <<itemVars, history, expired, runVars, losses>>

\* createTest ends here (with null): the cron expiry date has passed.
DropScheduled(q) ==
  /\ At(q, "dropScheduled")
  /\ schedules' = schedules \ {"Scheduled"}
  /\ CASE Op(q) = "delete" -> Then(q, "deleteItem")
       [] Op(q) = "start"  -> End(q)
       [] OTHER            -> Then(q, "putSchedule")
  /\ UNCHANGED <<itemVars, history, expired, runVars, losses>>

NameOfRecurring(op) == IF op = "schedule" THEN "Create" ELSE "Recurring"

NameOf(op) == IF op = "schedule" THEN "Create" ELSE "Scheduled"

\* Scheduler refuses a second schedule of the same name.  Step "start" of a
\* recurring schedule does not write the item, and may throw here.
PutSchedule(q) ==
  /\ At(q, "putSchedule")
  /\ IF NameOf(Op(q)) \in schedules THEN End(q) /\ UNCHANGED <<schedules, expired>>
     ELSE /\ schedules' = schedules \cup {NameOf(Op(q))}
          /\ expired' = FALSE
          /\ \/ Then(q, "write")
             \/ Op(q) = "scheduleStart" /\ End(q)
  /\ UNCHANGED <<itemVars, history, runVars, losses>>

-------------------------------------------------------------------------------
(***************************************************************************)
(* createTest.                                                             *)
(***************************************************************************)

StartTakenForExpired(q) ==
  /\ At(q, "execute") /\ "Scheduled" \in schedules
  /\ Then(q, "dropCreate")
  /\ UNCHANGED <<itemVars, history, schedules, expired, runVars, losses>>

\* Fired by the schedule after its expiry date: no run, the schedules go.
StartExpired(q) ==
  /\ At(q, "execute") /\ "Scheduled" \in schedules
  /\ expired' = TRUE
  /\ Then(q, "dropCreate")
  /\ UNCHANGED <<itemVars, history, schedules, runVars, losses>>

\* A regional stack is incompatible: a run that is over before it began is
\* recorded, also when the request only wanted to save.
Incompatible(q, r) ==
  /\ exec[r] = "none"
  /\ \/ At(q, "execute") /\ r \in req[q].runs
     \/ At(q, "write") /\ Op(q) = "save"
  /\ exec' = [exec EXCEPT ![r] = "over"]
  /\ req' = [req EXCEPT ![q].at = "putFailedRun", ![q].runs = {r}]
  /\ UNCHANGED <<itemVars, history, schedules, expired, writing, losses>>

PutFailedRun(q) ==
  /\ At(q, "putFailedRun")
  /\ history' = history \cup req[q].runs
  /\ Then(q, "countFailedRun")
  /\ UNCHANGED <<itemVars, schedules, expired, runVars, losses>>

\* ADD on the item if it is there.  That it is not, or any other error, is logged and
\* the caller goes on.
AddToCounter(n) ==
  \/ exists /\ counter' = counter + n /\ UNCHANGED drift
  \/ exists /\ drift' = drift + n /\ drift' \in Drifts /\ UNCHANGED counter
  \/ ~exists /\ UNCHANGED <<counter, drift>>

CountFailedRun(q) ==
  /\ At(q, "countFailedRun")
  /\ AddToCounter(1)
  /\ End(q)
  /\ UNCHANGED <<exists, status, baseline, history, schedules, expired, runVars,
                 losses>>

StartExecution(q) ==
  /\ At(q, "execute")
  /\ \A r \in req[q].runs : exec[r] = "none"
  /\ exec' = [r \in Runs |-> IF r \in req[q].runs THEN "underWay" ELSE exec[r]]
  /\ Then(q, "write")
  /\ UNCHANGED <<itemVars, history, schedules, expired, writing, losses>>

SaveAnyStatus(q) ==
  /\ At(q, "read") /\ Op(q) = "save"
  /\ req' = [req EXCEPT ![q].at = "write", ![q].found = "created"]
  /\ UNCHANGED <<itemVars, history, schedules, expired, runVars, losses>>

\* saveOnly reads the entry; it refuses while a run is under way.
ReadForSave(q) ==
  /\ At(q, "read") /\ Op(q) = "save"
  /\ IF exists /\ status \notin SafeToEdit \cup {Absent} THEN End(q)
     ELSE req' = [req EXCEPT ![q].at = "write",
                             ![q].found = IF exists THEN status ELSE "created"]
  /\ UNCHANGED <<itemVars, history, schedules, expired, runVars, losses>>

\* updateTestDBEntry upserts: the counter and the baseline are left alone, the
\* status becomes what the operation says, or what saveOnly has read.
UpdateTestDBEntry(q) ==
  /\ At(q, "write")
  /\ exists' = TRUE
  /\ status' = CASE Op(q) = "save" -> req[q].found
                 [] Op(q) = "start" -> "queued"
                 [] OTHER -> "scheduled"
  /\ End(q)
  /\ UNCHANGED <<baseline, counter, drift, history, schedules, expired, runVars,
                 losses>>

-------------------------------------------------------------------------------
(***************************************************************************)
(* deleteTest.                                                             *)
(***************************************************************************)
ReadForDeleteOfAny(q) ==
  /\ At(q, "read") /\ Op(q) = "delete"
  /\ IF exists THEN Then(q, "dropCreate") ELSE End(q)
  /\ UNCHANGED <<itemVars, history, schedules, expired, runVars, losses>>

ReadForDelete(q) ==
  /\ At(q, "read") /\ Op(q) = "delete"
  /\ IF exists /\ status \in SafeToEdit \cup {Absent} THEN Then(q, "dropCreate")
                                                      ELSE End(q)
  /\ UNCHANGED <<itemVars, history, schedules, expired, runVars, losses>>

DeleteItem(q) ==
  /\ At(q, "deleteItem")
  /\ exists' = FALSE /\ status' = Absent /\ baseline' = NoRun
  /\ counter' = 0 /\ drift' = 0
  /\ Then(q, "queryHistory")
  /\ UNCHANGED <<history, schedules, expired, runVars, losses>>

QueryHistory(q) ==
  /\ At(q, "queryHistory")
  /\ req' = [req EXCEPT ![q].at = "deleteHistory", ![q].runs = history]
  /\ UNCHANGED <<itemVars, history, schedules, expired, runVars, losses>>

\* deleteTestHistory.  The retry of unprocessed items is not awaited and passes
\* them in a shape that DynamoDB refuses: they stay, and the rejection may or
\* may not end the request.
DeleteHistory(q) ==
  /\ At(q, "deleteHistory")
  /\ \E left \in IF Unprocessed THEN SUBSET (req[q].runs \cap history) ELSE {{}} :
       /\ history' = history \ (req[q].runs \ left)
       /\ \/ Op(q) = "deleteRuns" /\ Then(q, "decrement")
          \/ (Op(q) = "delete" \/ left # {}) /\ End(q)
  /\ UNCHANGED <<itemVars, schedules, expired, runVars, losses>>

-------------------------------------------------------------------------------
(***************************************************************************)
(* deleteTestRuns, setBaseline and clearBaseline.                          *)
(***************************************************************************)
ReadForDeleteRunsUnchecked(q) ==
  /\ At(q, "read") /\ Op(q) = "deleteRuns"
  /\ IF exists THEN Then(q, "readHistory") ELSE End(q)
  /\ UNCHANGED <<itemVars, history, schedules, expired, runVars, losses>>

\* The baseline is never deleted.
ReadForDeleteRuns(q) ==
  /\ At(q, "read") /\ Op(q) = "deleteRuns"
  /\ IF exists /\ baseline \notin req[q].runs THEN Then(q, "readHistory") ELSE End(q)
  /\ UNCHANGED <<itemVars, history, schedules, expired, runVars, losses>>

ReadEveryRun(q) ==
  /\ At(q, "readHistory") /\ Op(q) = "deleteRuns"
  /\ Then(q, "deleteHistory")
  /\ UNCHANGED <<itemVars, history, schedules, expired, runVars, losses>>

\* Runs without a history item are skipped.
ReadExistingRuns(q) ==
  /\ At(q, "readHistory") /\ Op(q) = "deleteRuns"
  /\ IF req[q].runs \cap history = {} THEN End(q)
     ELSE req' = [req EXCEPT ![q].at = "deleteHistory", ![q].runs = @ \cap history]
  /\ UNCHANGED <<itemVars, history, schedules, expired, runVars, losses>>

DecrementCounter(q) ==
  /\ At(q, "decrement")
  /\ AddToCounter(-Cardinality(req[q].runs))
  /\ End(q)
  /\ UNCHANGED <<exists, status, baseline, history, schedules, expired, runVars,
                 losses>>

ReadForBaseline(q) ==
  /\ At(q, "read") /\ Op(q) = "setBaseline"
  /\ IF exists THEN Then(q, "readHistory") ELSE End(q)
  /\ UNCHANGED <<itemVars, history, schedules, expired, runVars, losses>>

ReadBaselineRun(q) ==
  /\ At(q, "readHistory") /\ Op(q) = "setBaseline"
  /\ IF req[q].runs \subseteq history THEN Then(q, "setBaseline") ELSE End(q)
  /\ UNCHANGED <<itemVars, history, schedules, expired, runVars, losses>>

\* Two updates without a condition: they create the item if it is gone.
SetBaseline(q) ==
  /\ At(q, "setBaseline")
  /\ exists' = TRUE
  /\ baseline' \in req[q].runs
  /\ End(q)
  /\ UNCHANGED <<status, counter, drift, history, schedules, expired, runVars,
                 losses>>

ReadForClear(q) ==
  /\ At(q, "read") /\ Op(q) = "clearBaseline"
  /\ IF exists /\ baseline # NoRun THEN Then(q, "clearBaseline") ELSE End(q)
  /\ UNCHANGED <<itemVars, history, schedules, expired, runVars, losses>>

ClearBaseline(q) ==
  /\ At(q, "clearBaseline")
  /\ exists' = TRUE
  /\ baseline' = NoRun
  /\ End(q)
  /\ UNCHANGED <<status, counter, drift, history, schedules, expired, runVars,
                 losses>>

-------------------------------------------------------------------------------
(***************************************************************************)
(* The executions: test-metadata-updater, and functions that fail early.   *)
(***************************************************************************)
Final(s) == s \in {"complete", "failed"}

\* It throws if the item is gone: the execution fails.
UpdaterReads(r, new) ==
  /\ exec[r] = "underWay"
  /\ \A q \in Requests : Op(q) \notin BetweenUpdates
  /\ IF exists THEN /\ exec' = [exec EXCEPT ![r] = "scenario"]
                    /\ writing' = [writing EXCEPT ![r] = new]
               ELSE exec' = [exec EXCEPT ![r] = "over"] /\ UNCHANGED writing
  /\ UNCHANGED <<itemVars, history, schedules, expired, req, losses>>

\* The condition is about the status only: an item that is gone comes back.
UpdateScenario(r) ==
  /\ exec[r] = "scenario"
  /\ exists' = TRUE
  /\ status' = MetadataWrite(status, writing[r])
  /\ exec' = [exec EXCEPT ![r] = "history"]
  /\ UNCHANGED <<baseline, counter, drift, history, schedules, expired, writing,
                 req, losses>>

EndUpdate(r) ==
  /\ exec' = [exec EXCEPT ![r] = IF Final(writing[r]) THEN "over" ELSE "underWay"]
  /\ writing' = [writing EXCEPT ![r] = Absent]

\* A new item is counted, an old one is not.
UpdateHistory(r) ==
  /\ exec[r] = "history"
  /\ history' = history \cup {r}
  /\ IF r \in history THEN EndUpdate(r)
     ELSE exec' = [exec EXCEPT ![r] = "count"] /\ UNCHANGED writing
  /\ UNCHANGED <<itemVars, schedules, expired, req, losses>>

CountRun(r) ==
  /\ exec[r] = "count"
  /\ AddToCounter(1)
  /\ EndUpdate(r)
  /\ UNCHANGED <<exists, status, baseline, history, schedules, expired, req, losses>>

\* task-runner, task-status-checker and results-parser write "failed" without a
\* condition in their catch blocks while the execution goes on.
FailEarly(r) ==
  /\ exec[r] = "underWay" /\ Lose
  /\ exists' = TRUE
  /\ status' = "failed"
  /\ UNCHANGED <<baseline, counter, drift, history, schedules, expired, runVars,
                 req>>

-------------------------------------------------------------------------------
RequestStep(q) ==
  \/ DropCreate(q) \/ DropScheduled(q) \/ PutSchedule(q)
  \/ StartExpired(q) \/ PutFailedRun(q) \/ CountFailedRun(q)
  \/ \E r \in Runs : Incompatible(q, r)
  \/ StartExecution(q) \/ ReadForSave(q) \/ UpdateTestDBEntry(q)
  \/ ReadForDelete(q) \/ DeleteItem(q) \/ QueryHistory(q) \/ DeleteHistory(q)
  \/ ReadForDeleteRuns(q) \/ ReadExistingRuns(q) \/ DecrementCounter(q)
  \/ ReadForBaseline(q) \/ ReadBaselineRun(q) \/ SetBaseline(q)
  \/ ReadForClear(q) \/ ClearBaseline(q)

Next ==
  \/ \E q \in Requests : \/ AskFor(q) \/ CreateFires(q)
                         \/ \E r \in Runs : ScheduledFires(q, r)
                         \/ RequestStep(q) \/ CutOff(q)
  \/ \E r \in Runs :
       \/ \E new \in {"running", "cleaning up", "complete", "failed"} :
            UpdaterReads(r, new)
       \/ UpdateScenario(r) \/ UpdateHistory(r) \/ CountRun(r) \/ FailEarly(r)

Spec == Init /\ [][Next]_vars

-------------------------------------------------------------------------------
(***************************************************************************)
(* Properties.                                                             *)
(***************************************************************************)

\* The baseline is a run that still has its history item.
BaselineIsARun == baseline # NoRun => baseline \in history

\* totalTestRuns, with the increments and decrements under way and those that
\* failed, is the number of history items, whichever requests create and delete them
\* meanwhile: none is counted twice, or forgotten without an error in the log.
Increments == {r \in Runs : exec[r] = "count"}
                \cup {q \in Requests : At(q, "countFailedRun")}
Decrements == {p \in Requests \X Runs : At(p[1], "decrement") /\ p[2] \in req[p[1]].runs}

CounterInStep ==
  exists /\ losses = 0 =>
    counter + drift + Cardinality(Increments)
      = Cardinality(history) + Cardinality(Decrements)

UpdateToCome(r) ==
  UnderWay(r) /\ ~(exec[r] \in {"history", "count"} /\ Final(writing[r]))

\* The guard of saveOnly and deleteTest can be relied upon: an item whose status
\* is safe to edit has no run whose next update is still to come.
SafeStatusMeansNoRun ==
  exists /\ status \in SafeToEdit /\ losses = 0 =>
    \A r \in Runs : UpdateToCome(r) =>
      \E q \in Requests : At(q, "write") /\ r \in req[q].runs

\* A deleted scenario leaves no history item and no run behind...
Settled == \A q \in Requests : ~InFlight(q)

DeletedScenariosLeaveNothing ==
  ~exists /\ losses = 0 /\ Settled => history = {} /\ \A r \in Runs : ~UnderWay(r)

\* ... and stays deleted: no request, run or schedule that it left behind writes
\* its item again.
StaysDeleted == [][~exists /\ losses' = 0 => ~exists']_vars

\* A scenario that says "scheduled" has a schedule, unless its expiry date passed.
ScheduledMeansASchedule ==
  exists /\ status = "scheduled" /\ losses = 0 /\ Settled =>
    schedules # {} \/ expired

\* index.js, of deleteTestHistory: "If there are some unprocessed items, calls
\* itself to run again".  When the counter is decremented the runs are gone.
DeletedRunsAreGone ==
  [][\A q \in Requests : At(q, "deleteHistory") /\ req'[q].at = "decrement"
                           => req[q].runs \cap history' = {}]_vars

(***************************************************************************)
(* What the proof of BaselineIsARun needs to know besides.                 *)
(***************************************************************************)

\* Operations that are kept apart are never in flight together.
RequestsApart ==
  \A p, q \in Requests :
    p # q /\ InFlight(p) /\ InFlight(q) => {Op(p), Op(q)} \notin Apart

\* A request about to set the baseline has a recorded run in hand, one about to
\* delete runs does not have the baseline in hand.
HoldsItsRuns(q) ==
  /\ At(q, "setBaseline") => Op(q) = "setBaseline" /\ req[q].runs \subseteq history
  /\ At(q, "readHistory") => Op(q) \in {"setBaseline", "deleteRuns"}
  /\ At(q, "deleteItem") => Op(q) = "delete"
  /\ At(q, "queryHistory") => Op(q) = "delete" /\ baseline = NoRun
  /\ At(q, "deleteHistory") => Op(q) \in {"delete", "deleteRuns"}
  /\ At(q, "deleteHistory") /\ Op(q) = "delete" => baseline = NoRun
  /\ req[q].at \in {"readHistory", "deleteHistory"} /\ Op(q) = "deleteRuns"
       => baseline \notin req[q].runs

BaselineGuarded == \A q \in Requests : HoldsItsRuns(q)

BaselineInvariant == RequestsApart /\ BaselineGuarded /\ BaselineIsARun

(***************************************************************************)
(* What the users keep apart, and what the proofs of the other properties  *)
(* need to know besides.                                                   *)
(***************************************************************************)

\* Operations that write a status of their own.
StatusOps == {"start", "schedule", "scheduleStart"}

UsersKeepApart ==
  {{"delete", op} : op \in StatusOps \cup {"save", "setBaseline", "clearBaseline"}}
    \cup {{"start", op} : op \in StatusOps \cup {"save"}}
    \cup {{"deleteRuns", op} : op \in {"deleteRuns", "setBaseline"}}

\* The calls an operation makes.
CallsOf(op) ==
  CASE op = "start" -> {"execute", "dropCreate", "dropScheduled", "write",
                        "putFailedRun", "countFailedRun"}
    [] op = "save" -> {"read", "write", "putFailedRun", "countFailedRun"}
    [] op \in {"schedule", "scheduleStart"} -> {"dropCreate", "dropScheduled",
                                                "putSchedule", "write"}
    [] op = "delete" -> {"read", "dropCreate", "dropScheduled", "deleteItem",
                         "queryHistory", "deleteHistory"}
    [] op = "setBaseline" -> {"read", "readHistory", "setBaseline"}
    [] op = "clearBaseline" -> {"read", "clearBaseline"}
    [] op = "deleteRuns" -> {"read", "readHistory", "deleteHistory", "decrement"}
    [] OTHER -> {"none"}

CallsInOrder == \A q \in Requests : req[q].at \in CallsOf(Op(q))

\* One run at a time, none while another is asked for or a schedule is made.
OneRunAtATime ==
  /\ \A r, s \in Runs : UnderWay(r) /\ UnderWay(s) => r = s
  /\ \A q \in Requests :
       /\ At(q, "execute") => \E r \in Runs : req[q].runs = {r}
       /\ At(q, "execute") \/ Op(q) \in {"schedule", "scheduleStart"}
            => \A r \in Runs : ~UnderWay(r)

\* A deletion has the schedules gone before the item, crosses no update, and leaves
\* only deletions in flight.
DeletionsPrepared ==
  /\ ~exists => /\ schedules = {}
                /\ \A q \in Requests : Op(q) \in {"none", "delete", "deleteRuns"}
  /\ \A q \in Requests : Op(q) = "delete" =>
       /\ \A r \in Runs : exec[r] \notin Updating
       /\ At(q, "dropScheduled") => "Create" \notin schedules
       /\ req[q].at \in {"deleteItem", "queryHistory", "deleteHistory"}
            => schedules = {}

\* What the status has told a request stays true until the request acts on it.
StatusTellsOfRuns ==
  /\ exists => status # Absent
  /\ ~exists => \A r \in Runs : ~UnderWay(r)
  /\ \A r \in Runs : exec[r] \in Updating =>
       writing[r] \in {"running", "cleaning up", "complete", "failed"}
  /\ \A q \in Requests :
       /\ Op(q) = "save" /\ At(q, "write")
            => req[q].found # Absent /\ \A r \in Runs : ~UpdateToCome(r)
       /\ Op(q) = "delete" /\ ~At(q, "read") => \A r \in Runs : ~UnderWay(r)

\* Whatever is left of a deleted scenario's history is about to be deleted.
HistoryInHand ==
  ~exists => \/ history = {}
             \/ \E q \in Requests :
                  /\ Op(q) = "delete"
                  /\ \/ At(q, "queryHistory")
                     \/ At(q, "deleteHistory") /\ history \subseteq req[q].runs

DeletionInvariant ==
  /\ RequestsApart /\ CallsInOrder /\ OneRunAtATime /\ DeletionsPrepared
  /\ losses = 0 => StatusTellsOfRuns /\ SafeStatusMeansNoRun
  /\ losses = 0 /\ ~Unprocessed => HistoryInHand

\* Somebody is about to make the schedule, or to delete the scenario.
Promises(q) ==
  \/ Op(q) \in {"schedule", "scheduleStart"} /\ ~At(q, "write")
  \/ Op(q) = "delete" /\ req[q].at \in {"dropScheduled", "deleteItem"}

SchedulePromised == schedules # {} \/ expired \/ \E q \in Requests : Promises(q)

\* A request about to write that the scenario is scheduled.
WritesScheduled(q) ==
  At(q, "write") /\ \/ Op(q) \in {"schedule", "scheduleStart"}
                    \/ Op(q) = "save" /\ req[q].found = "scheduled"

SchedulesPromised ==
  /\ status = "scheduled" \/ (\E q \in Requests : WritesScheduled(q)) => SchedulePromised
  /\ \A r \in Runs : writing[r] # "scheduled"
  /\ \A q \in Requests :
       Op(q) = "start" /\ req[q].at \in {"dropCreate", "dropScheduled"} => expired

ScheduleInvariant ==
  RequestsApart /\ CallsInOrder /\ (losses = 0 => SchedulesPromised)

\* A run that never began has no history item, and a run that is recorded as
\* incompatible had none.
FailedRunsAreNew ==
  /\ \A r \in history : exec[r] # "none"
  /\ \A q \in Requests : At(q, "putFailedRun") =>
       /\ \E r \in Runs : req[q].runs = {r} /\ exec[r] = "over" /\ r \notin history
       /\ \A p \in Requests \ {q} : At(p, "putFailedRun") => req[p].runs # req[q].runs

\* The runs about to be deleted have their items, until the scenario is deleted.
RunsToDelete ==
  \A q \in Requests :
    /\ Op(q) = "delete" /\ req[q].at \in {"queryHistory", "deleteHistory"} => ~exists
    /\ Op(q) = "deleteRuns" /\ At(q, "deleteHistory") /\ exists
         => req[q].runs \subseteq history

CounterInvariant ==
  /\ FailedRunsAreNew
  /\ losses = 0 /\ ~Unprocessed => RunsToDelete /\ CounterInStep
===============================================================================
