-------------------------- MODULE InvestigationLock ---------------------------
(***************************************************************************)
(* The investigations of one test run: requests that create one, requests  *)
(* that cancel or archive one, the lock item that lets one create pass at  *)
(* a time, and the DevOps Agent's backlog tasks and assets behind them.    *)
(*                                                                         *)
(* A step is one call to DynamoDB or to the agent.  Time is counted in     *)
(* ticks: a create lives for less than LambdaTimeout of them, a lock is    *)
(* stale from StaleAfter on.  The identity of a lock item (its createdAt)  *)
(* is the create that put it.                                              *)
(***************************************************************************)
EXTENDS Naturals, FiniteSets

CONSTANTS
  Creates,        \* create requests, and the investigation each would make
  Closers,        \* cancel and archive requests in flight at a time
  NoCreate,       \* marks "no lock" and "nothing seen"
  LambdaTimeout,  \* ticks the API's Lambda function may run
  StaleAfter,     \* age in ticks at which a lock counts as orphaned
  MaxFailures,    \* bound on failing calls the code answers with an undo
  MaxLosses,      \* bound on lost work: timeouts, swallowed errors
  ClosersWait     \* is nothing closed while a create is in flight?

ASSUME CreatesAssumption == IsFiniteSet(Creates) /\ Creates # {}
ASSUME NoCreateAssumption == NoCreate \notin Creates
ASSUME TimeAssumption ==
  /\ LambdaTimeout \in Nat \ {0}
  /\ StaleAfter \in Nat
  /\ StaleAfter >= 2 * LambdaTimeout
ASSUME LossAssumption == MaxFailures \in Nat /\ MaxLosses \in Nat
ASSUME WaitAssumption == ClosersWait \in BOOLEAN

VARIABLES
  lock,      \* the lock item: the create that put it, or NoCreate
  lockAge,   \* its age, no further than StaleAfter
  record,    \* the investigation record of each create
  task,      \* the agent's backlog task of each create
  asset,     \* creates whose artifacts are in the agent space
  create,    \* where each create request is
  age,       \* for how long it has been there
  seen,      \* the stale lock it has seen
  undo,      \* what it still has to undo
  closer,    \* where each cancel or archive request is
  target,    \* the investigation it closes
  failures,  \* failing calls so far
  losses     \* lost work so far

createVars == <<create, age, seen, undo>>
closerVars == <<closer, target>>
vars == <<lock, lockAge, record, task, asset, create, age, seen, undo, closer,
          target, failures, losses>>

-------------------------------------------------------------------------------
\* The call a create makes next.  Up to "check" it has read nothing, at the gate
\* it has found no active investigation, past the gate the lock is its own.
AtGate   == {"put", "get", "reclaim", "putAgain"}
PastGate == {"upload", "createTask", "putRecord"}
CreateStates == {"idle", "check", "undo"} \cup AtGate \cup PastGate

CloserStates == {"idle", "cancelTask", "setArchived", "deleteAsset", "release"}
Undoable == {"lock", "task", "asset"}

InFlight(c) == create[c] # "idle"
HoldsLock(c) == create[c] \in PastGate \/ "lock" \in undo[c]

\* Records that block a create: those not archived.
Active == {c \in Creates : record[c] = "active"}

Terminal == {"COMPLETED", "CANCELED"}

TypeOK ==
  /\ lock \in Creates \cup {NoCreate}
  /\ lockAge \in 0 .. StaleAfter
  /\ record \in [Creates -> {"none", "active", "archived"}]
  /\ task \in [Creates -> {"none", "OPEN"} \cup Terminal]
  /\ asset \subseteq Creates
  /\ create \in [Creates -> CreateStates]
  /\ age \in [Creates -> 0 .. LambdaTimeout - 1]
  /\ seen \in [Creates -> Creates \cup {NoCreate}]
  /\ undo \in [Creates -> SUBSET Undoable]
  /\ \A c \in Creates : undo[c] # {} => create[c] = "undo"
  /\ closer \in [Closers -> CloserStates]
  /\ target \in [Closers -> Creates \cup {NoCreate}]
  /\ \A k \in Closers : closer[k] # "idle" => target[k] \in Creates
  /\ failures \in 0 .. MaxFailures
  /\ losses \in 0 .. MaxLosses

Init ==
  /\ lock = NoCreate
  /\ lockAge = 0
  /\ record = [c \in Creates |-> "none"]
  /\ task = [c \in Creates |-> "none"]
  /\ asset = {}
  /\ create = [c \in Creates |-> "idle"]
  /\ age = [c \in Creates |-> 0]
  /\ seen = [c \in Creates |-> NoCreate]
  /\ undo = [c \in Creates |-> {}]
  /\ closer = [k \in Closers |-> "idle"]
  /\ target = [k \in Closers |-> NoCreate]
  /\ failures = 0
  /\ losses = 0

-------------------------------------------------------------------------------
(***************************************************************************)
(* createInvestigation, up to the lock.                                    *)
(***************************************************************************)
Goto(c, to) == create' = [create EXCEPT ![c] = to]

\* The request is answered: done, or refused with a conflict.
EndCreate(c) ==
  /\ Goto(c, "idle")
  /\ age' = [age EXCEPT ![c] = 0]
  /\ seen' = [seen EXCEPT ![c] = NoCreate]
  /\ undo' = [undo EXCEPT ![c] = {}]

\* A new request, with valid contents: one that is refused for what it says
\* changes nothing.  The name of an archived investigation, or of one that never
\* came about, is taken again once nothing refers to it.
BeginCreate(c) ==
  /\ create[c] = "idle" /\ record[c] # "active" /\ lock # c
  /\ \A d \in Creates : seen[d] # c
  /\ \A k \in Closers : target[k] # c
  /\ ClosersWait => \A k \in Closers : closer[k] = "idle"
  /\ Goto(c, "check")
  /\ record' = [record EXCEPT ![c] = "none"]
  /\ task' = [task EXCEPT ![c] = "none"]
  /\ asset' = asset \ {c}
  /\ UNCHANGED <<lock, lockAge, age, seen, undo, closerVars, failures, losses>>

\* The query for an investigation that is not archived.
PreCheck(c) ==
  /\ create[c] = "check"
  /\ IF Active = {} THEN Goto(c, "put") /\ UNCHANGED <<age, seen, undo>>
                    ELSE EndCreate(c)
  /\ UNCHANGED <<lock, lockAge, record, task, asset, closerVars, failures, losses>>

PutLock(c) == lock' = c /\ lockAge' = 0

TryPutLock(c) ==
  /\ create[c] = "put"
  /\ IF lock = NoCreate THEN PutLock(c) /\ Goto(c, "upload")
                        ELSE Goto(c, "get") /\ UNCHANGED <<lock, lockAge>>
  /\ UNCHANGED <<record, task, asset, age, seen, undo, closerVars, failures,
                 losses>>

IsStaleAfterOneTimeout == lockAge >= LambdaTimeout

IsStale == lockAge >= StaleAfter

GetLockAndRefuse(c) == create[c] = "get" /\ EndCreate(c) /\
  UNCHANGED <<lock, lockAge, record, task, asset, closerVars, failures, losses>>

\* A missing lock was released this moment: the request is refused all the same.
GetLock(c) ==
  /\ create[c] = "get"
  /\ IF lock # NoCreate /\ IsStale
     THEN /\ seen' = [seen EXCEPT ![c] = lock]
          /\ Goto(c, "reclaim")
          /\ UNCHANGED <<age, undo>>
     ELSE EndCreate(c)
  /\ UNCHANGED <<lock, lockAge, record, task, asset, closerVars, failures, losses>>

\* Deleted without a condition, whoever has refreshed it meanwhile.
ReclaimAnyLock(c) ==
  /\ create[c] = "reclaim"
  /\ lock' = NoCreate /\ lockAge' = 0
  /\ Goto(c, "putAgain")
  /\ UNCHANGED <<record, task, asset, age, seen, undo, closerVars, failures,
                 losses>>

\* The delete is conditional on the createdAt that was seen.
ReclaimLock(c) ==
  /\ create[c] = "reclaim"
  /\ IF lock = seen[c]
     THEN /\ lock' = NoCreate /\ lockAge' = 0
          /\ Goto(c, "putAgain")
          /\ seen' = [seen EXCEPT ![c] = NoCreate]
          /\ UNCHANGED <<age, undo>>
     ELSE EndCreate(c) /\ UNCHANGED <<lock, lockAge>>
  /\ UNCHANGED <<record, task, asset, closerVars, failures, losses>>

PutLockAgain(c) ==
  /\ create[c] = "putAgain"
  /\ IF lock = NoCreate
     THEN PutLock(c) /\ Goto(c, "upload") /\ UNCHANGED <<age, seen, undo>>
     ELSE EndCreate(c) /\ UNCHANGED <<lock, lockAge>>
  /\ UNCHANGED <<record, task, asset, closerVars, failures, losses>>

-------------------------------------------------------------------------------
(***************************************************************************)
(* createInvestigation, past the lock.                                     *)
(***************************************************************************)

\* Best effort: the run may have no artifacts, or the upload may fail.
UploadArtifacts(c) ==
  /\ create[c] = "upload"
  /\ asset' \in {asset, asset \cup {c}}
  /\ Goto(c, "createTask")
  /\ UNCHANGED <<lock, lockAge, record, task, age, seen, undo, closerVars,
                 failures, losses>>

CreateTask(c) ==
  /\ create[c] = "createTask"
  /\ task' = [task EXCEPT ![c] = "OPEN"]
  /\ Goto(c, "putRecord")
  /\ UNCHANGED <<lock, lockAge, record, asset, age, seen, undo, closerVars,
                 failures, losses>>

\* A catch block: what has been made so far is undone, in no fixed order.
UndoAll(c) ==
  /\ failures < MaxFailures
  /\ failures' = failures + 1
  /\ Goto(c, "undo")
  /\ undo' = [undo EXCEPT ![c] =
       {"lock"} \cup (IF task[c] = "none" THEN {} ELSE {"task"})
                \cup (IF c \in asset THEN {"asset"} ELSE {})]
  /\ UNCHANGED <<lock, lockAge, record, task, asset, age, seen, closerVars, losses>>

UndoLockAndTask(c) ==
  /\ failures < MaxFailures
  /\ failures' = failures + 1
  /\ Goto(c, "undo")
  /\ undo' = [undo EXCEPT ![c] = {"lock"}]
  /\ UNCHANGED <<lock, lockAge, record, task, asset, age, seen, closerVars, losses>>

CreateTaskFails(c) == create[c] = "createTask" /\ UndoAll(c)

PutRecordFailsKeepingTask(c) == create[c] = "putRecord" /\ UndoLockAndTask(c)

PutRecordFails(c) == create[c] = "putRecord" /\ UndoAll(c)

PutRecord(c) ==
  /\ create[c] = "putRecord"
  /\ record' = [record EXCEPT ![c] = "active"]
  /\ EndCreate(c)
  /\ UNCHANGED <<lock, lockAge, task, asset, closerVars, failures, losses>>

\* The last of the undos ends the request.
Undone(c, what) ==
  IF undo[c] = {what} THEN EndCreate(c)
  ELSE undo' = [undo EXCEPT ![c] = @ \ {what}] /\ UNCHANGED <<create, age, seen>>

\* releaseActiveLock deletes the item whoever has put it.
ReleaseLock == lock' = NoCreate /\ lockAge' = 0

ArchiveForgotten(k) ==
  /\ closer[k] = "setArchived"
  /\ record' = [record EXCEPT ![target[k]] = "cancelled"]
  /\ closer' = [closer EXCEPT ![k] = "deleteAsset"]
  /\ UNCHANGED <<target, lock, lockAge, task, asset, createVars, failures, losses>>

UndoLock(c) ==
  /\ "lock" \in undo[c]
  /\ ReleaseLock
  /\ Undone(c, "lock")
  /\ UNCHANGED <<record, task, asset, closerVars, failures, losses>>

\* cancelOrphanedTask leaves alone a task that has ended meanwhile.
UndoTask(c) ==
  /\ "task" \in undo[c]
  /\ task' = [task EXCEPT ![c] = IF @ = "OPEN" THEN "CANCELED" ELSE @]
  /\ Undone(c, "task")
  /\ UNCHANGED <<lock, lockAge, record, asset, closerVars, failures, losses>>

UndoAsset(c) ==
  /\ "asset" \in undo[c]
  /\ asset' = asset \ {c}
  /\ Undone(c, "asset")
  /\ UNCHANGED <<lock, lockAge, record, task, closerVars, failures, losses>>

Lose == losses < MaxLosses /\ losses' = losses + 1

\* An undo that fails is logged and forgotten.
UndoFails(c) ==
  /\ Lose
  /\ \E what \in undo[c] : Undone(c, what)
  /\ UNCHANGED <<lock, lockAge, record, task, asset, closerVars, failures>>

\* The function is cut off, by its timeout or by a crash.
CreateCutOff(c) ==
  /\ InFlight(c)
  /\ Lose
  /\ EndCreate(c)
  /\ UNCHANGED <<lock, lockAge, record, task, asset, closerVars, failures>>

-------------------------------------------------------------------------------
(***************************************************************************)
(* cancelInvestigation and archiveInvestigation.                           *)
(***************************************************************************)
MayClose == ClosersWait => \A c \in Creates : ~InFlight(c)

Close(k, c, at) ==
  /\ closer' = [closer EXCEPT ![k] = at]
  /\ target' = [target EXCEPT ![k] = c]

\* Record and task are read; a task that ended by itself is refused.  A record
\* that is archived already is not.
BeginCancel(k, c) ==
  /\ closer[k] = "idle" /\ MayClose
  /\ record[c] # "none" /\ task[c] # "COMPLETED"
  /\ Close(k, c, IF task[c] = "OPEN" THEN "cancelTask" ELSE "setArchived")
  /\ UNCHANGED <<lock, lockAge, record, task, asset, createVars, failures, losses>>

BeginArchiveOfAny(k, c) ==
  /\ closer[k] = "idle" /\ MayClose
  /\ record[c] = "active"
  /\ Close(k, c, "setArchived")
  /\ UNCHANGED <<lock, lockAge, record, task, asset, createVars, failures, losses>>

BeginArchive(k, c) ==
  /\ closer[k] = "idle" /\ MayClose
  /\ record[c] = "active" /\ task[c] \in Terminal
  /\ Close(k, c, "setArchived")
  /\ UNCHANGED <<lock, lockAge, record, task, asset, createVars, failures, losses>>

CloserGoes(k, to) == closer' = [closer EXCEPT ![k] = to] /\ UNCHANGED target

EndClose(k) ==
  /\ closer' = [closer EXCEPT ![k] = "idle"]
  /\ target' = [target EXCEPT ![k] = NoCreate]

\* The agent refuses to cancel a task that has ended.
CancelTask(k) ==
  /\ closer[k] = "cancelTask"
  /\ IF task[target[k]] = "OPEN"
     THEN /\ task' = [task EXCEPT ![target[k]] = "CANCELED"]
          /\ CloserGoes(k, "setArchived")
     ELSE EndClose(k) /\ UNCHANGED task
  /\ UNCHANGED <<lock, lockAge, record, asset, createVars, failures, losses>>

SetArchived(k) ==
  /\ closer[k] = "setArchived"
  /\ record' = [record EXCEPT ![target[k]] = "archived"]
  /\ CloserGoes(k, "deleteAsset")
  /\ UNCHANGED <<lock, lockAge, task, asset, createVars, failures, losses>>

DeleteNoAsset(k) ==
  /\ closer[k] = "deleteAsset"
  /\ CloserGoes(k, "release")
  /\ UNCHANGED <<lock, lockAge, record, task, asset, createVars, failures, losses>>

DeleteAsset(k) ==
  /\ closer[k] = "deleteAsset"
  /\ asset' = asset \ {target[k]}
  /\ CloserGoes(k, "release")
  /\ UNCHANGED <<lock, lockAge, record, task, createVars, failures, losses>>

ReleaseActiveLock(k) ==
  /\ closer[k] = "release"
  /\ ReleaseLock
  /\ EndClose(k)
  /\ UNCHANGED <<record, task, asset, createVars, failures, losses>>

\* An asset or a lock that could not be deleted is logged and forgotten.
CloserCallFails(k) ==
  /\ Lose
  /\ \/ closer[k] = "deleteAsset" /\ CloserGoes(k, "release")
     \/ closer[k] = "release" /\ EndClose(k)
  /\ UNCHANGED <<lock, lockAge, record, task, asset, createVars, failures>>

CloserCutOff(k) ==
  /\ closer[k] # "idle"
  /\ Lose
  /\ EndClose(k)
  /\ UNCHANGED <<lock, lockAge, record, task, asset, createVars, failures>>

-------------------------------------------------------------------------------
(***************************************************************************)
(* The agent, and time.                                                    *)
(***************************************************************************)
TaskEnds(c) ==
  /\ task[c] = "OPEN"
  /\ task' = [task EXCEPT ![c] = "COMPLETED"]
  /\ UNCHANGED <<lock, lockAge, record, asset, createVars, closerVars, failures,
                 losses>>

Tick ==
  /\ \A c \in Creates : InFlight(c) => age[c] + 1 < LambdaTimeout
  /\ age' = [c \in Creates |-> IF InFlight(c) THEN age[c] + 1 ELSE age[c]]
  /\ lockAge' = IF lock # NoCreate /\ lockAge < StaleAfter THEN lockAge + 1
                                                           ELSE lockAge
  /\ UNCHANGED <<lock, record, task, asset, create, seen, undo, closerVars,
                 failures, losses>>

CreateStep(c) ==
  \/ PreCheck(c) \/ TryPutLock(c) \/ GetLock(c) \/ ReclaimLock(c)
  \/ PutLockAgain(c) \/ UploadArtifacts(c)
  \/ CreateTask(c) \/ PutRecord(c)
  \/ UndoLock(c) \/ UndoTask(c) \/ UndoAsset(c)

CreateFault(c) ==
  CreateTaskFails(c) \/ PutRecordFails(c) \/ UndoFails(c) \/ CreateCutOff(c)

CloserStep(k) ==
  CancelTask(k) \/ SetArchived(k) \/ DeleteAsset(k) \/ ReleaseActiveLock(k)

Next ==
  \/ \E c \in Creates : BeginCreate(c) \/ CreateStep(c) \/ CreateFault(c)
                        \/ TaskEnds(c)
  \/ \E k \in Closers : \/ \E c \in Creates : BeginCancel(k, c) \/ BeginArchive(k, c)
                        \/ CloserStep(k) \/ CloserCallFails(k) \/ CloserCutOff(k)
  \/ Tick

\* A function that runs makes its next call, time passes, and users go on asking
\* for an investigation.  Nobody has to close one and no task has to end.
Fairness ==
  /\ \A c \in Creates : WF_vars(CreateStep(c))
  /\ \A k \in Closers : WF_vars(CloserStep(k))
  /\ WF_vars(Tick)
  /\ SF_vars(\E c \in Creates : BeginCreate(c))

Spec == Init /\ [][Next]_vars
FairSpec == Spec /\ Fairness

-------------------------------------------------------------------------------
(***************************************************************************)
(* Properties.                                                             *)
(***************************************************************************)

\* At most one investigation of a test run is active, whatever creates cross,
\* time out or reclaim a stale lock.
AtMostOneActive == Cardinality(Active) <= 1

\* From its successful put until its record is written, or its own release, a
\* create has the lock: nobody takes it for an orphan or releases it.
InFlightCreateKeepsItsLock == \A c \in Creates : HoldsLock(c) => lock = c

\* Unless work was lost, a request leaves nothing behind: whatever an answered
\* request has made (lock, task, asset) belongs to an active investigation.
Settled(c) == ~InFlight(c) /\ \A k \in Closers : target[k] # c

NothingIsLeftBehind ==
  losses = 0 =>
    \A c \in Creates : Settled(c) /\ (lock = c \/ task[c] = "OPEN" \/ c \in asset)
                         => record[c] = "active"

\* An archived investigation, which no longer blocks a new one, is one whose task
\* has ended: the agent never works on it any more.
ArchivedTasksHaveEnded ==
  \A c \in Creates : record[c] = "archived" => task[c] \in Terminal

\* index.js, of acquireActiveLock: "so a single failure can never permanently
\* block investigations for a test run".  If users go on asking there is an
\* active investigation again, whatever was cut off with the lock in hand.
InvestigationsResume == Active = {} ~> Active # {}

(***************************************************************************)
(* What the proofs of the first two properties need to know besides.       *)
(***************************************************************************)

\* Requests of the two kinds take turns.
TurnsTaken ==
  (\E k \in Closers : closer[k] # "idle") => \A c \in Creates : ~InFlight(c)

\* Nobody has heard of a create that has not put its lock yet.
NewCreatesAreUnknown ==
  \A c \in Creates : create[c] \in AtGate \cup {"check"}
                        => lock # c /\ \A d \in Creates : seen[d] # c

\* A lock that is held is as young as its holder's request...
HeldLocksAreFresh ==
  \A c \in Creates : HoldsLock(c) => lock = c /\ lockAge <= age[c]

\* ... and one about to be reclaimed is stale.
ReclaimedLocksAreStale ==
  \A c \in Creates : create[c] = "reclaim" =>
    seen[c] # NoCreate /\ (lock = seen[c] => lockAge >= StaleAfter)

\* A create at the gate read that nothing was active: an investigation that is
\* was recorded since, and its lock was fresh then.  Past the gate none is.
GateIsShut ==
  \A c, a \in Creates : record[a] = "active" =>
    /\ create[a] = "idle"
    /\ create[c] \notin PastGate
    /\ create[c] \in AtGate => lock = a /\ lockAge < LambdaTimeout + age[c]

OneActive == \A a, b \in Active : a = b

GateInvariant ==
  /\ TurnsTaken
  /\ NewCreatesAreUnknown
  /\ HeldLocksAreFresh
  /\ ReclaimedLocksAreStale
  /\ GateIsShut
  /\ OneActive

(***************************************************************************)
(* What the proofs of the next two need to know besides: here it does not  *)
(* matter whether closers wait.                                            *)
(***************************************************************************)

\* The record comes last: a create in flight has none, and a record has a task.
RecordsComeLast ==
  \A c \in Creates :
    /\ InFlight(c) => record[c] = "none"
    /\ record[c] # "none" \/ create[c] = "putRecord" => task[c] # "none"

\* Only what has a record is closed, and it is archived once its task has ended.
TasksEndFirst ==
  \A k \in Closers : closer[k] # "idle" =>
    /\ record[target[k]] # "none"
    /\ closer[k] # "cancelTask" => task[target[k]] \in Terminal

ArchivingInvariant ==
  /\ RecordsComeLast
  /\ TasksEndFirst
  /\ ArchivedTasksHaveEnded

\* What a create in flight cannot have made yet.
MadeInOrder ==
  \A c \in Creates :
    /\ create[c] \in AtGate \cup {"check"} => lock # c
    /\ create[c] \in AtGate \cup {"check", "upload"} => c \notin asset
    /\ create[c] \in AtGate \cup {"check", "upload", "createTask"}
          => task[c] = "none"

\* The undo of a failed create covers all it has made...
UndoCovers ==
  \A c \in Creates : create[c] = "undo" =>
    /\ lock = c => "lock" \in undo[c]
    /\ task[c] = "OPEN" => "task" \in undo[c]
    /\ c \in asset => "asset" \in undo[c]

\* ... and what an archived investigation still has, its closer is about to remove.
ClosersCover ==
  \A c \in Creates : ~InFlight(c) /\ record[c] # "active" =>
    /\ task[c] # "OPEN"
    /\ c \in asset => \E k \in Closers : target[k] = c /\ closer[k] = "deleteAsset"
    /\ lock = c => \E k \in Closers :
                     target[k] = c /\ closer[k] \in {"deleteAsset", "release"}

LeftoverInvariant == MadeInOrder /\ (losses = 0 => UndoCovers /\ ClosersCover)
===============================================================================
