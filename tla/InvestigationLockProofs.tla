------------------------ MODULE InvestigationLockProofs -----------------------
(***************************************************************************)
(* If nothing is closed while a create is in flight, at most one           *)
(* investigation of a test run is active and a create keeps its lock until *)
(* it is done with it.  Whoever closes what: the tasks of archived         *)
(* investigations have ended, and while no work is lost an answered        *)
(* request leaves nothing behind but an active investigation.  All of it   *)
(* for any number of requests and any Lambda timeout.                      *)
(***************************************************************************)
EXTENDS InvestigationLock, FiniteSetTheorems, TLAPS

\* A create that is in flight ends with what it has, one that goes on keeps it.
LEMMA EndCreateType ==
  ASSUME TypeOK, NEW c \in Creates, EndCreate(c)
  PROVE  /\ create' \in [Creates -> CreateStates]
         /\ age' \in [Creates -> 0 .. LambdaTimeout - 1]
         /\ seen' \in [Creates -> Creates \cup {NoCreate}]
         /\ undo' \in [Creates -> SUBSET Undoable]
         /\ \A d \in Creates : undo'[d] # {} => create'[d] = "undo"
<1>1. 0 \in 0 .. LambdaTimeout - 1
  BY TimeAssumption
<1> QED
  BY <1>1 DEF TypeOK, EndCreate, Goto, CreateStates

\* A create that goes to another state keeps its type there.
LEMMA GotoType ==
  ASSUME TypeOK, NEW c \in Creates, NEW to \in CreateStates, Goto(c, to),
         create[c] # "undo"
  PROVE  /\ create' \in [Creates -> CreateStates]
         /\ \A d \in Creates : undo[d] # {} => create'[d] = "undo"
  BY DEF TypeOK, Goto

\* The steps of a create up to the lock keep the types.
LEMMA GateKeepsType ==
  ASSUME TypeOK, NEW c \in Creates,
         \/ BeginCreate(c) \/ PreCheck(c) \/ TryPutLock(c) \/ GetLock(c)
         \/ ReclaimLock(c) \/ PutLockAgain(c)
  PROVE  TypeOK'
<1>a. \A to \in {"check", "put", "get", "reclaim", "putAgain", "upload"} :
        to \in CreateStates
  BY DEF CreateStates, AtGate, PastGate
<1>b. 0 \in 0 .. StaleAfter
  BY TimeAssumption
<1>1. CASE BeginCreate(c)
  BY <1>1, <1>a, GotoType DEF BeginCreate, TypeOK, closerVars, Goto
<1>2. CASE PreCheck(c)
  <2>1. CASE Goto(c, "put") /\ UNCHANGED <<age, seen, undo>>
    BY <1>2, <2>1, <1>a, GotoType DEF PreCheck, TypeOK, closerVars
  <2>2. CASE EndCreate(c)
    BY <1>2, <2>2, EndCreateType DEF PreCheck, TypeOK, closerVars
  <2> QED
    BY <1>2, <2>1, <2>2 DEF PreCheck
<1>3. CASE TryPutLock(c)
  BY <1>3, <1>a, <1>b, GotoType DEF TryPutLock, PutLock, TypeOK, closerVars
<1>4. CASE GetLock(c)
  <2>1. CASE EndCreate(c)
    BY <1>4, <2>1, EndCreateType DEF GetLock, TypeOK, closerVars
  <2>2. CASE Goto(c, "reclaim") /\ seen' = [seen EXCEPT ![c] = lock]
             /\ UNCHANGED <<age, undo>>
    <3>1. seen' \in [Creates -> Creates \cup {NoCreate}]
      BY <2>2 DEF TypeOK
    <3> QED
      BY <1>4, <2>2, <3>1, <1>a, GotoType DEF GetLock, TypeOK, closerVars
  <2> QED
    BY <1>4, <2>1, <2>2 DEF GetLock
<1>5. CASE ReclaimLock(c)
  <2>1. CASE EndCreate(c) /\ UNCHANGED <<lock, lockAge>>
    BY <1>5, <2>1, EndCreateType DEF ReclaimLock, TypeOK, closerVars
  <2>2. CASE /\ Goto(c, "putAgain") /\ seen' = [seen EXCEPT ![c] = NoCreate]
             /\ lock' = NoCreate /\ lockAge' = 0
             /\ UNCHANGED <<age, undo>>
    <3>1. seen' \in [Creates -> Creates \cup {NoCreate}]
      BY <2>2 DEF TypeOK
    <3> QED
      BY <1>5, <2>2, <3>1, <1>a, <1>b, GotoType DEF ReclaimLock, TypeOK, closerVars
  <2> QED
    BY <1>5, <2>1, <2>2 DEF ReclaimLock
<1>6. CASE PutLockAgain(c)
  <2>1. CASE EndCreate(c) /\ UNCHANGED <<lock, lockAge>>
    BY <1>6, <2>1, EndCreateType DEF PutLockAgain, TypeOK, closerVars
  <2>2. CASE PutLock(c) /\ Goto(c, "upload") /\ UNCHANGED <<age, seen, undo>>
    BY <1>6, <2>2, <1>a, <1>b, GotoType DEF PutLockAgain, PutLock, TypeOK, closerVars
  <2> QED
    BY <1>6, <2>1, <2>2 DEF PutLockAgain
<1> QED
  BY <1>1, <1>2, <1>3, <1>4, <1>5, <1>6

\* Doing away with a piece of the undo keeps the types.
LEMMA UndoneType ==
  ASSUME TypeOK, NEW c \in Creates, NEW what \in Undoable, what \in undo[c],
         Undone(c, what)
  PROVE  /\ create' \in [Creates -> CreateStates]
         /\ age' \in [Creates -> 0 .. LambdaTimeout - 1]
         /\ seen' \in [Creates -> Creates \cup {NoCreate}]
         /\ undo' \in [Creates -> SUBSET Undoable]
         /\ \A d \in Creates : undo'[d] # {} => create'[d] = "undo"
<1>1. CASE undo[c] = {what}
  BY <1>1, EndCreateType DEF Undone
<1>2. CASE undo[c] # {what}
  BY <1>2 DEF Undone, TypeOK
<1> QED
  BY <1>1, <1>2

\* The bounded counters stay below their bounds.
LEMMA CountersBounded ==
  ASSUME TypeOK
  PROVE  /\ failures < MaxFailures => failures + 1 \in 0 .. MaxFailures
         /\ losses < MaxLosses => losses + 1 \in 0 .. MaxLosses
  BY LossAssumption DEF TypeOK

\* The steps of a create past the lock, and its ends, keep the types.
LEMMA MakingKeepsType ==
  ASSUME TypeOK, NEW c \in Creates,
         \/ UploadArtifacts(c) \/ CreateTask(c) \/ PutRecord(c)
         \/ UndoLock(c) \/ UndoTask(c) \/ UndoAsset(c)
         \/ CreateFault(c) \/ TaskEnds(c)
  PROVE  TypeOK'
<1>a. \A to \in {"createTask", "putRecord", "undo"} : to \in CreateStates
  BY DEF CreateStates, PastGate
<1>b. 0 \in 0 .. StaleAfter
  BY TimeAssumption
<1>c. \A what \in {"lock", "task", "asset"} : what \in Undoable
  BY DEF Undoable
<1>1. CASE UploadArtifacts(c) \/ CreateTask(c)
  <2>1. /\ asset' \subseteq Creates
        /\ task' \in [Creates -> {"none", "OPEN"} \cup Terminal]
    BY <1>1 DEF UploadArtifacts, CreateTask, TypeOK, closerVars
  <2>2. \E to \in {"createTask", "putRecord"} : Goto(c, to) /\ create[c] # "undo"
    BY <1>1 DEF UploadArtifacts, CreateTask
  <2> QED
    BY <1>1, <1>a, <2>1, <2>2, GotoType
       DEF UploadArtifacts, CreateTask, TypeOK, closerVars
<1>2. CASE PutRecord(c)
  BY <1>2, EndCreateType DEF PutRecord, TypeOK, closerVars
<1>3. CASE UndoLock(c)
  BY <1>3, <1>b, <1>c, UndoneType DEF UndoLock, ReleaseLock, TypeOK, closerVars
<1>4. CASE UndoTask(c)
  <2>1. task' \in [Creates -> {"none", "OPEN"} \cup Terminal]
    BY <1>4 DEF UndoTask, TypeOK, Terminal
  <2> QED
    BY <1>4, <1>c, <2>1, UndoneType DEF UndoTask, TypeOK, closerVars
<1>5. CASE UndoAsset(c)
  BY <1>5, <1>c, UndoneType DEF UndoAsset, TypeOK, closerVars
<1>6. CASE CreateTaskFails(c) \/ PutRecordFails(c)
  <2>1. UndoAll(c) /\ create[c] # "undo"
    BY <1>6 DEF CreateTaskFails, PutRecordFails
  <2>2. undo' \in [Creates -> SUBSET Undoable]
    BY <2>1 DEF UndoAll, TypeOK, Undoable
  <2>3. /\ create' \in [Creates -> CreateStates]
        /\ \A d \in Creates : undo'[d] # {} => create'[d] = "undo"
    BY <2>1, <1>a DEF UndoAll, TypeOK, Goto
  <2> QED
    BY <2>1, <2>2, <2>3, CountersBounded DEF UndoAll, TypeOK, closerVars
<1>7. CASE UndoFails(c)
  <2>1. PICK what \in undo[c] : Undone(c, what)
    BY <1>7 DEF UndoFails
  <2>2. what \in Undoable
    BY <2>1 DEF TypeOK
  <2> QED
    BY <1>7, <2>1, <2>2, UndoneType, CountersBounded
       DEF UndoFails, Lose, TypeOK, closerVars
<1>8. CASE CreateCutOff(c)
  BY <1>8, EndCreateType, CountersBounded DEF CreateCutOff, Lose, TypeOK, closerVars
<1>9. CASE TaskEnds(c)
  BY <1>9 DEF TaskEnds, TypeOK, Terminal, createVars, closerVars
<1> QED
  BY <1>1, <1>2, <1>3, <1>4, <1>5, <1>6, <1>7, <1>8, <1>9 DEF CreateFault

\* So do the steps of a request that closes an investigation...
LEMMA ClosingKeepsType ==
  ASSUME TypeOK, NEW k \in Closers,
         \/ \E c \in Creates : BeginCancel(k, c) \/ BeginArchive(k, c)
         \/ CloserStep(k) \/ CloserCallFails(k) \/ CloserCutOff(k)
  PROVE  TypeOK'
<1>1. CASE \E c \in Creates : BeginCancel(k, c) \/ BeginArchive(k, c)
  BY <1>1 DEF BeginCancel, BeginArchive, Close, TypeOK, CloserStates, createVars
<1>2. CASE CancelTask(k)
  BY <1>2 DEF CancelTask, CloserGoes, EndClose, TypeOK, CloserStates, createVars,
              Terminal
<1>3. CASE SetArchived(k)
  BY <1>3 DEF SetArchived, CloserGoes, TypeOK, CloserStates, createVars
<1>4. CASE DeleteAsset(k)
  BY <1>4 DEF DeleteAsset, CloserGoes, TypeOK, CloserStates, createVars
<1>5. CASE ReleaseActiveLock(k)
  BY <1>5, TimeAssumption DEF ReleaseActiveLock, ReleaseLock, EndClose, TypeOK,
                              CloserStates, createVars
<1>6. CASE CloserCallFails(k)
  BY <1>6, CountersBounded DEF CloserCallFails, Lose, CloserGoes, EndClose, TypeOK,
                               CloserStates, createVars
<1>7. CASE CloserCutOff(k)
  BY <1>7, CountersBounded DEF CloserCutOff, Lose, EndClose, TypeOK, CloserStates,
                               createVars
<1> QED
  BY <1>1, <1>2, <1>3, <1>4, <1>5, <1>6, <1>7 DEF CloserStep

\* ... and time.
LEMMA TickKeepsType == ASSUME TypeOK, Tick PROVE TypeOK'
<1>1. age' \in [Creates -> 0 .. LambdaTimeout - 1]
  BY TimeAssumption DEF Tick, TypeOK
<1>2. lockAge' \in 0 .. StaleAfter
  BY TimeAssumption DEF Tick, TypeOK
<1> QED
  BY <1>1, <1>2 DEF Tick, TypeOK, closerVars

\* Every variable keeps its type: for any sets of requests and any bounds.
THEOREM LockTypeCorrect == Spec => []TypeOK
<1>1. Init => TypeOK
  BY TimeAssumption, LossAssumption
     DEF Init, TypeOK, CreateStates, CloserStates
<1>2. TypeOK /\ [Next]_vars => TypeOK'
  <2> SUFFICES ASSUME TypeOK, [Next]_vars PROVE TypeOK'
    OBVIOUS
  <2>1. CASE \E c \in Creates : BeginCreate(c) \/ CreateStep(c) \/ CreateFault(c)
                                \/ TaskEnds(c)
    BY <2>1, GateKeepsType, MakingKeepsType DEF CreateStep
  <2>2. CASE \E k \in Closers : \/ \E c \in Creates : BeginCancel(k, c)
                                                      \/ BeginArchive(k, c)
                                \/ CloserStep(k) \/ CloserCallFails(k)
                                \/ CloserCutOff(k)
    BY <2>2, ClosingKeepsType
  <2>3. CASE Tick
    BY <2>3, TickKeepsType
  <2>4. CASE UNCHANGED vars
    BY <2>4 DEF vars, TypeOK
  <2> QED
    BY <2>1, <2>2, <2>3, <2>4 DEF Next
<1> QED
  BY <1>1, <1>2, PTL DEF Spec

-------------------------------------------------------------------------------
(***************************************************************************)
(* The gate.  ClosersWait is assumed from here on; each lemma takes a group *)
(* of steps and all parts of the invariant through it.                     *)
(***************************************************************************)

\* What the gate looks at.
gateVars == <<lock, lockAge, record, create, age, seen, undo, closer>>

\* A step that changes none of it keeps the gate's invariant.
LEMMA GateUntouched ==
  ASSUME GateInvariant, UNCHANGED gateVars PROVE GateInvariant'
  BY DEF GateInvariant, TurnsTaken, NewCreatesAreUnknown, HeldLocksAreFresh,
         ReclaimedLocksAreStale, GateIsShut, OneActive, Active, InFlight, HoldsLock,
         gateVars

\* Who holds the lock is in flight.
LEMMA HoldersAreInFlight ==
  ASSUME TypeOK, NEW c \in Creates, HoldsLock(c) PROVE InFlight(c)
  BY DEF TypeOK, HoldsLock, InFlight, PastGate

\* A lock that is held, or put while a request at the gate waits for it, is not
\* stale.
LEMMA FreshLocksAreNotStale ==
  ASSUME TypeOK, NEW c \in Creates,
         lockAge <= age[c] \/ lockAge < LambdaTimeout + age[c]
  PROVE  ~(lockAge >= StaleAfter)
<1>1. age[c] \in 0 .. LambdaTimeout - 1 /\ lockAge \in 0 .. StaleAfter
  BY DEF TypeOK
<1> QED
  BY <1>1, TimeAssumption

\* A request that has not put its lock, or that ends without one, disturbs nobody.
LEMMA LeavingIsSafe ==
  ASSUME TypeOK, GateInvariant, NEW c \in Creates, InFlight(c),
         EndCreate(c), UNCHANGED <<lock, lockAge, record, closer>>
  PROVE  GateInvariant'
<1> USE DEF EndCreate, Goto, TypeOK
<1>1. TurnsTaken'
  BY DEF GateInvariant, TurnsTaken, InFlight
<1>2. NewCreatesAreUnknown'
  BY NoCreateAssumption DEF GateInvariant, NewCreatesAreUnknown, AtGate
<1>3. HeldLocksAreFresh'
  BY DEF GateInvariant, HeldLocksAreFresh, HoldsLock, PastGate
<1>4. ReclaimedLocksAreStale'
  BY DEF GateInvariant, ReclaimedLocksAreStale
<1>5. GateIsShut'
  BY DEF GateInvariant, GateIsShut, PastGate, AtGate
<1>6. OneActive'
  BY DEF GateInvariant, OneActive, Active
<1> QED
  BY <1>1, <1>2, <1>3, <1>4, <1>5, <1>6 DEF GateInvariant

\* So does one that moves on at the gate, or past it.
LEMMA MovingIsSafe ==
  ASSUME TypeOK, GateInvariant, NEW c \in Creates, NEW to \in CreateStates,
         Goto(c, to), UNCHANGED <<lock, lockAge, record, age, seen, closer>>,
         \A d \in Creates : d # c => undo'[d] = undo[d],
         \/ create[c] = "check" /\ to = "put" /\ Active = {} /\ undo'[c] = undo[c]
         \/ create[c] = "put" /\ to = "get" /\ undo'[c] = undo[c]
         \/ create[c] \in PastGate /\ to \in PastGate \cup {"undo"}
  PROVE  GateInvariant'
<1> USE DEF Goto, TypeOK
<1>1. TurnsTaken'
  BY DEF GateInvariant, TurnsTaken, InFlight, PastGate
<1>2. NewCreatesAreUnknown'
  BY DEF GateInvariant, NewCreatesAreUnknown, AtGate, PastGate
<1>3. HeldLocksAreFresh'
  BY DEF GateInvariant, HeldLocksAreFresh, HoldsLock, PastGate
<1>4. ReclaimedLocksAreStale'
  BY DEF GateInvariant, ReclaimedLocksAreStale, PastGate
<1>5. GateIsShut'
  BY DEF GateInvariant, GateIsShut, PastGate, AtGate, Active
<1>6. OneActive'
  BY DEF GateInvariant, OneActive, Active
<1> QED
  BY <1>1, <1>2, <1>3, <1>4, <1>5, <1>6 DEF GateInvariant

\* Taking a free lock.
LEMMA PuttingIsSafe ==
  ASSUME TypeOK, GateInvariant, NEW c \in Creates, create[c] \in {"put", "putAgain"},
         lock = NoCreate, PutLock(c), Goto(c, "upload"),
         UNCHANGED <<record, age, seen, undo, closer>>
  PROVE  GateInvariant'
<1> USE DEF PutLock, Goto, TypeOK
<1>0. /\ Active = {}
      /\ \A d \in Creates : ~HoldsLock(d)
  BY NoCreateAssumption
     DEF GateInvariant, GateIsShut, HeldLocksAreFresh, Active, AtGate
<1>1. TurnsTaken'
  BY DEF GateInvariant, TurnsTaken, InFlight
<1>2. NewCreatesAreUnknown'
  BY DEF GateInvariant, NewCreatesAreUnknown, AtGate
<1>3. HeldLocksAreFresh'
  <2>1. 0 <= age[c]
    BY TimeAssumption
  <2> QED
    BY <1>0, <2>1 DEF HeldLocksAreFresh, HoldsLock, PastGate
<1>4. ReclaimedLocksAreStale'
  BY DEF GateInvariant, ReclaimedLocksAreStale, NewCreatesAreUnknown, AtGate
<1>5. GateIsShut'
  BY <1>0 DEF GateIsShut, Active
<1>6. OneActive'
  BY DEF GateInvariant, OneActive, Active
<1> QED
  BY <1>1, <1>2, <1>3, <1>4, <1>5, <1>6 DEF GateInvariant

\* The steps up to the lock keep the gate shut.
LEMMA GateSteps ==
  ASSUME TypeOK, GateInvariant, ClosersWait, NEW c \in Creates,
         \/ BeginCreate(c) \/ PreCheck(c) \/ TryPutLock(c) \/ GetLock(c)
         \/ ReclaimLock(c) \/ PutLockAgain(c)
  PROVE  GateInvariant'
<1>a. \A to \in {"put", "get", "reclaim", "putAgain", "upload"} : to \in CreateStates
  BY DEF CreateStates, AtGate, PastGate
<1>1. CASE BeginCreate(c)
  <2> USE <1>1 DEF BeginCreate, Goto, TypeOK
  <2>1. TurnsTaken' /\ OneActive'
    BY DEF GateInvariant, TurnsTaken, InFlight, OneActive, Active, closerVars
  <2>2. NewCreatesAreUnknown' /\ ReclaimedLocksAreStale'
    BY DEF GateInvariant, NewCreatesAreUnknown, ReclaimedLocksAreStale, AtGate
  <2>3. HeldLocksAreFresh'
    BY DEF GateInvariant, HeldLocksAreFresh, HoldsLock, PastGate
  <2>4. GateIsShut'
    BY DEF GateInvariant, GateIsShut, AtGate, PastGate
  <2> QED
    BY <2>1, <2>2, <2>3, <2>4 DEF GateInvariant
<1>2. CASE PreCheck(c)
  BY <1>2, <1>a, LeavingIsSafe, MovingIsSafe DEF PreCheck, InFlight, closerVars
<1>3. CASE TryPutLock(c)
  BY <1>3, <1>a, PuttingIsSafe, MovingIsSafe DEF TryPutLock, closerVars
<1>4. CASE GetLock(c)
  <2>1. CASE EndCreate(c)
    BY <1>4, <2>1, LeavingIsSafe DEF GetLock, InFlight, closerVars
  <2>2. CASE /\ lock # NoCreate /\ IsStale
             /\ seen' = [seen EXCEPT ![c] = lock]
             /\ Goto(c, "reclaim") /\ UNCHANGED <<age, undo>>
    <3> USE <1>4, <2>2 DEF GetLock, Goto, TypeOK, closerVars
    <3>1. TurnsTaken' /\ OneActive'
      BY DEF GateInvariant, TurnsTaken, InFlight, OneActive, Active
    <3>2. NewCreatesAreUnknown'
      BY DEF GateInvariant, NewCreatesAreUnknown, AtGate
    <3>3. HeldLocksAreFresh'
      BY DEF GateInvariant, HeldLocksAreFresh, HoldsLock, PastGate
    <3>4. ReclaimedLocksAreStale'
      BY DEF GateInvariant, ReclaimedLocksAreStale, IsStale
    <3>5. GateIsShut'
      BY DEF GateInvariant, GateIsShut, AtGate, PastGate
    <3> QED
      BY <3>1, <3>2, <3>3, <3>4, <3>5 DEF GateInvariant
  <2> QED
    BY <1>4, <2>1, <2>2 DEF GetLock
<1>5. CASE ReclaimLock(c)
  <2>1. CASE EndCreate(c) /\ UNCHANGED <<lock, lockAge>>
    BY <1>5, <2>1, LeavingIsSafe DEF ReclaimLock, InFlight, closerVars
  <2>2. CASE /\ lock = seen[c] /\ lock' = NoCreate /\ lockAge' = 0
             /\ Goto(c, "putAgain") /\ seen' = [seen EXCEPT ![c] = NoCreate]
             /\ UNCHANGED <<age, undo>>
    <3> USE <1>5, <2>2 DEF ReclaimLock, Goto, TypeOK, closerVars
    <3>0. lock \in Creates /\ lockAge >= StaleAfter
      BY DEF GateInvariant, ReclaimedLocksAreStale
    <3>1. \A d \in Creates : ~HoldsLock(d)
      BY <3>0, FreshLocksAreNotStale DEF GateInvariant, HeldLocksAreFresh
    <3>2. Active = {}
      <4> SUFFICES ASSUME NEW a \in Active PROVE FALSE
        OBVIOUS
      <4>1. lockAge < LambdaTimeout + age[c]
        BY DEF GateInvariant, GateIsShut, Active, AtGate
      <4> QED
        BY <4>1, <3>0, FreshLocksAreNotStale
    <3>3. TurnsTaken' /\ OneActive' /\ GateIsShut'
      BY <3>2 DEF GateInvariant, TurnsTaken, InFlight, OneActive, GateIsShut, Active
    <3>4. NewCreatesAreUnknown' /\ ReclaimedLocksAreStale'
      BY NoCreateAssumption
         DEF GateInvariant, NewCreatesAreUnknown, ReclaimedLocksAreStale, AtGate
    <3>5. HeldLocksAreFresh'
      BY <3>1 DEF HeldLocksAreFresh, HoldsLock, PastGate
    <3> QED
      BY <3>3, <3>4, <3>5 DEF GateInvariant
  <2> QED
    BY <1>5, <2>1, <2>2 DEF ReclaimLock
<1>6. CASE PutLockAgain(c)
  BY <1>6, <1>a, LeavingIsSafe, PuttingIsSafe DEF PutLockAgain, InFlight, closerVars
<1> QED
  BY <1>1, <1>2, <1>3, <1>4, <1>5, <1>6

\* Recording the investigation: whoever waits at the gate sees a fresh lock.
LEMMA RecordingIsSafe ==
  ASSUME TypeOK, GateInvariant, NEW c \in Creates, PutRecord(c) PROVE GateInvariant'
<1> USE DEF PutRecord, EndCreate, Goto, TypeOK, closerVars
<1>0. /\ HoldsLock(c) /\ lock = c /\ lockAge <= age[c]
      /\ Active = {}
      /\ \A d \in Creates : d # c => ~HoldsLock(d)
  BY DEF GateInvariant, HeldLocksAreFresh, GateIsShut, HoldsLock, PastGate, Active
<1>1. TurnsTaken'
  BY DEF GateInvariant, TurnsTaken, InFlight
<1>2. NewCreatesAreUnknown' /\ ReclaimedLocksAreStale'
  BY NoCreateAssumption
     DEF GateInvariant, NewCreatesAreUnknown, ReclaimedLocksAreStale, AtGate
<1>3. HeldLocksAreFresh'
  BY <1>0 DEF HeldLocksAreFresh, HoldsLock, PastGate
<1>4. GateIsShut'
  <2>1. \A a \in Creates : record'[a] = "active" => a = c
    BY <1>0 DEF Active
  <2>2. \A d \in Creates : create'[d] \notin PastGate
    BY <1>0 DEF HoldsLock, PastGate
  <2>3. \A d \in Creates : d # c => lockAge < LambdaTimeout + age[d]
    <3> SUFFICES ASSUME NEW d \in Creates PROVE lockAge < LambdaTimeout + age[d]
      OBVIOUS
    <3>1. /\ age[c] \in 0 .. LambdaTimeout - 1 /\ age[d] \in 0 .. LambdaTimeout - 1
          /\ lockAge \in 0 .. StaleAfter
      OBVIOUS
    <3> QED
      BY <1>0, <3>1, TimeAssumption
  <2> QED
    BY <1>0, <2>1, <2>2, <2>3 DEF GateIsShut, AtGate
<1>5. OneActive'
  BY <1>0 DEF OneActive, Active
<1> QED
  BY <1>1, <1>2, <1>3, <1>4, <1>5 DEF GateInvariant

\* A create's undo releases its own lock.
LEMMA UndoLockIsSafe ==
  ASSUME TypeOK, GateInvariant, NEW c \in Creates, UndoLock(c) PROVE GateInvariant'
<1> USE DEF UndoLock, ReleaseLock, TypeOK, closerVars
<1>0. /\ HoldsLock(c) /\ lock = c /\ create[c] = "undo"
      /\ \A d \in Creates : d # c => ~HoldsLock(d)
  BY DEF GateInvariant, HeldLocksAreFresh, HoldsLock
<1>1. /\ create'[c] \in {"undo", "idle"} /\ "lock" \notin undo'[c]
      /\ seen'[c] \in {seen[c], NoCreate}
      /\ \A d \in Creates : d # c => /\ create'[d] = create[d] /\ age'[d] = age[d]
                                     /\ seen'[d] = seen[d] /\ undo'[d] = undo[d]
  BY <1>0 DEF Undone, EndCreate, Goto
<1>2. TurnsTaken' /\ OneActive'
  BY <1>0, <1>1 DEF GateInvariant, TurnsTaken, InFlight, OneActive, Active
<1>3. NewCreatesAreUnknown' /\ ReclaimedLocksAreStale'
  BY <1>1, NoCreateAssumption
     DEF GateInvariant, NewCreatesAreUnknown, ReclaimedLocksAreStale, AtGate
<1>4. HeldLocksAreFresh'
  BY <1>0, <1>1 DEF HeldLocksAreFresh, HoldsLock, PastGate
<1>5. GateIsShut'
  BY <1>0, <1>1 DEF GateInvariant, GateIsShut, AtGate, PastGate
<1> QED
  BY <1>2, <1>3, <1>4, <1>5 DEF GateInvariant

\* The steps past the lock keep the gate shut.
LEMMA MakingSteps ==
  ASSUME TypeOK, GateInvariant, NEW c \in Creates,
         \/ UploadArtifacts(c) \/ CreateTask(c) \/ PutRecord(c)
         \/ UndoLock(c) \/ UndoTask(c) \/ UndoAsset(c)
         \/ CreateFault(c) \/ TaskEnds(c)
  PROVE  GateInvariant'
<1>a. /\ \A to \in {"createTask", "putRecord"} : to \in CreateStates \cap PastGate
      /\ "undo" \in CreateStates
  BY DEF CreateStates, PastGate
<1>1. CASE UploadArtifacts(c) \/ CreateTask(c)
  <2>1. create[c] \in PastGate
    BY <1>1 DEF UploadArtifacts, CreateTask, PastGate
  <2> QED
    BY <1>1, <1>a, <2>1, MovingIsSafe DEF UploadArtifacts, CreateTask, closerVars
<1>2. CASE CreateTaskFails(c) \/ PutRecordFails(c)
  <2>1. create[c] \in PastGate /\ UndoAll(c)
    BY <1>2 DEF CreateTaskFails, PutRecordFails, PastGate
  <2>2. \A d \in Creates : d # c => undo'[d] = undo[d]
    BY <2>1 DEF UndoAll, TypeOK
  <2> QED
    BY <1>a, <2>1, <2>2, MovingIsSafe DEF UndoAll, closerVars
<1>3. CASE \/ UndoTask(c) \/ UndoAsset(c) \/ UndoFails(c)
  <2>1. PICK what \in undo[c] : Undone(c, what)
    BY <1>3 DEF UndoTask, UndoAsset, UndoFails
  <2>2. UNCHANGED <<lock, lockAge, record, closer>> /\ InFlight(c)
    BY <1>3, <2>1 DEF UndoTask, UndoAsset, UndoFails, closerVars, TypeOK, InFlight
  <2>3. CASE EndCreate(c)
    BY <2>2, <2>3, LeavingIsSafe
  <2>4. CASE undo' = [undo EXCEPT ![c] = @ \ {what}] /\ UNCHANGED <<create, age, seen>>
    <3>1. \A d \in Creates : undo'[d] \subseteq undo[d]
      BY <2>4 DEF TypeOK
    <3> QED
      BY <2>2, <2>4, <3>1
         DEF GateInvariant, TurnsTaken, NewCreatesAreUnknown, HeldLocksAreFresh,
             ReclaimedLocksAreStale, GateIsShut, OneActive, Active, InFlight, HoldsLock
  <2> QED
    BY <2>1, <2>3, <2>4 DEF Undone
<1>4. CASE CreateCutOff(c)
  BY <1>4, LeavingIsSafe DEF CreateCutOff, closerVars
<1>5. CASE TaskEnds(c)
  BY <1>5, GateUntouched DEF TaskEnds, createVars, closerVars, gateVars
<1> QED
  BY <1>1, <1>2, <1>3, <1>4, <1>5, RecordingIsSafe, UndoLockIsSafe DEF CreateFault

\* Closers work while no create is in flight.
LEMMA ClosingSteps ==
  ASSUME TypeOK, GateInvariant, ClosersWait, NEW k \in Closers,
         \/ \E c \in Creates : BeginCancel(k, c) \/ BeginArchive(k, c)
         \/ CloserStep(k) \/ CloserCallFails(k) \/ CloserCutOff(k)
  PROVE  GateInvariant'
<1>1. \A c \in Creates : ~InFlight(c)
  BY DEF GateInvariant, TurnsTaken, BeginCancel, BeginArchive, MayClose, CloserStep,
         CancelTask, SetArchived, DeleteAsset, ReleaseActiveLock, CloserCallFails,
         CloserCutOff
<1>2. UNCHANGED <<create, age, seen, undo>>
  BY DEF BeginCancel, BeginArchive, CloserStep, CancelTask, SetArchived, DeleteAsset,
         ReleaseActiveLock, CloserCallFails, CloserCutOff, createVars
<1>3. \A c \in Creates : record'[c] = "active" => record[c] = "active"
  BY DEF BeginCancel, BeginArchive, CloserStep, CancelTask, SetArchived, DeleteAsset,
         ReleaseActiveLock, CloserCallFails, CloserCutOff, TypeOK
<1>4. \A c \in Creates : ~HoldsLock(c)
  BY <1>1, HoldersAreInFlight
<1>5. TurnsTaken' /\ HeldLocksAreFresh'
  BY <1>1, <1>2, <1>4 DEF TurnsTaken, InFlight, HeldLocksAreFresh, HoldsLock
<1>6. NewCreatesAreUnknown' /\ ReclaimedLocksAreStale'
  BY <1>1, <1>2 DEF NewCreatesAreUnknown, ReclaimedLocksAreStale, InFlight, AtGate
<1>7. GateIsShut'
  BY <1>1, <1>2 DEF GateIsShut, InFlight, AtGate, PastGate
<1>8. OneActive'
  BY <1>3 DEF GateInvariant, OneActive, Active
<1> QED
  BY <1>5, <1>6, <1>7, <1>8 DEF GateInvariant

\* A tick ages a request in flight as much as the lock.
LEMMA TickStep == ASSUME TypeOK, GateInvariant, Tick PROVE GateInvariant'
<1> USE DEF Tick, TypeOK, closerVars
<1>1. TurnsTaken' /\ NewCreatesAreUnknown' /\ OneActive'
  BY DEF GateInvariant, TurnsTaken, NewCreatesAreUnknown, OneActive, Active, InFlight
<1>2. /\ lockAge \in Nat /\ \A c \in Creates : age[c] \in Nat
      /\ lockAge <= lockAge' /\ lockAge' <= lockAge + 1
      /\ \A c \in Creates : InFlight(c) => age'[c] = age[c] + 1
  BY TimeAssumption
<1>3. HeldLocksAreFresh'
  <2> SUFFICES ASSUME NEW c \in Creates, HoldsLock(c)
               PROVE  lock = c /\ lockAge' <= age'[c]
    BY DEF HeldLocksAreFresh, HoldsLock
  <2>1. lock = c /\ lockAge <= age[c] /\ age'[c] = age[c] + 1
    BY <1>2, HoldersAreInFlight DEF GateInvariant, HeldLocksAreFresh
  <2> QED
    BY <1>2, <2>1
<1>4. ReclaimedLocksAreStale'
  BY <1>2, TimeAssumption DEF GateInvariant, ReclaimedLocksAreStale
<1>5. GateIsShut'
  <2> SUFFICES ASSUME NEW c \in Creates, NEW a \in Creates, record[a] = "active"
               PROVE  /\ create[a] = "idle"
                      /\ create[c] \notin PastGate
                      /\ create[c] \in AtGate =>
                           lock = a /\ lockAge' < LambdaTimeout + age'[c]
    BY DEF GateIsShut
  <2>1. CASE create[c] \in AtGate
    <3>1. lock = a /\ lockAge < LambdaTimeout + age[c] /\ age'[c] = age[c] + 1
      BY <1>2, <2>1 DEF GateInvariant, GateIsShut, InFlight, AtGate
    <3> QED
      BY <1>2, <3>1, TimeAssumption DEF GateInvariant, GateIsShut
  <2> QED
    BY <2>1 DEF GateInvariant, GateIsShut
<1> QED
  BY <1>1, <1>3, <1>4, <1>5 DEF GateInvariant

\* The gate stays shut: the inductive invariant, for any number of requests.
THEOREM GateHolds == ASSUME ClosersWait PROVE Spec => []GateInvariant
<1>1. Init => GateInvariant
  BY NoCreateAssumption
     DEF Init, GateInvariant, TurnsTaken, NewCreatesAreUnknown, HeldLocksAreFresh,
         ReclaimedLocksAreStale, GateIsShut, OneActive, Active, InFlight, HoldsLock,
         AtGate, PastGate
<1>2. TypeOK /\ GateInvariant /\ [Next]_vars => GateInvariant'
  <2> SUFFICES ASSUME TypeOK, GateInvariant, [Next]_vars PROVE GateInvariant'
    OBVIOUS
  <2>1. CASE \E c \in Creates : BeginCreate(c) \/ CreateStep(c) \/ CreateFault(c)
                                \/ TaskEnds(c)
    BY <2>1, GateSteps, MakingSteps DEF CreateStep
  <2>2. CASE \E k \in Closers : \/ \E c \in Creates : BeginCancel(k, c)
                                                      \/ BeginArchive(k, c)
                                \/ CloserStep(k) \/ CloserCallFails(k)
                                \/ CloserCutOff(k)
    BY <2>2, ClosingSteps
  <2>3. CASE Tick
    BY <2>3, TickStep
  <2>4. CASE UNCHANGED vars
    BY <2>4, GateUntouched DEF vars, gateVars
  <2> QED
    BY <2>1, <2>2, <2>3, <2>4 DEF Next
<1> QED
  BY <1>1, <1>2, LockTypeCorrect, PTL DEF Spec

\* If nothing is closed meanwhile, at most one investigation of a run is active.
THEOREM OneInvestigationActive == ASSUME ClosersWait PROVE Spec => []AtMostOneActive
<1>1. GateInvariant => AtMostOneActive
  <2> SUFFICES ASSUME OneActive PROVE Cardinality(Active) <= 1
    BY DEF GateInvariant, AtMostOneActive
  <2>1. CASE Active = {}
    BY <2>1, FS_EmptySet
  <2>2. CASE Active # {}
    <3>1. PICK a : a \in Active
      BY <2>2
    <3>2. Active = {a}
      BY <3>1 DEF OneActive
    <3> QED
      BY <3>2, FS_Singleton
  <2> QED
    BY <2>1, <2>2
<1> QED
  BY <1>1, GateHolds, PTL

\* If nothing is closed meanwhile, a create keeps its lock until it is done with it.
THEOREM CreatesKeepTheirLock ==
  ASSUME ClosersWait PROVE Spec => []InFlightCreateKeepsItsLock
<1>1. GateInvariant => InFlightCreateKeepsItsLock
  BY DEF GateInvariant, HeldLocksAreFresh, InFlightCreateKeepsItsLock
<1> QED
  BY <1>1, GateHolds, PTL

-------------------------------------------------------------------------------
(***************************************************************************)
(* Archiving, and what is left behind.  Requests of the two kinds may cross. *)
(***************************************************************************)

\* An answered request is in no state a create in flight is in.
LEMMA EndedCreate ==
  ASSUME TypeOK, NEW c \in Creates, EndCreate(c)
  PROVE  /\ create'[c] = "idle" /\ undo'[c] = {}
         /\ \A d \in Creates : d # c => create'[d] = create[d] /\ undo'[d] = undo[d]
  BY DEF EndCreate, Goto, TypeOK

\* The last piece of an undo ends the request, another one is only crossed off.
LEMMA UndoneMoves ==
  ASSUME TypeOK, NEW c \in Creates, NEW what \in undo[c], Undone(c, what)
  PROVE  /\ create[c] = "undo"
         /\ \/ create'[c] = "idle" /\ undo[c] = {what}
            \/ create'[c] = "undo" /\ undo'[c] = undo[c] \ {what}
         /\ \A d \in Creates : d # c => create'[d] = create[d] /\ undo'[d] = undo[d]
<1>1. create[c] = "undo"
  BY DEF TypeOK
<1>2. CASE undo[c] = {what}
  BY <1>1, <1>2, EndedCreate DEF Undone
<1>3. CASE undo[c] # {what}
  BY <1>1, <1>3 DEF Undone, TypeOK
<1> QED
  BY <1>1, <1>2, <1>3

\* A step that starts no request, makes no task and records nothing disturbs no
\* closer, if it lets tasks only end.
LEMMA ArchivingUndisturbed ==
  ASSUME TypeOK, ArchivingInvariant, UNCHANGED <<record, closerVars>>,
         \A c \in Creates : create[c] = "idle" => create'[c] = "idle",
         \A c \in Creates : create'[c] = "putRecord" => create[c] = "putRecord",
         \A c \in Creates : \/ task'[c] = task[c]
                            \/ task[c] = "OPEN" /\ task'[c] \in Terminal
  PROVE  ArchivingInvariant'
<1>1. RecordsComeLast'
  BY DEF ArchivingInvariant, RecordsComeLast, InFlight, Terminal
<1>2. TasksEndFirst'
  <2> SUFFICES ASSUME NEW k \in Closers, closer[k] # "idle"
               PROVE  /\ record[target[k]] # "none"
                      /\ closer[k] # "cancelTask" => task'[target[k]] \in Terminal
    BY DEF TasksEndFirst, closerVars
  <2>1. target[k] \in Creates
    BY DEF TypeOK
  <2> QED
    BY <2>1 DEF ArchivingInvariant, TasksEndFirst, Terminal
<1>3. ArchivedTasksHaveEnded'
  BY DEF ArchivingInvariant, ArchivedTasksHaveEnded, Terminal
<1> QED
  BY <1>1, <1>2, <1>3 DEF ArchivingInvariant

\* The steps of creates and of the agent keep the order of archiving.
LEMMA CreatesKeepArchiving ==
  ASSUME TypeOK, ArchivingInvariant, NEW c \in Creates,
         BeginCreate(c) \/ CreateStep(c) \/ CreateFault(c) \/ TaskEnds(c)
  PROVE  ArchivingInvariant'
<1>1. CASE BeginCreate(c)
  <2> USE <1>1 DEF BeginCreate, Goto, TypeOK, closerVars
  <2>1. RecordsComeLast'
    BY DEF ArchivingInvariant, RecordsComeLast, InFlight
  <2>2. TasksEndFirst'
    BY DEF ArchivingInvariant, TasksEndFirst
  <2>3. ArchivedTasksHaveEnded'
    BY DEF ArchivingInvariant, ArchivedTasksHaveEnded
  <2> QED
    BY <2>1, <2>2, <2>3 DEF ArchivingInvariant
<1>2. CASE CreateTask(c)
  <2> USE <1>2 DEF CreateTask, Goto, TypeOK, closerVars
  <2>0. record[c] = "none"
    BY DEF ArchivingInvariant, RecordsComeLast, InFlight
  <2>1. RecordsComeLast'
    BY <2>0 DEF ArchivingInvariant, RecordsComeLast, InFlight
  <2>2. TasksEndFirst'
    BY <2>0 DEF ArchivingInvariant, TasksEndFirst
  <2>3. ArchivedTasksHaveEnded'
    BY <2>0 DEF ArchivingInvariant, ArchivedTasksHaveEnded
  <2> QED
    BY <2>1, <2>2, <2>3 DEF ArchivingInvariant
<1>3. CASE PutRecord(c)
  <2> USE <1>3 DEF PutRecord, TypeOK, closerVars
  <2>0. record[c] = "none"
    BY DEF ArchivingInvariant, RecordsComeLast, InFlight
  <2>1. RecordsComeLast'
    BY EndedCreate DEF ArchivingInvariant, RecordsComeLast, InFlight
  <2>2. TasksEndFirst'
    BY <2>0 DEF ArchivingInvariant, TasksEndFirst
  <2>3. ArchivedTasksHaveEnded'
    BY <2>0 DEF ArchivingInvariant, ArchivedTasksHaveEnded
  <2> QED
    BY <2>1, <2>2, <2>3 DEF ArchivingInvariant
<1>4. CASE \/ PreCheck(c) \/ TryPutLock(c) \/ GetLock(c) \/ ReclaimLock(c)
            \/ PutLockAgain(c) \/ UploadArtifacts(c)
  <2>1. UNCHANGED <<record, task, closerVars>>
    BY <1>4 DEF PreCheck, TryPutLock, GetLock, ReclaimLock, PutLockAgain,
                UploadArtifacts
  <2>2. /\ create[c] # "idle" /\ create'[c] # "putRecord"
        /\ \A d \in Creates : d # c => create'[d] = create[d]
    BY <1>4 DEF PreCheck, TryPutLock, GetLock, ReclaimLock, PutLockAgain,
                UploadArtifacts, EndCreate, Goto, TypeOK
  <2> QED
    BY <2>1, <2>2, ArchivingUndisturbed
<1>5. CASE UndoLock(c) \/ UndoTask(c) \/ UndoAsset(c) \/ UndoFails(c)
  <2>1. PICK what \in undo[c] : Undone(c, what)
    BY <1>5 DEF UndoLock, UndoTask, UndoAsset, UndoFails
  <2>2. UNCHANGED <<record, closerVars>>
    BY <1>5 DEF UndoLock, UndoTask, UndoAsset, UndoFails
  <2>3. \A d \in Creates : \/ task'[d] = task[d]
                           \/ task[d] = "OPEN" /\ task'[d] \in Terminal
    BY <1>5 DEF UndoLock, UndoTask, UndoAsset, UndoFails, TypeOK, Terminal
  <2>4. /\ create[c] # "idle" /\ create'[c] # "putRecord"
        /\ \A d \in Creates : d # c => create'[d] = create[d]
    BY <2>1, UndoneMoves
  <2> QED
    BY <2>2, <2>3, <2>4, ArchivingUndisturbed
<1>6. CASE CreateTaskFails(c) \/ PutRecordFails(c) \/ CreateCutOff(c)
  <2>1. UNCHANGED <<record, task, closerVars>>
    BY <1>6 DEF CreateTaskFails, PutRecordFails, UndoAll, CreateCutOff
  <2>2. /\ create[c] # "idle" /\ create'[c] # "putRecord"
        /\ \A d \in Creates : d # c => create'[d] = create[d]
    BY <1>6 DEF CreateTaskFails, PutRecordFails, UndoAll, CreateCutOff, EndCreate,
                Goto, TypeOK, InFlight
  <2> QED
    BY <2>1, <2>2, ArchivingUndisturbed
<1>7. CASE TaskEnds(c)
  <2>1. \A d \in Creates : \/ task'[d] = task[d]
                           \/ task[d] = "OPEN" /\ task'[d] \in Terminal
    BY <1>7 DEF TaskEnds, TypeOK, Terminal
  <2> QED
    BY <1>7, <2>1, ArchivingUndisturbed DEF TaskEnds, createVars
<1> QED
  BY <1>1, <1>2, <1>3, <1>4, <1>5, <1>6, <1>7 DEF CreateStep, CreateFault

\* So do the steps of closers: a task has ended before its record is archived.
LEMMA ClosersKeepArchiving ==
  ASSUME TypeOK, ArchivingInvariant, NEW k \in Closers,
         \/ \E c \in Creates : BeginCancel(k, c) \/ BeginArchive(k, c)
         \/ CloserStep(k) \/ CloserCallFails(k) \/ CloserCutOff(k)
  PROVE  ArchivingInvariant'
<1>1. CASE \E c \in Creates : BeginCancel(k, c) \/ BeginArchive(k, c)
  <2> PICK c \in Creates : BeginCancel(k, c) \/ BeginArchive(k, c)
    BY <1>1
  <2>1. /\ target'[k] = c /\ record[c] # "none"
        /\ closer'[k] # "cancelTask" => task[c] \in Terminal
        /\ \A m \in Closers : m # k => closer'[m] = closer[m] /\ target'[m] = target[m]
        /\ UNCHANGED <<record, task, create>>
    BY DEF BeginCancel, BeginArchive, Close, TypeOK, createVars, ArchivingInvariant,
           RecordsComeLast, Terminal
  <2> QED
    BY <2>1 DEF ArchivingInvariant, RecordsComeLast, TasksEndFirst,
                ArchivedTasksHaveEnded, InFlight
<1>2. CASE CancelTask(k)
  <2> USE <1>2 DEF CancelTask, CloserGoes, EndClose, TypeOK, createVars, Terminal
  <2>1. RecordsComeLast'
    BY DEF ArchivingInvariant, RecordsComeLast, InFlight
  <2>2. TasksEndFirst'
    BY DEF ArchivingInvariant, TasksEndFirst
  <2>3. ArchivedTasksHaveEnded'
    BY DEF ArchivingInvariant, ArchivedTasksHaveEnded
  <2> QED
    BY <2>1, <2>2, <2>3 DEF ArchivingInvariant
<1>3. CASE SetArchived(k)
  <2> USE <1>3 DEF SetArchived, CloserGoes, TypeOK, createVars
  <2>0. /\ target[k] \in Creates /\ record[target[k]] # "none"
        /\ task[target[k]] \in Terminal
    BY DEF ArchivingInvariant, TasksEndFirst
  <2>1. RecordsComeLast'
    BY <2>0 DEF ArchivingInvariant, RecordsComeLast, InFlight
  <2>2. TasksEndFirst'
    BY <2>0 DEF ArchivingInvariant, TasksEndFirst
  <2>3. ArchivedTasksHaveEnded'
    BY <2>0 DEF ArchivingInvariant, ArchivedTasksHaveEnded
  <2> QED
    BY <2>1, <2>2, <2>3 DEF ArchivingInvariant
<1>4. CASE DeleteAsset(k) \/ ReleaseActiveLock(k) \/ CloserCallFails(k) \/ CloserCutOff(k)
  <2>1. /\ closer'[k] \in {"idle", "release"} /\ closer[k] # "idle"
        /\ closer'[k] = "release" => closer[k] = "deleteAsset" /\ target'[k] = target[k]
        /\ \A m \in Closers : m # k => closer'[m] = closer[m] /\ target'[m] = target[m]
        /\ UNCHANGED <<record, task, create>>
    BY <1>4 DEF DeleteAsset, ReleaseActiveLock, CloserCallFails, CloserCutOff,
                CloserGoes, EndClose, TypeOK, createVars
  <2> QED
    BY <2>1 DEF ArchivingInvariant, RecordsComeLast, TasksEndFirst,
                ArchivedTasksHaveEnded, InFlight
<1> QED
  BY <1>1, <1>2, <1>3, <1>4 DEF CloserStep

\* It holds of every behaviour, whoever closes what.
LEMMA ArchivingHolds == Spec => []ArchivingInvariant
<1>1. Init => ArchivingInvariant
  BY DEF Init, ArchivingInvariant, RecordsComeLast, TasksEndFirst,
         ArchivedTasksHaveEnded, InFlight
<1>2. TypeOK /\ ArchivingInvariant /\ [Next]_vars => ArchivingInvariant'
  <2> SUFFICES ASSUME TypeOK, ArchivingInvariant, [Next]_vars PROVE ArchivingInvariant'
    OBVIOUS
  <2>1. CASE \E c \in Creates : BeginCreate(c) \/ CreateStep(c) \/ CreateFault(c)
                                \/ TaskEnds(c)
    BY <2>1, CreatesKeepArchiving
  <2>2. CASE \E k \in Closers : \/ \E c \in Creates : BeginCancel(k, c)
                                                      \/ BeginArchive(k, c)
                                \/ CloserStep(k) \/ CloserCallFails(k)
                                \/ CloserCutOff(k)
    BY <2>2, ClosersKeepArchiving
  <2>3. CASE Tick \/ UNCHANGED vars
    BY <2>3, ArchivingUndisturbed DEF Tick, vars, closerVars
  <2> QED
    BY <2>1, <2>2, <2>3 DEF Next
<1> QED
  BY <1>1, <1>2, LockTypeCorrect, PTL DEF Spec

\* An archived investigation is one the agent is done with: for any number of
\* creates and closers that cross in any order, and whatever is lost.
THEOREM ArchivedInvestigationsAreOver == Spec => []ArchivedTasksHaveEnded
<1>1. ArchivingInvariant => ArchivedTasksHaveEnded
  BY DEF ArchivingInvariant
<1> QED
  BY <1>1, ArchivingHolds, PTL

-------------------------------------------------------------------------------
\* No step gives a create something before its time.
LEMMA MakingInOrder ==
  ASSUME TypeOK, MadeInOrder, [Next]_vars PROVE MadeInOrder'
<1> USE DEF MadeInOrder, AtGate, TypeOK
<1>1. ASSUME NEW c \in Creates, BeginCreate(c) PROVE MadeInOrder'
  BY <1>1 DEF BeginCreate, Goto
<1>2. ASSUME NEW c \in Creates,
             PreCheck(c) \/ TryPutLock(c) \/ GetLock(c) \/ ReclaimLock(c) \/ PutLockAgain(c)
      PROVE  MadeInOrder'
  <2>1. UNCHANGED <<task, asset>>
    BY <1>2 DEF PreCheck, TryPutLock, GetLock, ReclaimLock, PutLockAgain
  <2>2. /\ create[c] \in AtGate \cup {"check"}
        /\ create'[c] \in AtGate \cup {"idle", "upload"}
        /\ create'[c] # "upload" => lock' \in {lock, NoCreate}
        /\ create'[c] = "upload" => lock' \in {lock, c}
        /\ \A d \in Creates : d # c => create'[d] = create[d]
    BY <1>2 DEF PreCheck, TryPutLock, GetLock, ReclaimLock, PutLockAgain, PutLock,
                EndCreate, Goto
  <2> QED
    BY <2>1, <2>2, NoCreateAssumption
<1>3. ASSUME NEW c \in Creates, UploadArtifacts(c) \/ CreateTask(c) PROVE MadeInOrder'
  BY <1>3 DEF UploadArtifacts, CreateTask, Goto
<1>4. ASSUME NEW c \in Creates, PutRecord(c) \/ CreateCutOff(c) PROVE MadeInOrder'
  BY <1>4, EndedCreate DEF PutRecord, CreateCutOff
<1>5. ASSUME NEW c \in Creates, CreateTaskFails(c) \/ PutRecordFails(c)
      PROVE  MadeInOrder'
  BY <1>5 DEF CreateTaskFails, PutRecordFails, UndoAll, Goto
<1>6. ASSUME NEW c \in Creates, UndoLock(c) \/ UndoTask(c) \/ UndoAsset(c) \/ UndoFails(c)
      PROVE  MadeInOrder'
  <2>1. PICK what \in undo[c] : Undone(c, what)
    BY <1>6 DEF UndoLock, UndoTask, UndoAsset, UndoFails
  <2>2. /\ create[c] = "undo" /\ create'[c] \in {"idle", "undo"}
        /\ \A d \in Creates : d # c => create'[d] = create[d]
    BY <2>1, UndoneMoves
  <2>3. /\ asset' \subseteq asset /\ lock' \in {lock, NoCreate}
        /\ \A d \in Creates : d # c => task'[d] = task[d]
    BY <1>6 DEF UndoLock, UndoTask, UndoAsset, UndoFails, ReleaseLock
  <2> QED
    BY <2>2, <2>3, NoCreateAssumption
<1>7. ASSUME NEW c \in Creates, TaskEnds(c) PROVE MadeInOrder'
  BY <1>7 DEF TaskEnds, createVars
<1>8. ASSUME NEW k \in Closers,
             \/ \E c \in Creates : BeginCancel(k, c) \/ BeginArchive(k, c)
             \/ CloserStep(k) \/ CloserCallFails(k) \/ CloserCutOff(k)
      PROVE  MadeInOrder'
  <2>1. /\ create' = create /\ asset' \subseteq asset /\ lock' \in {lock, NoCreate}
        /\ \A d \in Creates : task'[d] = task[d] \/ task[d] = "OPEN"
    BY <1>8 DEF BeginCancel, BeginArchive, CloserStep, CancelTask, SetArchived,
                DeleteAsset, ReleaseActiveLock, ReleaseLock, CloserCallFails,
                CloserCutOff, createVars
  <2> QED
    BY <2>1, NoCreateAssumption
<1>9. ASSUME Tick \/ UNCHANGED vars PROVE MadeInOrder'
  BY <1>9 DEF Tick, vars
<1> QED
  BY <1>1, <1>2, <1>3, <1>4, <1>5, <1>6, <1>7, <1>8, <1>9
     DEF Next, CreateStep, CreateFault

\* As long as nothing is lost, no step of a create leaves anything uncovered.
LEMMA CreatesCoverAll ==
  ASSUME TypeOK, ArchivingInvariant, MadeInOrder, UndoCovers, ClosersCover,
         NEW c \in Creates, BeginCreate(c) \/ CreateStep(c) \/ CreateFault(c) \/ TaskEnds(c),
         losses' = losses
  PROVE  UndoCovers' /\ ClosersCover'
<1> USE DEF UndoCovers, ClosersCover, InFlight, TypeOK, closerVars
<1>1. CASE BeginCreate(c)
  BY <1>1 DEF BeginCreate, Goto
<1>2. CASE PreCheck(c) \/ TryPutLock(c) \/ GetLock(c) \/ ReclaimLock(c) \/ PutLockAgain(c)
  <2>1. UNCHANGED <<record, task, asset, closerVars>>
    BY <1>2 DEF PreCheck, TryPutLock, GetLock, ReclaimLock, PutLockAgain
  <2>2. /\ create[c] \in AtGate \cup {"check"}
        /\ create'[c] \in AtGate \cup {"idle", "upload"}
        /\ create'[c] = "upload" => lock' \in {lock, c}
        /\ create'[c] # "upload" => lock' \in {lock, NoCreate}
        /\ \A d \in Creates : d # c => create'[d] = create[d] /\ undo'[d] = undo[d]
    BY <1>2 DEF PreCheck, TryPutLock, GetLock, ReclaimLock, PutLockAgain, PutLock,
                EndCreate, Goto, AtGate
  <2>3. lock # c /\ c \notin asset /\ task[c] = "none"
    BY <2>2 DEF MadeInOrder, AtGate
  <2>4. UndoCovers'
    BY <2>1, <2>2, <2>3, NoCreateAssumption DEF AtGate
  <2>5. ClosersCover'
    BY <2>1, <2>2, <2>3, NoCreateAssumption DEF AtGate
  <2> QED
    BY <2>4, <2>5
<1>3. CASE UploadArtifacts(c) \/ CreateTask(c)
  <2>1. /\ create[c] \in {"upload", "createTask"}
        /\ create'[c] \in {"createTask", "putRecord"}
        /\ \A d \in Creates : d # c => /\ create'[d] = create[d] /\ task'[d] = task[d]
                                       /\ d \in asset' <=> d \in asset
        /\ UNCHANGED <<undo, lock, record, closerVars>>
    BY <1>3 DEF UploadArtifacts, CreateTask, Goto
  <2> QED
    BY <2>1
<1>4. CASE PutRecord(c)
  BY <1>4, EndedCreate DEF PutRecord
<1>5. CASE CreateTaskFails(c) \/ PutRecordFails(c)
  <2>1. UndoAll(c) /\ create[c] # "undo" /\ create[c] # "idle"
    BY <1>5 DEF CreateTaskFails, PutRecordFails
  <2> QED
    BY <2>1 DEF UndoAll, Goto
<1>6. CASE UndoLock(c) \/ UndoTask(c) \/ UndoAsset(c)
  <2>1. PICK what \in undo[c] :
          /\ Undone(c, what)
          /\ what = "lock" => lock' = NoCreate
          /\ what = "task" => task'[c] # "OPEN"
          /\ what = "asset" => c \notin asset'
    BY <1>6 DEF UndoLock, UndoTask, UndoAsset, ReleaseLock
  <2>2. /\ lock' \in {lock, NoCreate} /\ asset' \subseteq asset
        /\ task'[c] = "OPEN" => task[c] = "OPEN"
        /\ \A d \in Creates : d # c => /\ task'[d] = task[d]
                                       /\ d \in asset' <=> d \in asset
        /\ UNCHANGED <<record, closerVars>>
    BY <1>6 DEF UndoLock, UndoTask, UndoAsset, ReleaseLock
  <2>3. /\ create[c] = "undo"
        /\ \/ create'[c] = "idle" /\ undo[c] = {what}
           \/ create'[c] = "undo" /\ undo'[c] = undo[c] \ {what}
        /\ \A d \in Creates : d # c => create'[d] = create[d] /\ undo'[d] = undo[d]
    BY <2>1, UndoneMoves
  <2>4. UndoCovers'
    BY <2>1, <2>2, <2>3, NoCreateAssumption
  <2>5. ClosersCover'
    BY <2>1, <2>2, <2>3, NoCreateAssumption
  <2> QED
    BY <2>4, <2>5
<1>7. CASE UndoFails(c) \/ CreateCutOff(c)
  BY <1>7, LossAssumption DEF UndoFails, CreateCutOff, Lose
<1>8. CASE TaskEnds(c)
  BY <1>8 DEF TaskEnds, createVars
<1> QED
  BY <1>1, <1>2, <1>3, <1>4, <1>5, <1>6, <1>7, <1>8 DEF CreateStep, CreateFault

\* Nor does a step of a closer.
LEMMA ClosersCoverAll ==
  ASSUME TypeOK, ArchivingInvariant, UndoCovers, ClosersCover, NEW k \in Closers,
         \/ \E c \in Creates : BeginCancel(k, c) \/ BeginArchive(k, c)
         \/ CloserStep(k) \/ CloserCallFails(k) \/ CloserCutOff(k),
         losses' = losses
  PROVE  UndoCovers' /\ ClosersCover'
<1> USE DEF UndoCovers, ClosersCover, InFlight, TypeOK, createVars
<1>1. CASE \E c \in Creates : BeginCancel(k, c) \/ BeginArchive(k, c)
  <2>1. /\ closer[k] = "idle"
        /\ \A m \in Closers : m # k => closer'[m] = closer[m] /\ target'[m] = target[m]
        /\ UNCHANGED <<lock, record, task, asset, createVars>>
    BY <1>1 DEF BeginCancel, BeginArchive, Close
  <2> QED
    BY <2>1
<1>2. CASE CancelTask(k)
  <2>1. /\ closer[k] = "cancelTask" /\ target[k] \in Creates
        /\ \A m \in Closers : m # k => closer'[m] = closer[m] /\ target'[m] = target[m]
        /\ \A d \in Creates : task'[d] = "OPEN" => task[d] = "OPEN"
        /\ UNCHANGED <<lock, record, asset, createVars>>
    BY <1>2 DEF CancelTask, CloserGoes, EndClose
  <2> QED
    BY <2>1
<1>3. CASE SetArchived(k)
  <2>1. /\ closer[k] = "setArchived" /\ closer'[k] = "deleteAsset"
        /\ target' = target /\ task[target[k]] \in Terminal /\ record'[target[k]] = "archived"
        /\ \A m \in Closers : m # k => closer'[m] = closer[m]
        /\ \A d \in Creates : d # target[k] => record'[d] = record[d]
        /\ UNCHANGED <<lock, task, asset, createVars>>
    BY <1>3 DEF SetArchived, CloserGoes, ArchivingInvariant, TasksEndFirst
  <2> QED
    BY <2>1 DEF Terminal
<1>4. CASE DeleteAsset(k)
  <2>1. /\ closer[k] = "deleteAsset" /\ closer'[k] = "release"
        /\ target' = target /\ asset' = asset \ {target[k]}
        /\ \A m \in Closers : m # k => closer'[m] = closer[m]
        /\ UNCHANGED <<lock, task, record, createVars>>
    BY <1>4 DEF DeleteAsset, CloserGoes
  <2> QED
    BY <2>1
<1>5. CASE ReleaseActiveLock(k)
  <2>1. /\ closer[k] = "release" /\ lock' = NoCreate
        /\ \A m \in Closers : m # k => closer'[m] = closer[m] /\ target'[m] = target[m]
        /\ UNCHANGED <<asset, task, record, createVars>>
    BY <1>5 DEF ReleaseActiveLock, ReleaseLock, EndClose
  <2> QED
    BY <2>1, NoCreateAssumption
<1>6. CASE CloserCallFails(k) \/ CloserCutOff(k)
  BY <1>6, LossAssumption DEF CloserCallFails, CloserCutOff, Lose
<1> QED
  BY <1>1, <1>2, <1>3, <1>4, <1>5, <1>6 DEF CloserStep

\* Unless work is lost, an answered request leaves no lock, open task or asset
\* that no active investigation owns: for any number of requests that cross in
\* any order and fail at any call.
THEOREM NothingLeftBehind == Spec => []NothingIsLeftBehind
<1>1. Init => ArchivingInvariant /\ LeftoverInvariant
  BY NoCreateAssumption
     DEF Init, ArchivingInvariant, RecordsComeLast, TasksEndFirst,
         ArchivedTasksHaveEnded, InFlight, LeftoverInvariant, MadeInOrder, UndoCovers,
         ClosersCover, AtGate
<1>2. TypeOK /\ ArchivingInvariant /\ LeftoverInvariant /\ [Next]_vars => LeftoverInvariant'
  <2> SUFFICES ASSUME TypeOK, ArchivingInvariant, LeftoverInvariant, [Next]_vars
               PROVE  LeftoverInvariant'
    OBVIOUS
  <2>1. MadeInOrder'
    BY MakingInOrder DEF LeftoverInvariant
  <2>2. losses' \in {losses, losses + 1}
    <3>1. ASSUME NEW c \in Creates,
                 BeginCreate(c) \/ CreateStep(c) \/ CreateFault(c) \/ TaskEnds(c)
          PROVE  losses' \in {losses, losses + 1}
      BY <3>1 DEF BeginCreate, CreateStep, PreCheck, TryPutLock, GetLock, ReclaimLock,
                  PutLockAgain, UploadArtifacts, CreateTask, PutRecord, UndoLock,
                  UndoTask, UndoAsset, CreateFault, CreateTaskFails, PutRecordFails,
                  UndoAll, UndoFails, CreateCutOff, TaskEnds, Lose
    <3>2. ASSUME NEW k \in Closers,
                 \/ \E c \in Creates : BeginCancel(k, c) \/ BeginArchive(k, c)
                 \/ CloserStep(k) \/ CloserCallFails(k) \/ CloserCutOff(k)
          PROVE  losses' \in {losses, losses + 1}
      BY <3>2 DEF BeginCancel, BeginArchive, CloserStep, CancelTask, SetArchived,
                  DeleteAsset, ReleaseActiveLock, CloserCallFails, CloserCutOff, Lose
    <3> QED
      BY <3>1, <3>2 DEF Next, Tick, vars
  <2>3. ASSUME losses' = 0 PROVE losses = 0 /\ losses' = losses
    BY <2>2, <2>3, LossAssumption DEF TypeOK
  <2>4. ASSUME losses' = 0 PROVE UndoCovers' /\ ClosersCover'
    <3>1. CASE \E c \in Creates : BeginCreate(c) \/ CreateStep(c) \/ CreateFault(c)
                                  \/ TaskEnds(c)
      BY <2>3, <2>4, <3>1, CreatesCoverAll DEF LeftoverInvariant
    <3>2. CASE \E k \in Closers : \/ \E c \in Creates : BeginCancel(k, c)
                                                        \/ BeginArchive(k, c)
                                  \/ CloserStep(k) \/ CloserCallFails(k)
                                  \/ CloserCutOff(k)
      BY <2>3, <2>4, <3>2, ClosersCoverAll DEF LeftoverInvariant
    <3>3. CASE Tick \/ UNCHANGED vars
      BY <2>3, <2>4, <3>3
         DEF Tick, vars, closerVars, LeftoverInvariant, UndoCovers, ClosersCover, InFlight
    <3> QED
      BY <3>1, <3>2, <3>3 DEF Next
  <2> QED
    BY <2>1, <2>4 DEF LeftoverInvariant
<1>3. TypeOK /\ ArchivingInvariant /\ LeftoverInvariant => NothingIsLeftBehind
  BY DEF LeftoverInvariant, ClosersCover, NothingIsLeftBehind, Settled, InFlight
<1> QED
  BY <1>1, <1>2, <1>3, LockTypeCorrect, ArchivingHolds, PTL DEF Spec
===============================================================================
