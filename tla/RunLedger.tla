------------------------------ MODULE RunLedger -------------------------------
(***************************************************************************)
(* What the execution of a run promises to whoever reads the history of a  *)
(* scenario: a run is recorded at most once, gets at most one outcome, the *)
(* outcome agrees with how its execution ended, and the scenario's counter *)
(* never runs ahead of the records.  TestExecution implements it.          *)
(***************************************************************************)
EXTENDS Naturals, FiniteSets

CONSTANT Runs

VARIABLES
  exec,    \* the status of each run's execution
  record,  \* what the history says of each run
  total    \* the number of runs counted

ledger == <<exec, record, total>>

Outcomes == {"complete", "cancelled", "failed"}

Init ==
  /\ exec = [run \in Runs |-> "none"]
  /\ record = [run \in Runs |-> "absent"]
  /\ total = 0

Begin(run) ==
  /\ exec[run] = "none"
  /\ exec' = [exec EXCEPT ![run] = "RUNNING"]
  /\ UNCHANGED <<record, total>>

\* A run that never got to work may be recorded as failed at once.
Record(run) ==
  /\ exec[run] # "none" /\ record[run] = "absent"
  /\ \E r \in {"underWay", "failed"} : record' = [record EXCEPT ![run] = r]
  /\ UNCHANGED <<exec, total>>

\* "complete" comes from an execution that got to its last state, "cancelled" from
\* outside one that is over.
MayConclude(run, outcome) ==
  /\ outcome = "complete" => exec[run] \in {"RUNNING", "ABORTED"}
  /\ outcome = "cancelled" => exec[run] \in {"FAILED", "ABORTED"}

Conclude(run) ==
  /\ record[run] = "underWay"
  /\ \E outcome \in Outcomes : /\ MayConclude(run, outcome)
                               /\ record' = [record EXCEPT ![run] = outcome]
  /\ UNCHANGED <<exec, total>>

\* An execution succeeds when its run is recorded as complete or failed.
End(run) ==
  /\ exec[run] = "RUNNING"
  /\ \E as \in {"SUCCEEDED", "FAILED", "ABORTED"} :
       /\ as = "SUCCEEDED" => record[run] \in {"complete", "failed"}
       /\ exec' = [exec EXCEPT ![run] = as]
  /\ UNCHANGED <<record, total>>

Recorded == {run \in Runs : record[run] # "absent"}

Count ==
  /\ total < Cardinality(Recorded)
  /\ total' = total + 1
  /\ UNCHANGED <<exec, record>>

Next ==
  \/ \E run \in Runs : Begin(run) \/ Record(run) \/ Conclude(run) \/ End(run)
  \/ Count

Spec == Init /\ [][Next]_ledger
===============================================================================
