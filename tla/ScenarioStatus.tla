---------------------------- MODULE ScenarioStatus ----------------------------
(***************************************************************************)
(* The `status' attribute of a test scenario (ScenariosTable, one item per *)
(* testId) and of a run (HistoryTable, one item per testRunId), and what   *)
(* each kind of writer leaves in it.                                       *)
(*                                                                         *)
(* DynamoDB applies one UpdateItem atomically: a conditional update either *)
(* finds its condition true and writes, or leaves the item alone and       *)
(* raises ConditionalCheckFailedException, which every caller below        *)
(* swallows.  So a conditional writer is a function from the value it      *)
(* finds to the value it leaves.  Writers without a condition (task-runner,*)
(* task-status-checker, results-parser, the API) need no operator.         *)
(***************************************************************************)

\* The statuses nothing is supposed to follow.
Terminal == {"complete", "cancelled", "failed"}

\* TestStatus, and the two statuses only the API writes.
Status == Terminal \cup
  {"queued", "provisioning", "running", "parsing results", "cleaning up",
   "cancelling", "created", "scheduled"}

\* A run has no history item until somebody writes one.
Absent == "absent"
HistoryStatus == Status \cup {Absent}

\* test-metadata-updater: terminal values stay, everything else is replaced;
\* an item without a status satisfies `#s <> :complete', so the write creates it.
MetadataWriteUnguarded(found, new) == new

MetadataWrite(found, new) == IF found \in Terminal THEN found ELSE new

\* test-cleanup: terminal values stay, and only a write of "cancelled" may
\* replace "cancelling".
CleanupMayNotCancel(found, new) == found \notin Terminal \cup {"cancelling"}

CleanupMayWrite(found, new) ==
  /\ found \notin Terminal
  /\ new = "cancelled" \/ found # "cancelling"

CleanupWrite(found, new) == IF CleanupMayWrite(found, new) THEN new ELSE found

\* test-cleanup on the history item: attribute_exists(testId) as well.
CleanupHistoryWriteUnguarded(found, new) ==
  IF found = Absent THEN Absent ELSE new

CleanupHistoryWrite(found, new) ==
  IF found = Absent THEN Absent ELSE CleanupWrite(found, new)

\* task-canceler when it finds no execution to stop.
NothingToCancelSkip(found) == found

NothingToCancelWrite(found) == IF found = "cancelling" THEN "cancelled" ELSE found

\* task-failure-handler when the healthy threshold is breached.
ThresholdWrite(found) == IF found = "running" THEN "failed" ELSE found
===============================================================================
