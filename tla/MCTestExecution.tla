---------------------------- MODULE MCTestExecution ---------------------------
(***************************************************************************)
(* Instances of TestExecution for TLC.                                     *)
(***************************************************************************)
EXTENDS TestExecution, TLC

\* The regions of a scenario are treated alike.
RegionSymmetry == Permutations(Regions)
RunSymmetry == Permutations(Runs)

\* A run is started when no other is under way, as the web console does.
WhenIdle == {"created", "scheduled", "complete", "cancelled", "failed"}

\* A run is started whatever the status: the API does not look at it.
AnyTime == Status
===============================================================================
