---------------------------- MODULE MCOrphanCleanup ----------------------------
(***************************************************************************)
(* Instances of OrphanCleanup for TLC.                                     *)
(***************************************************************************)
EXTENDS OrphanCleanup, TLC

\* A run is started when no other is under way, as the web console does.
WhenIdle == {"created", "scheduled", "complete", "cancelled", "failed"}
================================================================================
