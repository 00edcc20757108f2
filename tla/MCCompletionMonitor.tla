------------------------- MODULE MCCompletionMonitor --------------------------
(***************************************************************************)
(* An instance of CompletionMonitor for TLC.                               *)
(***************************************************************************)
EXTENDS CompletionMonitor

\* Of two tasks one may fail, which is just enough healthy ones; two failures
\* are a breach.
HalfHealthy == 50
===============================================================================
