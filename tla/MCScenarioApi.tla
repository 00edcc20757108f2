---------------------------- MODULE MCScenarioApi -----------------------------
(***************************************************************************)
(* Instances of ScenarioApi for TLC: what the users keep apart.  No pair   *)
(* of UsersKeepApart and no operation of StatusOps can be left out.        *)
(***************************************************************************)
EXTENDS ScenarioApi, TLC

Symmetry == Permutations(Requests) \cup Permutations(Runs)
===============================================================================
