-------------------------- MODULE MCInvestigationLock -------------------------
(***************************************************************************)
(* Instances of InvestigationLock for TLC.                                 *)
(***************************************************************************)
EXTENDS InvestigationLock, TLC

CreateSymmetry == Permutations(Creates) \cup Permutations(Closers)
===============================================================================
