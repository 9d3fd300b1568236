---------------------------- MODULE StrategyRunMC ----------------------------
(* Small instances of StrategyRun for TLC. *)
EXTENDS StrategyRun, TLC

Symmetry == Permutations(Tasks)
=============================================================================
