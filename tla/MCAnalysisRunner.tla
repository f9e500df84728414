-------------------------- MODULE MCAnalysisRunner --------------------------
(* Instances of AnalysisRunner for TLC. *)
EXTENDS AnalysisRunner, TLC

Symmetry == Permutations(Task) \cup Permutations(Client)
=============================================================================
