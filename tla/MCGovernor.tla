----------------------------- MODULE MCGovernor -----------------------------
(* Instances of Governor for TLC. *)
EXTENDS Governor, TLC

NetworkSymmetry == Permutations(Prefix)
NoFigures == {}
OneFigure == {[compute |-> 0, egress |-> 0]}
=============================================================================
