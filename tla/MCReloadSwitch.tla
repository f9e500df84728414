--------------------------- MODULE MCReloadSwitch ---------------------------
(* Instances of ReloadSwitch for TLC. *)
EXTENDS ReloadSwitch, TLC

OneTable == <<"respondents">>
TwoTables == <<"respondents", "activities">>
Symmetry == Permutations(Loader) \cup Permutations(Reader)
=============================================================================
