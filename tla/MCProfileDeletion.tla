-------------------------- MODULE MCProfileDeletion --------------------------
(***************************************************************************)
(* Model checking ProfileDeletion: two profiles, the one deleted and its   *)
(* successor, and crashes of either kind.                                  *)
(***************************************************************************)
EXTENDS ProfileDeletion, TLC

CONSTANTS p1, p2

MCProfiles == {p1, p2}

OneKind  == {{"process"}, {"power"}}
Symmetry == Permutations(MCProfiles)
=============================================================================
