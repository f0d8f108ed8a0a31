--------------------------- MODULE MCFactVersions ---------------------------
(***************************************************************************)
(* Model values and symmetry for FactVersions.                             *)
(***************************************************************************)
EXTENDS FactVersions, MCFilings, TLC

CONSTANTS a, b
Alike == Permutations({a, b})
=============================================================================
