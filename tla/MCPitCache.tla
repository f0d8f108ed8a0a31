----------------------------- MODULE MCPitCache -----------------------------
(***************************************************************************)
(* The facts of Statement, for PitCache.                                   *)
(***************************************************************************)
EXTENDS PitCache, MCFilings, Functions

CONSTANTS a, t

Listed == {"first", "third", "sales", "services"}
FilingOfListed == Restrict(FilingOfKey, Listed)
TagOfListed == Restrict(TagOfKey, Listed)
FieldOfListed == Restrict(FieldOfKey, Listed)
=============================================================================
