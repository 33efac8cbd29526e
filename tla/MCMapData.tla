----------------------------- MODULE MCMapData -----------------------------
(***************************************************************************)
(* MapData for TLC.  Keys and values are each interchangeable.             *)
(***************************************************************************)
EXTENDS MapData, TLC

MapSymmetry == Permutations(Keys) \cup Permutations(Values)

=============================================================================
