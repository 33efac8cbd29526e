---------------------------- MODULE MCGenerator ----------------------------
(***************************************************************************)
(* Generator for TLC.                                                       *)
(***************************************************************************)
EXTENDS Generator, TLC

Symmetry == Permutations(Generators)

=============================================================================
