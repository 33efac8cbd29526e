----------------------------- MODULE MCPromise -----------------------------
(***************************************************************************)
(* Promise for TLC.                                                         *)
(***************************************************************************)
EXTENDS Promise

=============================================================================
