------------------------------ MODULE MCGCHeap ------------------------------
(***************************************************************************)
(* GCHeap for TLC.  The cells of a generation are interchangeable.         *)
(***************************************************************************)
EXTENDS GCHeapInv, TLC

HeapSymmetry == Permutations(Young) \cup Permutations(OldPage)

=============================================================================
