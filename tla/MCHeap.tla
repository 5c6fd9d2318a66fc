------------------------------- MODULE MCHeap -------------------------------
(* Entries are alike: the code never compares two of them but for equality.  *)
EXTENDS Heap, TLC

EntrySymmetry == Permutations(TDs)
=============================================================================
