---------------------------- MODULE MC_ReclaimSet ----------------------------
EXTENDS ReclaimSet

AllOps == {"Add", "AddWithoutMerging", "Remove", "RemoveRange", "RemoveAll",
           "MergeAll", "MergeRange", "MergeAdjacent", "SplitAt", "ApplyContiguous",
           "InsertWithoutMerging", "Merge", "Split", "SetRange", "SetStart", "SetEnd",
           "SaveRestore"}
(* call is history only: no action reads it, so states that differ only  *)
(* in it have the same successors, and TLC keeps one of them. AbsSpec is  *)
(* still checked on every transition, to new states and to seen ones.    *)
NodesView == nodes
=============================================================================
