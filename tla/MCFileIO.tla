------------------------------- MODULE MCFileIO -------------------------------
(* FileIO for TLC: clusters and byte values are interchangeable. *)
EXTENDS FileIO, TLC

Symmetry == Permutations(Cluster) \cup Permutations(Val)
===============================================================================
