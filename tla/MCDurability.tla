----------------------------- MODULE MCDurability -----------------------------
(* Durability on three clusters and a FAT of two sectors.                   *)
EXTENDS Durability, TLC

CONSTANTS c1, c2, c3, F1, F2

MCClus == {c1, c2, c3}
MCFatSect == [c \in MCClus |-> IF c = c3 THEN F2 ELSE F1]

\* The first two clusters, and the names, are interchangeable.
Symmetry == Permutations({c1, c2}) \cup Permutations(Name) \cup Permutations(Id)
===============================================================================
