----------------------------- MODULE MCDirectory -----------------------------
(* Directory for TLC: names of one character and an extension of one.        *)
EXTENDS Directory

MCNames == {<<"A">>, <<"a", "/", "/", "A">>, <<"E5", ".", "A">>, <<"A", "/", ".">>, <<"/">>}

\* No step and no property reads what the last call returned.
MCView == <<tab, up, room, rd, moved>>

Symmetry == Permutations(Dirs) \cup Permutations(File)

\* All paths of up to three characters.
MCLookups ==
  UNION {[1 .. n -> {"A", "84", "*", ".", "/", " "}] : n \in 0 .. 3}
==============================================================================
