------------------------------- MODULE PathName -------------------------------
(***************************************************************************)
(* Names in ff.c without long file names: create_name turns one segment of *)
(* a path into the blank-padded name of a directory entry, get_fileinfo    *)
(* turns such a name into the one f_readdir shows.  A path is a sequence   *)
(* of characters; the characters stand for the classes the code tells      *)
(* apart.  The end of the sequence is the terminating 0.                   *)
(***************************************************************************)
EXTENDS Integers, Sequences, SequencesExt

CONSTANTS
  Body,        \* length of the body field, 8 in the code
  Full,        \* body and extension, 11 in the code
  SignedChar   \* the compiler's char is signed

ASSUME Fields == Body \in Nat \ {0} /\ Full \in Nat /\ Body < Full /\ SignedChar \in BOOLEAN

\* A letter in both cases, an extended one in both cases, the character that
\* is also DDEM and its replacement RDDEM, an illegal one, and the others with
\* a meaning of their own.
Extended == {"84", "8E", "E5"}
Chars == {"A", "a", "*", ".", "/", " ", "05"} \cup Extended
ToUpper(c) == IF c = "a" THEN "A" ELSE IF c = "84" THEN "8E" ELSE c
DDEM == "E5"
RDDEM == "05"
Blank == {" ", RDDEM}   \* characters that are at most ' '

FirstFrom(p, from, S) ==
  LET at == {k \in from .. Len(p) : p[k] \in S}
  IN IF at = {} THEN Len(p) + 1 ELSE CHOOSE k \in at : \A j \in at : k <= j

\* One turn of the loop of create_name.
Enter(a, c) ==
  IF ~a.ok THEN a
  ELSE IF c = "." \/ a.i >= a.ni
       THEN IF a.ni = Full \/ c # "." THEN [a EXCEPT !.ok = FALSE]
            ELSE [a EXCEPT !.i = Body, !.ni = Full]
  ELSE IF c = "*" THEN [a EXCEPT !.ok = FALSE]
  ELSE [a EXCEPT !.sfn[a.i + 1] = ToUpper(c), !.i = @ + 1]

\* The name of a segment, and whether it is one.
ShortName(seg) ==
  LET blank == [i |-> 0, ni |-> Body, ok |-> TRUE, sfn |-> [k \in 1 .. Full |-> " "]]
      a == FoldLeft(Enter, blank, seg)
  IN [ok |-> a.ok /\ a.i # 0,
      sfn |-> IF a.sfn[1] = DDEM THEN [a.sfn EXCEPT ![1] = RDDEM] ELSE a.sfn]

\* Faulty variant: separators that follow the first are left for the next segment.
NextSegment_f(p, stop) == stop + 1

NextSegment(p, stop) ==
  IF stop > Len(p) \/ p[stop] \in Blank THEN stop + 1
  ELSE FirstFrom(p, stop, Chars \ {"/"})

\* The test p[si] <= ' ', whose outcome for an extended character depends on
\* the signedness of char: signed on the host, unsigned on the firmware.
AtMostBlank(p, k) == k > Len(p) \/ p[k] \in Blank \/ (SignedChar /\ p[k] \in Extended)

create_name(p, from) ==
  LET stop == FirstFrom(p, from, {"/"} \cup Blank)
      name == ShortName(SubSeq(p, from, stop - 1))
      next == NextSegment(p, stop)
  IN [ok |-> name.ok, sfn |-> name.sfn, next |-> next,
      last |-> stop > Len(p) \/ p[stop] \in Blank \/ AtMostBlank(p, next)]

\* Faulty variant: the replaced first character is not restored.
Shown_f(c) == c

Shown(c) == IF c = RDDEM THEN DDEM ELSE c

\* The name get_fileinfo shows: no blanks, a dot before the extension.
get_fileinfo(sfn) ==
  LET part(lo, hi) == SelectSeq(SubSeq(sfn, lo, hi), LAMBDA c : c # " ")
      body == part(1, Body)
      ext == part(Body + 1, Full)
      dot == IF sfn[Body + 1] = " " THEN << >> ELSE <<".">>
      all == body \o dot \o ext
  IN [k \in DOMAIN all |-> Shown(all[k])]
===============================================================================
