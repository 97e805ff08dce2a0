------------------------------- MODULE ByteFile -------------------------------
(***************************************************************************)
(* What an open file promises its user: a sequence of bytes and a pointer  *)
(* into it.  Reading returns the bytes at the pointer, writing replaces    *)
(* them or appends, seeking past the end makes the file longer by bytes    *)
(* nobody promised, truncating cuts at the pointer; closing and opening    *)
(* again keeps the bytes.  After a failure no more is promised than that   *)
(* the file object refuses to work.                                        *)
(***************************************************************************)
EXTENDS Integers, Sequences

CONSTANTS
  Byte,     \* the bytes a file may hold
  Given,    \* those the user writes
  MaxLen    \* the largest size

VARIABLES content, pos, out, failed

vars == <<content, pos, out, failed>>

Init == content = << >> /\ pos = 0 /\ out = << >> /\ failed = FALSE

Read ==
  \E n \in 1 .. Len(content) - pos :
    /\ out' = SubSeq(content, pos + 1, pos + n)
    /\ pos' = pos + n
    /\ UNCHANGED <<content, failed>>

(* The bytes written are those that content' then has at the pointer. *)
Write ==
  /\ pos' \in pos + 1 .. MaxLen
  /\ content' \in Seq(Byte)
  /\ Len(content') = IF pos' > Len(content) THEN pos' ELSE Len(content)
  /\ \A i \in 1 .. Len(content) : i <= pos \/ i > pos' => content'[i] = content[i]
  /\ \A i \in pos + 1 .. pos' : content'[i] \in Given
  /\ out' = << >> /\ UNCHANGED failed

Seek ==
  /\ pos' \in 0 .. MaxLen
  /\ content' \in Seq(Byte)
  /\ Len(content') = IF pos' > Len(content) THEN pos' ELSE Len(content)
  /\ \A i \in 1 .. Len(content) : content'[i] = content[i]
  /\ out' = << >> /\ UNCHANGED failed

Truncate ==
  /\ content' = SubSeq(content, 1, pos)
  /\ out' = << >> /\ UNCHANGED <<pos, failed>>

Reopen == pos' = 0 /\ out' = << >> /\ UNCHANGED <<content, failed>>

Overwrite == pos' = 0 /\ out' = << >> /\ content' = << >> /\ UNCHANGED failed

Fail ==
  /\ failed' = TRUE
  /\ pos' \in 0 .. MaxLen
  /\ content' \in Seq(Byte)
  /\ out' = << >>

(* Closing the file object after a failure; what is left is not promised. *)
Recover ==
  /\ failed /\ failed' = FALSE
  /\ pos' = 0 /\ out' = << >> /\ content' \in Seq(Byte)

Next ==
  \/ Recover
  \/ ~failed /\ (Read \/ Write \/ Seek \/ Truncate \/ Reopen \/ Overwrite \/ Fail)

Spec == Init /\ [][Next]_vars
===============================================================================
