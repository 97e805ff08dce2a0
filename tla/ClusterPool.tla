------------------------------ MODULE ClusterPool ------------------------------
(***************************************************************************)
(* What the cluster allocator promises its callers: every object has a     *)
(* sequence of clusters, no cluster is in two places, and a call changes   *)
(* the sequence of one object only.  A cluster that is neither free nor in *)
(* a sequence is in transit (being allocated or being freed) or lost to a  *)
(* disk error.                                                             *)
(***************************************************************************)
EXTENDS Integers, Sequences

CONSTANTS Cluster, Obj

VARIABLES
  chain,   \* the clusters of every object, in order
  free     \* the free clusters

vars == <<chain, free>>

Elems(s) == {s[i] : i \in 1 .. Len(s)}
Held == UNION {Elems(chain[o]) : o \in Obj}

Init == chain = [o \in Obj |-> << >>] /\ free = Cluster

(* A free cluster is taken out of the pool. *)
Reserve == \E c \in free : free' = free \ {c} /\ UNCHANGED chain

(* A cluster nobody holds becomes the last one of an object; it may come      *)
(* straight from the pool.                                                    *)
Attach(o) ==
  \E c \in Cluster \ Held :
    /\ chain' = [chain EXCEPT ![o] = Append(@, c)]
    /\ free' = free \ {c}

(* An object gives up its clusters after the first n. *)
Cut(o) ==
  \E n \in 0 .. Len(chain[o]) - 1 :
    /\ chain' = [chain EXCEPT ![o] = SubSeq(@, 1, n)]
    /\ UNCHANGED free

(* A cluster nobody holds goes back to the pool. *)
Release == \E c \in Cluster \ (Held \cup free) : free' = free \cup {c} /\ UNCHANGED chain

Next == Reserve \/ Release \/ \E o \in Obj : Attach(o) \/ Cut(o)

Spec == Init /\ [][Next]_vars
================================================================================
