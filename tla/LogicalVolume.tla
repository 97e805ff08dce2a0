---------------------------- MODULE LogicalVolume ----------------------------
(***************************************************************************)
(* What the disk access window of ff.c promises to the rest of FatFs: the  *)
(* volume is an array of sectors.  A sector reads as what was last stored  *)
(* in it (content), whatever is still on its way to the medium; what a     *)
(* power loss leaves is an older version (durable) in which at most the    *)
(* one sector buffered by the window is out of date.                       *)
(***************************************************************************)
CONSTANTS
  Visible,   \* the sectors FatFs addresses (all but the second FAT)
  Content,   \* what a sector may hold
  Info       \* the sector sync_fs rewrites by itself (FSInfo)

VARIABLES
  content,   \* content[s]: what sector s reads as
  durable    \* durable[s]: what the medium holds for sector s

lvars == <<content, durable>>

Pending == {s \in Visible : content[s] # durable[s]}

Init ==
  /\ content \in [Visible -> Content]
  /\ durable = content

(* Any access may write the buffered sector back. *)
WriteBack ==
  /\ durable' \in {durable, content}
  /\ UNCHANGED content

(* A buffered store: whatever else was buffered reaches the medium first. *)
Store(s) ==
  /\ \A x \in Visible : x # s => content'[x] = durable'[x]
  /\ content'[s] \in Content
  /\ content' = [content EXCEPT ![s] = content'[s]]
  /\ durable' \in {durable, content}

(* A store that goes straight to the medium: a sector is stored and is then  *)
(* in step, or it reads as before.                                           *)
StoreThrough ==
  /\ content' \in [Visible -> Content] /\ durable' \in [Visible -> Content]
  /\ \E d \in {durable, content} : \A x \in Visible :
       durable'[x] = content'[x] \/ (content'[x] = content[x] /\ durable'[x] = d[x])

(* After a successful synchronisation nothing is pending. *)
Sync ==
  /\ \/ UNCHANGED content
     \/ /\ Info \in Visible /\ content'[Info] \in Content
        /\ content' = [content EXCEPT ![Info] = content'[Info]]
  /\ durable' = content'

(* Power loss, or a remount: the buffered sector is forgotten. *)
Crash ==
  /\ content' = durable
  /\ UNCHANGED durable

Next ==
  \/ WriteBack \/ StoreThrough \/ Sync \/ Crash
  \/ \E s \in Visible : Store(s)

Spec == Init /\ [][Next]_lvars
=============================================================================
