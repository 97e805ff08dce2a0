----------------------------- MODULE ClusterChain -----------------------------
(***************************************************************************)
(* The cluster allocator of ff.c on a FAT12/16/32 volume: create_chain and *)
(* remove_chain, one step per FAT access, with the free-cluster count and  *)
(* the last allocated cluster kept in the FATFS object and, on FAT32, in   *)
(* the FSInfo sector.  FAT entries are read and written through get_fat    *)
(* and put_fat, whose accesses SectorWindow models; here each one either   *)
(* takes effect or, when MayFail, returns a disk error.  An entry is so    *)
(* written whole or not at all, as on FAT16 and FAT32, and on FAT12 where  *)
(* the entry lies in one sector; an entry that straddles two sectors can   *)
(* be left half written, which Volume has.  A caller holds at most one     *)
(* operation at a time (FF_FS_REENTRANT = 0).                              *)
(***************************************************************************)
EXTENDS Integers, FiniteSets

CONSTANTS
  n_fatent,   \* fs->n_fatent: number of clusters + 2
  Obj,        \* the files and directories that own chains
  None,       \* no owner
  Fat32,      \* the volume has an enabled FSInfo sector
  MayFail,    \* accesses to the FAT may fail
  InfoMayFail \* accesses to the FSInfo sector may fail

ASSUME Params ==
  /\ n_fatent \in Nat /\ n_fatent > 2
  /\ None \notin Obj
  /\ Fat32 \in BOOLEAN /\ MayFail \in BOOLEAN /\ InfoMayFail \in BOOLEAN

VARIABLES
  fat,        \* the FAT entries of the clusters
  last_clst,  \* fs->last_clst
  free_clst,  \* fs->free_clst
  fsi_flag,   \* fs->fsi_flag
  fsinfo,     \* the free count and last cluster in the FSInfo sector
  sclust,     \* obj.sclust of every object, 0 when it has no chain
  pc,         \* where the running create_chain or remove_chain is
  obj, clst, scl, ncl,  \* its locals
  reuse,      \* what the caller sets last_clst to after it, or NoReuse
  ret,        \* how the last operation ended
  owner, pos, \* history: whose chain a cluster is in, and at which place
  failed      \* history: an access to the FAT has failed

alloc == <<last_clst, free_clst, fsi_flag>>
locals == <<obj, clst, scl, ncl, reuse>>
vars == <<fat, alloc, fsinfo, sclust, pc, locals, ret, owner, pos, failed>>

Clusters == 2 .. n_fatent - 1
Free == 0
EOC == n_fatent             \* any entry value >= n_fatent
Unknown == n_fatent         \* 0xFFFFFFFF: no count and no cluster number
NoReuse == n_fatent
FreeSet == {c \in Clusters : fat[c] = Free}

(* What the file objects own: the clusters of o's chain from place p on. *)
ChainFrom(o, p) == {c \in Clusters : owner[c] = o /\ pos[c] >= p}

(* The running function returns to its caller with r; its locals die. *)
Return(r) ==
  /\ pc' = "idle" /\ ret' = r
  /\ obj' = None /\ clst' = 0 /\ scl' = 1 /\ ncl' = 1 /\ reuse' = NoReuse

(* A FAT access fails: get_fat returns 0xFFFFFFFF or put_fat FR_DISK_ERR, and *)
(* the function returns the error at once, the entry being as it was.         *)
DiskError ==
  /\ MayFail
  /\ Return("disk_err")
  /\ UNCHANGED <<fat, alloc, fsinfo, sclust, owner, pos>>

Init ==
  /\ fat = [c \in Clusters |-> Free]
  /\ fsinfo \in IF Fat32 THEN [free : {n_fatent - 2, Unknown}, last : 0 .. n_fatent]
                 ELSE {[free |-> Unknown, last |-> Unknown]}
  /\ last_clst = Unknown /\ free_clst = Unknown /\ fsi_flag = 128
  /\ sclust = [o \in Obj |-> 0]
  /\ pc = "unmounted" /\ ret = "ok"
  /\ obj = None /\ clst = 0 /\ scl = 1 /\ ncl = 1 /\ reuse = NoReuse
  /\ owner = [c \in Clusters |-> None] /\ pos = [c \in Clusters |-> 0]
  /\ failed = FALSE

-----------------------------------------------------------------------------
(* mount_volume: the counts come from the FSInfo sector when it can be read, *)
(* else they are unknown and FSInfo stays disabled.  A mounted volume is     *)
(* mounted anew only when no allocation change waits for sync_fs.            *)
Mount ==
  /\ pc = "unmounted" \/ (pc = "idle" /\ fsi_flag # 1)
  /\ Return("ok")
  /\ \/ /\ Fat32
        /\ fsi_flag' = 0 /\ free_clst' = fsinfo.free /\ last_clst' = fsinfo.last
     \/ /\ ~Fat32 \/ InfoMayFail
        /\ fsi_flag' = 128 /\ free_clst' = Unknown /\ last_clst' = Unknown
  /\ UNCHANGED <<fat, fsinfo, sclust, owner, pos>>

(* sync_fs: the FSInfo sector is rewritten when the allocation changed; the *)
(* result of that write is not looked at.                                   *)
SyncInfo ==
  /\ pc = "idle" /\ fsi_flag = 1
  /\ fsi_flag' = 0
  /\ \/ fsinfo' = [free |-> free_clst, last |-> last_clst]
     \/ InfoMayFail /\ fsinfo' = fsinfo
  /\ ret' = "ok"
  /\ UNCHANGED <<fat, last_clst, free_clst, sclust, pc, locals, owner, pos>>

(* fs->fsi_flag |= 1; on a volume without FSInfo bit 7 stays set. *)
FlagChanged == fsi_flag' = IF fsi_flag \in {0, 128} THEN fsi_flag + 1 ELSE fsi_flag

(* f_getfree: the count is taken from fs->free_clst when it is valid, else *)
(* the FAT is scanned and the count kept.                                  *)
GetFree ==
  /\ pc = "idle" /\ free_clst > n_fatent - 2
  /\ \/ /\ free_clst' = Cardinality(FreeSet) /\ FlagChanged /\ ret' = "ok"
     \/ /\ MayFail /\ ret' = "disk_err" /\ UNCHANGED <<free_clst, fsi_flag>>
  /\ UNCHANGED <<fat, last_clst, fsinfo, sclust, pc, locals, owner, pos>>

-----------------------------------------------------------------------------
(* create_chain(obj, 0): the search for a free cluster starts after the last *)
(* allocated one, or after 1 when that is not valid.                         *)
CreateNew(o) ==
  /\ pc = "idle" /\ sclust[o] = 0
  /\ IF free_clst = 0
     THEN Return("full")
     ELSE LET s == IF last_clst = 0 \/ last_clst >= n_fatent THEN 1 ELSE last_clst IN
          /\ pc' = "scan" /\ obj' = o /\ clst' = 0 /\ scl' = s /\ ncl' = s
          /\ reuse' = NoReuse /\ ret' = "ok"
  /\ UNCHANGED <<fat, alloc, fsinfo, sclust, owner, pos>>

(* create_chain(obj, c) with c in the object's chain: a cluster that follows c *)
(* is returned as it is, else the chain is to be stretched.                    *)
Stretch(o, c) ==
  /\ pc = "idle" /\ owner[c] = o
  /\ \/ DiskError
     \/ /\ fat[c] < n_fatent
        /\ Return(IF fat[c] < 2 THEN "int_err" ELSE "ok")
        /\ UNCHANGED <<fat, alloc, fsinfo, sclust, owner, pos>>
     \/ /\ fat[c] >= n_fatent /\ free_clst = 0
        /\ Return("full")
        /\ UNCHANGED <<fat, alloc, fsinfo, sclust, owner, pos>>
     \/ /\ fat[c] >= n_fatent /\ free_clst # 0
        /\ pc' = "probe" /\ obj' = o /\ clst' = c /\ scl' = c /\ ncl' = c
        /\ reuse' = NoReuse /\ ret' = "ok"
        /\ UNCHANGED <<fat, alloc, fsinfo, sclust, owner, pos>>

(* Operators ending in _f or _g are faulty variants of the operator that      *)
(* follows, each a plausible slip in that code; no action uses them.          *)

(* A cluster can be taken. *)
Usable_f(c) == TRUE
Usable(c) == fat[c] = Free

(* The search has come back to its start; it ran off the end of the FAT when  *)
(* it started before the first cluster.                                       *)
SearchOver_f(n) == FALSE
SearchOver(n) == n = scl
WrapFull_f == ncl + 1 >= n_fatent
WrapFull == ncl + 1 >= n_fatent /\ 2 > scl

(* The cluster after c, with the wrap-around at the end of the FAT. *)
NextClst(c) == IF c + 1 >= n_fatent THEN 2 ELSE c + 1

(* The cluster next to the stretched one is tried first. *)
Probe ==
  /\ pc = "probe"
  /\ \/ DiskError
     \/ /\ Usable(NextClst(scl))
        /\ pc' = "mark" /\ ncl' = NextClst(scl)
        /\ UNCHANGED <<fat, alloc, fsinfo, sclust, obj, clst, scl, reuse, ret, owner, pos>>
     \/ /\ ~Usable(NextClst(scl))
        /\ pc' = "scan"
        /\ scl' = IF last_clst \in Clusters THEN last_clst ELSE scl
        /\ ncl' = scl'
        /\ UNCHANGED <<fat, alloc, fsinfo, sclust, obj, clst, reuse, ret, owner, pos>>

(* One turn of the search loop. *)
Scan ==
  /\ pc = "scan"
  /\ IF WrapFull
     THEN /\ Return("full")
          /\ UNCHANGED <<fat, alloc, fsinfo, sclust, owner, pos>>
     ELSE LET n == NextClst(ncl) IN
          \/ DiskError
          \/ /\ Usable(n)
             /\ pc' = "mark" /\ ncl' = n
             /\ UNCHANGED <<fat, alloc, fsinfo, sclust, obj, clst, scl, reuse, ret, owner, pos>>
          \/ /\ ~Usable(n) /\ SearchOver(n)
             /\ Return("full")
             /\ UNCHANGED <<fat, alloc, fsinfo, sclust, owner, pos>>
          \/ /\ ~Usable(n) /\ ~SearchOver(n)
             /\ ncl' = n
             /\ UNCHANGED <<fat, alloc, fsinfo, sclust, pc, obj, clst, scl, reuse, ret, owner, pos>>

(* create_chain succeeded: the allocation information is updated and the new *)
(* cluster becomes the end of the object's chain (its start when it had none).*)
Allocated ==
  /\ last_clst' = ncl
  /\ IF free_clst > 0 /\ free_clst <= n_fatent - 2
     THEN free_clst' = free_clst - 1 /\ FlagChanged
     ELSE UNCHANGED <<free_clst, fsi_flag>>
  /\ owner' = [owner EXCEPT ![ncl] = obj]
  /\ Return("ok")
  /\ UNCHANGED fsinfo

(* put_fat(fs, ncl, 0xFFFFFFFF): the new cluster is marked in use. *)
Mark ==
  /\ pc = "mark"
  /\ \/ DiskError
     \/ /\ fat' = [fat EXCEPT ![ncl] = EOC]
        /\ IF clst = 0
           THEN /\ Allocated
                /\ sclust' = [sclust EXCEPT ![obj] = ncl]
                /\ pos' = [pos EXCEPT ![ncl] = 0]
           ELSE /\ pc' = "link"
                /\ UNCHANGED <<alloc, fsinfo, sclust, locals, ret, owner, pos>>

(* put_fat(fs, clst, ncl): it is linked from the end of the chain. *)
Link ==
  /\ pc = "link"
  /\ \/ DiskError
     \/ /\ fat' = [fat EXCEPT ![clst] = ncl]
        /\ Allocated
        /\ pos' = [pos EXCEPT ![ncl] = pos[clst] + 1]
        /\ UNCHANGED sclust

-----------------------------------------------------------------------------
(* The callers of remove_chain.  f_unlink, f_truncate at 0 and f_open with   *)
(* FA_CREATE_ALWAYS give up the whole chain; the last of them then points    *)
(* last_clst at the hole (r).                                                *)
RemoveAll(o, r) ==
  /\ pc = "idle" /\ sclust[o] # 0
  /\ pc' = "free" /\ obj' = o /\ clst' = sclust[o] /\ scl' = 1 /\ ncl' = 1
  /\ reuse' = (IF r THEN sclust[o] - 1 ELSE NoReuse)
  /\ sclust' = [sclust EXCEPT ![o] = 0]
  /\ owner' = [c \in Clusters |-> IF c \in ChainFrom(o, 0) THEN None ELSE owner[c]]
  /\ ret' = "ok"
  /\ UNCHANGED <<fat, alloc, fsinfo, pos>>

(* remove_chain marks the cluster before the removed part as the end. *)
MarkEnd_f(c) == UNCHANGED fat
MarkEnd(c) == fat' = [fat EXCEPT ![c] = EOC]

(* The first cluster to be removed after c. *)
FirstRemoved_f(c) == c
FirstRemoved(c) == fat[c]

(* f_truncate inside the file: the clusters after c, the one at the file     *)
(* pointer, go.  remove_chain(obj, ncl, c) marks c as the end first.         *)
RemoveTail(o, c) ==
  /\ pc = "idle" /\ owner[c] = o
  /\ \/ DiskError
     \/ /\ fat[c] >= n_fatent
        /\ Return("ok")
        /\ UNCHANGED <<fat, alloc, fsinfo, sclust, owner, pos>>
     \/ /\ fat[c] < n_fatent
        /\ IF fat[c] < 2
           THEN /\ Return("int_err")
                /\ UNCHANGED <<fat, sclust, owner, pos>>
           ELSE /\ pc' = "free" /\ obj' = o /\ clst' = FirstRemoved(c) /\ scl' = 1 /\ ncl' = 1
                /\ reuse' = NoReuse /\ ret' = "ok"
                /\ MarkEnd(c)
                /\ owner' = [d \in Clusters |->
                               IF d \in ChainFrom(o, pos[c] + 1) THEN None ELSE owner[d]]
                /\ UNCHANGED <<sclust, pos>>
        /\ UNCHANGED <<alloc, fsinfo>>

(* A freed cluster is counted when the count is valid and can still grow. *)
CountFreed_f == free_clst' = free_clst + 1 /\ FlagChanged
CountFreed ==
  IF free_clst < n_fatent - 2
  THEN free_clst' = free_clst + 1 /\ FlagChanged
  ELSE UNCHANGED <<free_clst, fsi_flag>>

(* The loop of remove_chain goes on with cluster n. *)
LoopOn_f(n) == n < n_fatent - 1
LoopOn(n) == n < n_fatent

(* remove_chain returns FR_OK and its caller sets last_clst if it is to. *)
Removed ==
  /\ Return("ok")
  /\ last_clst' = IF reuse = NoReuse THEN last_clst ELSE reuse

(* One turn of the loop of remove_chain: an empty entry ends it, else the    *)
(* cluster is freed and counted, and the loop goes on with the next one.     *)
FreeOne ==
  /\ pc = "free"
  /\ \/ DiskError
     \/ IF fat[clst] # Free
        THEN /\ fat' = [fat EXCEPT ![clst] = Free]
             /\ CountFreed
             /\ pos' = [pos EXCEPT ![clst] = 0]
             /\ IF LoopOn(fat[clst])
                THEN clst' = fat[clst] /\ UNCHANGED <<last_clst, pc, obj, scl, ncl, reuse, ret>>
                ELSE Removed
             /\ UNCHANGED <<fsinfo, sclust, owner>>
        ELSE /\ Removed
             /\ UNCHANGED <<fat, free_clst, fsi_flag, fsinfo, sclust, owner, pos>>

Step == Probe \/ Scan \/ Mark \/ Link \/ FreeOne

Op ==
  \/ Mount \/ SyncInfo \/ GetFree
  \/ \E o \in Obj : CreateNew(o)
  \/ \E o \in Obj, c \in Clusters : Stretch(o, c) \/ RemoveTail(o, c)
  \/ \E o \in Obj, r \in BOOLEAN : RemoveAll(o, r)
  \/ Step

(* That a FAT access failed is remembered; the code does not. *)
History == failed' = (failed \/ ret' = "disk_err")

Next == Op /\ History

(* The functions run to their end once called: nothing else runs meanwhile. *)
Spec == Init /\ [][Next]_vars
FairSpec == Spec /\ WF_vars(Step /\ History)

-----------------------------------------------------------------------------
(* The FATFS fields and the locals of create_chain and remove_chain keep      *)
(* their types: no cluster number out of range is ever used to index the FAT. *)
TypeOK ==
  /\ fat \in [Clusters -> {Free, EOC} \cup Clusters]
  /\ last_clst \in 0 .. n_fatent /\ free_clst \in 0 .. n_fatent
  /\ fsi_flag \in {0, 1, 128, 129}
  /\ fsinfo \in [free : 0 .. n_fatent, last : 0 .. n_fatent]
  /\ sclust \in [Obj -> {0} \cup Clusters]
  /\ pc \in {"unmounted", "idle", "probe", "scan", "mark", "link", "free"}
  /\ obj \in Obj \cup {None} /\ clst \in 0 .. n_fatent
  /\ scl \in 1 .. n_fatent - 1 /\ ncl \in 1 .. n_fatent - 1
  /\ reuse \in 1 .. n_fatent
  /\ ret \in {"ok", "full", "disk_err", "int_err"}
  /\ owner \in [Clusters -> Obj \cup {None}] /\ pos \in [Clusters -> Nat]

(* The parts of ChainsSound. *)
InUse == \A c \in Clusters : owner[c] # None => fat[c] # Free
LinksOn ==
  \A c \in Clusters : fat[c] \in Clusters =>
    owner[fat[c]] = owner[c] /\ pos[fat[c]] = pos[c] + 1 /\ fat[fat[c]] # Free
LinkedOnce == \A c, d \in Clusters : fat[c] \in Clusters /\ fat[c] = fat[d] => c = d
OnePlace ==
  \A c, d \in Clusters : owner[c] # None /\ owner[c] = owner[d] /\ pos[c] = pos[d] => c = d
Starts ==
  \A o \in Obj : IF sclust[o] = 0 THEN \A c \in Clusters : owner[c] # o
                 ELSE owner[sclust[o]] = o /\ pos[sclust[o]] = 0
AllLinked ==
  \A c \in Clusters : owner[c] # None /\ c # sclust[owner[c]] =>
    \E d \in Clusters : fat[d] = c

(* The chains in the FAT are the objects' own and disjoint: a cluster in a    *)
(* chain is not free, is linked from at most one place, and a link leads to   *)
(* the next place of the same object's chain (so no chain has a cycle), every *)
(* chain starts at its object's start cluster and all of it is linked.  This  *)
(* is what create_chain and remove_chain have to keep, also when one of their *)
(* FAT accesses fails.                                                        *)
ChainsSound == InUse /\ LinksOn /\ LinkedOnce /\ OnePlace /\ Starts /\ AllLinked

(* The insanity tests of create_chain and remove_chain never fire on a sound *)
(* volume, even after disk errors.                                           *)
NoInternalError == ret # "int_err"

(* A valid free_clst is never below the number of free clusters: create_chain *)
(* takes a zero for a full volume without looking at the FAT.                 *)
CountNotUnder == free_clst <= n_fatent - 2 => free_clst >= Cardinality(FreeSet)

(* As long as no FAT access failed every cluster in use is in some object's   *)
(* chain whenever no operation runs: remove_chain frees all it was given.     *)
NoLeak == ~failed /\ pc = "idle" => \A c \in Clusters : fat[c] # Free => owner[c] # None

(* create_chain answers "no free cluster" only when there is none: the search *)
(* looks at every cluster before it gives up, wherever it starts.             *)
FullMeansFull == ret = "full" => FreeSet = {}

(* A step changes FAT entries only of the object it works for, and of clusters *)
(* in nobody's chain.                                                          *)
NoForeignChange ==
  [][\A c \in Clusters : fat'[c] # fat[c] => owner[c] \in {None, obj, obj'}]_vars

(* The clusters of an object in the order of its chain; by ChainsSound this   *)
(* is the order in which the FAT links them.                                  *)
Chain(o) ==
  [i \in 1 .. Cardinality(ChainFrom(o, 0)) |->
     CHOOSE c \in ChainFrom(o, 0) : pos[c] = i - 1]

CP == INSTANCE ClusterPool WITH Cluster <- Clusters, free <- FreeSet,
        chain <- [o \in Obj |-> Chain(o)]

(* The FAT with create_chain and remove_chain working on it implements a pool *)
(* of clusters and one sequence per object: other objects' sequences never    *)
(* change, and a sequence only grows at its end or loses its end.             *)
ImplementsClusterPool == CP!Spec

(* create_chain and remove_chain end: the search comes back to where it began *)
(* and the loop over the chain reaches its last cluster.                      *)
Terminates == pc \in {"probe", "scan", "mark", "link", "free"} ~> pc = "idle"
=============================================================================
