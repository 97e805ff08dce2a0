-------------------------------- MODULE FileIO --------------------------------
(***************************************************************************)
(* An open file of ff.c: f_open, f_read, f_write, f_lseek, f_truncate,     *)
(* f_sync and f_close on one file, one step per turn of their loops.  The  *)
(* file finds its bytes through the current cluster and sector kept in the *)
(* FIL, which the functions update as they move along the cluster chain.   *)
(* Sectors are read and written as SectorWindow shows they can be, and     *)
(* clusters are taken and given back as ClusterChain shows.  A byte the    *)
(* file has not written is Junk: whatever the disk held there.             *)
(***************************************************************************)
EXTENDS Integers, Sequences, FiniteSets

CONSTANTS
  SS,         \* bytes per sector
  CSize,      \* fs->csize: sectors per cluster
  Cluster,    \* clusters on the volume
  None,       \* the number 0, no cluster
  EOC,        \* the end mark of a chain
  MaxDword,   \* the largest file size, 0xFFFFFFFF
  Val,        \* byte values the program writes
  Junk,       \* a byte the program has not written
  MaxXfer,    \* largest transfer asked for
  MayFail     \* disk calls may fail

ASSUME Sizes ==
  /\ SS \in Nat \ {0} /\ CSize \in Nat \ {0} /\ IsFiniteSet(Cluster)
  /\ None \notin Cluster /\ EOC \notin Cluster \cup {None}
  /\ MaxDword \in Nat /\ MaxXfer \in 0 .. MaxDword
  /\ Junk \notin Val /\ MayFail \in BOOLEAN

VARIABLES
  chain,      \* the file's clusters, in the order of the FAT
  free,       \* the free clusters
  data,       \* the bytes of the clusters
  entry,      \* size and start cluster in the directory entry
  synced,     \* all the file did has reached the disk
  mode,       \* access mode of the open file, or "closed"
  modified,   \* FA_MODIFIED
  err,        \* fp->err
  objsize, fptr, clust, sect,   \* of the FIL
  pc, left, ofs, ifptr,         \* the running function and its locals
  out,        \* the bytes the last turn of f_read delivered
  ret         \* what the last call returned

fil == <<mode, modified, err, objsize, fptr, clust, sect>>
locals == <<pc, left, ofs, ifptr>>
vars == <<chain, free, data, entry, synced, fil, locals, out, ret>>

bcs == SS * CSize
NoSect == <<None, 0>>
Byte == Val \cup {Junk}
Wild == [o \in 0 .. bcs - 1 |-> Junk]
Least(a, b) == IF a < b THEN a ELSE b
Most(a, b) == IF a > b THEN a ELSE b

sclust == IF chain = << >> THEN None ELSE chain[1]
get_fat(c) ==
  LET i == CHOOSE i \in DOMAIN chain : chain[i] = c
  IN IF i < Len(chain) THEN chain[i + 1] ELSE EOC

(* create_chain(c), as ClusterChain has it: r is its result, ch and fr the  *)
(* chain and the free clusters it leaves.  A disk error may lose a cluster. *)
create_chain(c, r, ch, fr) ==
  LET next == IF c = None THEN EOC ELSE get_fat(c) IN
  \/ next # EOC /\ r = next /\ ch = chain /\ fr = free
  \/ next = EOC /\ r \in free /\ ch = Append(chain, r) /\ fr = free \ {r}
  \/ next = EOC /\ free = {} /\ r = None /\ ch = chain /\ fr = free
Results == Cluster \cup {None}

(* A function returns; the dead locals are cleared. *)
Leave(r) == pc' = "idle" /\ left' = 0 /\ ofs' = 0 /\ ifptr' = 0 /\ ret' = r

(* ABORT: the error sticks to the file object. *)
Abort(r) ==
  /\ err' = r /\ Leave(r) /\ out' = << >>
  /\ UNCHANGED <<mode, modified, entry, synced>>

(* A disk call of the running function fails; p, c and s are the pointer,    *)
(* cluster and sector the file object is left with.                          *)
AbortDisk(p, c, s) ==
  /\ MayFail
  /\ Abort("FR_DISK_ERR")
  /\ fptr' = p /\ clust' = c /\ sect' = s
  /\ UNCHANGED objsize

(* create_chain fails; it may have taken a cluster and lost it. *)
ChainError ==
  /\ free' \in {free} \cup {free \ {c} : c \in free}
  /\ UNCHANGED <<chain, data>>

Ready == pc = "idle" /\ mode # "closed" /\ err = "FR_OK"

Init ==
  /\ chain = << >> /\ free = Cluster /\ data = [c \in Cluster |-> Wild]
  /\ entry = [size |-> 0, sclust |-> None] /\ synced = TRUE
  /\ mode = "closed" /\ modified = FALSE /\ err = "FR_OK"
  /\ objsize = 0 /\ fptr = 0 /\ clust = None /\ sect = NoSect
  /\ pc = "idle" /\ left = 0 /\ ofs = 0 /\ ifptr = 0
  /\ out = << >> /\ ret = "FR_OK"

-----------------------------------------------------------------------------
(* Other files take and give back clusters between the calls. *)
Others ==
  /\ pc = "idle"
  /\ \/ \E c \in free : free' = free \ {c}
     \/ \E c \in Cluster \ free : c \notin {chain[i] : i \in DOMAIN chain} /\ free' = free \cup {c}
  /\ UNCHANGED <<chain, data, entry, synced, fil, locals, out, ret>>

(* f_open of the existing file: size and start cluster come from the entry. *)
Open(m) ==
  /\ pc = "idle" /\ mode = "closed" /\ err = "FR_OK"
  /\ mode' = m /\ modified' = FALSE
  /\ objsize' = entry.size
  /\ chain' = IF entry.sclust = None THEN << >> ELSE chain
  /\ fptr' = 0 /\ clust' = None /\ sect' = NoSect
  /\ ret' = "FR_OK" /\ out' = << >>
  /\ UNCHANGED <<free, data, entry, synced, err, locals>>

(* f_open with FA_OPEN_APPEND: the pointer is set to the end, the current    *)
(* cluster to the last one the size needs.                                   *)
OpenAppend ==
  /\ pc = "idle" /\ mode = "closed" /\ err = "FR_OK" /\ entry.size > 0
  /\ mode' = "rw" /\ modified' = FALSE
  /\ objsize' = entry.size /\ fptr' = entry.size
  /\ clust' = chain[(entry.size - 1) \div bcs + 1]
  /\ sect' = IF entry.size % SS # 0
             THEN <<clust', (((entry.size - 1) % bcs) + 1) \div SS>> ELSE NoSect
  /\ ret' = "FR_OK" /\ out' = << >>
  /\ UNCHANGED <<chain, free, data, entry, synced, err, locals>>

(* f_open with FA_CREATE_ALWAYS: the entry is reset and the chain removed; a *)
(* disk error loses what is not freed by then, and the file is not opened.   *)
OpenNew ==
  /\ pc = "idle" /\ mode = "closed" /\ err = "FR_OK"
  /\ entry' = [size |-> 0, sclust |-> None]
  /\ synced' = FALSE
  /\ chain' = << >>
  /\ data' = [c \in Cluster |-> Wild]
  /\ \/ /\ mode' = "rw" /\ modified' = TRUE /\ ret' = "FR_OK"
        /\ free' = free \cup {chain[i] : i \in DOMAIN chain}
     \/ /\ MayFail /\ chain # << >>
        /\ mode' = "closed" /\ modified' = FALSE /\ ret' = "FR_DISK_ERR"
        /\ \E n \in 0 .. Len(chain) : free' = free \cup {chain[i] : i \in 1 .. n}
  /\ objsize' = 0 /\ fptr' = 0 /\ clust' = None /\ sect' = NoSect
  /\ out' = << >>
  /\ UNCHANGED <<err, locals>>

(* f_open of the existing file or to append meets a disk error. *)
OpenFails ==
  /\ pc = "idle" /\ mode = "closed" /\ MayFail
  /\ ret' = "FR_DISK_ERR" /\ out' = << >>
  /\ UNCHANGED <<chain, free, data, entry, synced, fil, locals>>

(* A call on a file object with a sticky error returns that error. *)
Refuse == pc = "idle" /\ err # "FR_OK" /\ UNCHANGED vars

-----------------------------------------------------------------------------
(* Where the next turn of f_read or f_write works. *)
AtSector == fptr % SS = 0
CSect == (fptr \div SS) % CSize
AtCluster == AtSector /\ CSect = 0
Whole == Least(left \div SS, CSize - CSect)
Part == Least(SS - (fptr % SS), left)

(* The bytes of file data from offset o of cluster c. *)
Stored(c, o, n) == [i \in 1 .. n |-> data[c][o + i - 1]]

(* n bytes were transferred; the loop ends when none are left. *)
Advance(n) ==
  /\ fptr' = fptr + n
  /\ left' = left - n
  /\ pc' = IF left' = 0 THEN "idle" ELSE pc
  /\ UNCHANGED <<ofs, ifptr>>

ReadStart(n) ==
  /\ Ready
  /\ left' = Least(n, objsize - fptr)
  /\ pc' = IF left' = 0 THEN "idle" ELSE "read"
  /\ ret' = "FR_OK" /\ out' = << >>
  /\ UNCHANGED <<chain, free, data, entry, synced, fil, ofs, ifptr>>

(* One turn of the loop of f_read. *)
ReadTurn ==
  /\ pc = "read"
  /\ LET c == IF ~AtCluster THEN clust ELSE IF fptr = 0 THEN sclust ELSE get_fat(clust)
         s == IF AtSector THEN <<c, CSect>> ELSE sect
     IN IF c \notin Cluster
        THEN /\ Abort("FR_INT_ERR")
             /\ UNCHANGED <<chain, free, data, objsize, fptr, clust, sect>>
        ELSE \/ /\ \/ AtCluster /\ fptr > 0 /\ AbortDisk(fptr, clust, sect)
                   \/ AbortDisk(fptr, c, IF Whole > 0 THEN sect ELSE s)
                /\ UNCHANGED <<chain, free, data>>
             \/ /\ AtSector /\ Whole > 0
                /\ out' = Stored(c, CSect * SS, SS * Whole)
                /\ clust' = c
                /\ Advance(SS * Whole)
                /\ UNCHANGED <<chain, free, data, entry, synced, mode, modified, err, objsize, sect, ret>>
             \/ /\ ~(AtSector /\ Whole > 0)
                /\ out' = Stored(s[1], s[2] * SS + (fptr % SS), Part)
                /\ clust' = c /\ sect' = s
                /\ Advance(Part)
                /\ UNCHANGED <<chain, free, data, entry, synced, mode, modified, err, objsize, ret>>

(* The transfer is clipped where the pointer would wrap around. *)
ClipWrite(n) == IF (fptr + n) % (MaxDword + 1) < fptr THEN MaxDword - fptr ELSE n

(* f_write *)
WriteStart(n) ==
  /\ Ready /\ mode = "rw"
  /\ left' = ClipWrite(n)
  /\ pc' = IF left' = 0 THEN "idle" ELSE "write"
  /\ modified' = (modified \/ left' = 0)
  /\ ret' = "FR_OK" /\ out' = << >>
  /\ UNCHANGED <<chain, free, data, entry, synced, mode, err, objsize, fptr, clust, sect, ofs, ifptr>>

(* Faulty variant: an old sector is not read before a part of it is written. *)
Growing_f == TRUE

(* The pointer is at the growing edge: the sector holds nothing of the file. *)
Growing == fptr >= objsize

(* n bytes are stored from offset o of cluster c on; when wild, the rest of  *)
(* the sector takes what the window happens to hold.                         *)
Store(c, o, n, wild) ==
  \E bytes \in [0 .. n - 1 -> Val] :
    data' = [data EXCEPT ![c] = [x \in 0 .. bcs - 1 |->
               IF x \in o .. o + n - 1 THEN bytes[x - o]
               ELSE IF wild /\ x >= o + n /\ x \div SS = o \div SS THEN Junk
               ELSE @[x]]]

(* A failed write to the disk leaves the sectors as they were or spoilt. *)
Spoilt(c) ==
  {data, [data EXCEPT ![c] = [x \in 0 .. bcs - 1 |->
            IF x \div SS \in CSect .. CSect + Whole - 1 THEN Junk ELSE @[x]]]}

(* FA_MODIFIED is set when the loop has ended. *)
Flag == modified' = (modified \/ pc' = "idle")

(* One turn of the loop of f_write.  FA_MODIFIED is set when the loop ends,  *)
(* but not when a disk error leaves it.                                      *)
WriteTurn ==
  /\ pc = "write"
  /\ \/ /\ AtCluster /\ ~(fptr = 0 /\ sclust # None)
        /\ AbortDisk(fptr, clust, sect) /\ ChainError
     \/ \E c \in Results :
          /\ IF AtCluster
             THEN IF fptr = 0 /\ sclust # None
                  THEN c = sclust /\ UNCHANGED <<chain, free>>
                  ELSE create_chain(IF fptr = 0 THEN None ELSE clust, c, chain', free')
             ELSE c = clust /\ UNCHANGED <<chain, free>>
          /\ \/ /\ c = None
                /\ Leave("FR_OK") /\ out' = << >>
                /\ modified' = TRUE
                /\ UNCHANGED <<data, entry, synced, mode, err, objsize, fptr, clust, sect>>
             \/ /\ c # None
                /\ AbortDisk(fptr, c, sect)
                /\ data' \in Spoilt(c)
             \/ /\ c # None
                /\ \/ /\ AtSector /\ Whole > 0
                      /\ Store(c, CSect * SS, SS * Whole, FALSE)
                      /\ Advance(SS * Whole)
                      /\ UNCHANGED sect
                   \/ /\ ~(AtSector /\ Whole > 0)
                      /\ sect' = IF AtSector THEN <<c, CSect>> ELSE sect
                      /\ Store(sect'[1], sect'[2] * SS + (fptr % SS), Part, AtSector /\ Growing)
                      /\ Advance(Part)
                /\ objsize' = Most(fptr', objsize)
                /\ Flag
                /\ clust' = c /\ synced' = FALSE /\ out' = << >>
                /\ UNCHANGED <<entry, mode, err, ret>>

-----------------------------------------------------------------------------
(* Faulty variant: the change of the size is not flagged. *)
Extend_f(p) == objsize' = Most(p, objsize) /\ UNCHANGED modified

(* The file grows when the pointer is set past its end. *)
Extend(p) == objsize' = Most(p, objsize) /\ modified' = (modified \/ p > objsize)

(* f_lseek ends with the pointer at p. *)
SeekDone(p) ==
  /\ fptr' = p
  /\ Extend(p)
  /\ synced' = (synced /\ chain' = chain /\ p <= objsize)
  /\ Leave("FR_OK") /\ out' = << >>
  /\ UNCHANGED <<data, entry, mode, err>>

(* The walk along the chain goes on at cluster c, with the pointer at p and  *)
(* o bytes to go.                                                            *)
Walk(c, p, o, from) ==
  /\ pc' = "seek" /\ clust' = c /\ fptr' = p /\ ofs' = o /\ ifptr' = from
  /\ synced' = (synced /\ chain' = chain)
  /\ ret' = "FR_OK" /\ out' = << >>
  /\ UNCHANGED <<data, entry, mode, modified, err, objsize, sect, left>>

(* Faulty variant: compares the clusters of the pointers, not of the bytes before them. *)
Ahead_f(to) == fptr > 0 /\ to \div bcs >= fptr \div bcs

(* The target is in the current cluster or behind it. *)
Ahead(to) == fptr > 0 /\ (to - 1) \div bcs >= (fptr - 1) \div bcs

(* The offset at which the current cluster begins. *)
Top == ((fptr - 1) \div bcs) * bcs

(* Faulty variant: a reader's offset is not clipped. *)
Target_f(o) == o

(* The offset is clipped at the end of a file opened for reading. *)
Target(o) == IF o > objsize /\ mode = "r" THEN objsize ELSE o

(* f_lseek: the walk starts at the current cluster, or else at the first one. *)
SeekStart(o) ==
  LET to == Target(o)
  IN /\ Ready
     /\ \/ /\ to = 0
           /\ UNCHANGED <<chain, free, clust, sect>>
           /\ SeekDone(0)
        \/ /\ to > 0 /\ Ahead(to)
           /\ UNCHANGED <<chain, free>>
           /\ Walk(clust, Top, to - Top, fptr)
        \/ /\ to > 0 /\ ~Ahead(to) /\ sclust # None
           /\ UNCHANGED <<chain, free>>
           /\ Walk(sclust, 0, to, fptr)
        \/ /\ to > 0 /\ ~Ahead(to) /\ sclust = None
           /\ \/ AbortDisk(0, clust, sect) /\ ChainError
              \/ \E c \in Results :
                   /\ create_chain(None, c, chain', free')
                   /\ IF c # None THEN Walk(c, 0, to, fptr)
                               ELSE clust' = None /\ UNCHANGED sect /\ SeekDone(0)

(* One turn of the cluster following loop of f_lseek, or what follows it.  A *)
(* file opened for writing is stretched; a full disk clips the pointer.      *)
SeekTurn ==
  /\ pc = "seek"
  /\ \/ /\ ofs <= bcs
        /\ sect' = IF ofs % SS # 0 THEN <<clust, ofs \div SS>> ELSE sect
        /\ UNCHANGED <<chain, free, clust>>
        /\ SeekDone(fptr + ofs)
     \/ ofs > bcs /\ AbortDisk(fptr + bcs, clust, sect) /\
           IF mode = "rw" THEN ChainError ELSE UNCHANGED <<chain, free, data>>
     \/ /\ ofs > bcs
        /\ \E c \in Results \cup {EOC} :
             /\ IF mode = "rw" THEN create_chain(clust, c, chain', free')
                               ELSE c = get_fat(clust) /\ UNCHANGED <<chain, free>>
             /\ IF c = None THEN UNCHANGED <<clust, sect>> /\ SeekDone(fptr + bcs)
                ELSE IF c = EOC THEN /\ Abort("FR_INT_ERR") /\ fptr' = fptr + bcs
                                     /\ UNCHANGED <<data, objsize, clust, sect>>
                ELSE Walk(c, fptr + bcs, ofs - bcs, ifptr)

-----------------------------------------------------------------------------
Elems(q) == {q[i] : i \in DOMAIN q}

(* The chain is cut after its first k clusters and n of the others are freed. *)
Cut(k, n) ==
  /\ chain' = SubSeq(chain, 1, k)
  /\ free' = free \cup Elems(SubSeq(chain, k + 1, k + n))
  /\ data' = [c \in Cluster |-> IF c \in Elems(SubSeq(chain, k + 1, Len(chain)))
                                 THEN Wild ELSE data[c]]

(* Faulty variant: the size is changed only if the chain was cut and freed. *)
Shrink_f ==
  IF ret' = "FR_OK" THEN objsize' = fptr /\ modified' = TRUE ELSE UNCHANGED <<objsize, modified>>

Shrink == objsize' = fptr /\ modified' = TRUE

(* f_truncate at the pointer.  The size is changed whether or not the chain  *)
(* could be cut and freed.                                                   *)
Truncate ==
  /\ Ready /\ mode = "rw" /\ fptr < objsize
  /\ synced' = FALSE
  /\ LET k == IF fptr = 0 THEN 0 ELSE CHOOSE i \in DOMAIN chain : chain[i] = clust IN
     \/ Cut(k, Len(chain) - k) /\ ret' = "FR_OK" /\ err' = err
     \/ /\ MayFail /\ ret' = "FR_DISK_ERR" /\ err' = "FR_DISK_ERR"
        /\ \/ \E n \in 0 .. Len(chain) - k - 1 : Cut(k, n)
           \/ k > 0 /\ UNCHANGED <<chain, free, data>>
  /\ Shrink
  /\ out' = << >>
  /\ UNCHANGED <<entry, mode, fptr, clust, sect, locals>>

(* f_sync of a changed file: the entry is updated in the window, then sync_fs *)
(* writes it; FA_MODIFIED is cleared whatever sync_fs returned.               *)
SyncEntry ==
  /\ entry' = [size |-> objsize, sclust |-> sclust]
  /\ modified' = FALSE

f_sync ==
  \/ /\ ~modified /\ ret' = "FR_OK"
     /\ UNCHANGED <<entry, modified, synced>>
  \/ modified /\ SyncEntry /\ synced' = TRUE /\ ret' = "FR_OK"
  \/ modified /\ MayFail /\ SyncEntry /\ synced' = FALSE /\ ret' = "FR_DISK_ERR"
  \/ /\ modified /\ MayFail /\ ret' = "FR_DISK_ERR"
     /\ UNCHANGED <<entry, modified, synced>>

Sync ==
  /\ pc = "idle" /\ mode # "closed"
  /\ f_sync
  /\ out' = << >>
  /\ UNCHANGED <<chain, free, data, mode, err, objsize, fptr, clust, sect, locals>>

(* f_close: f_sync, then the file object is given up if that succeeded. *)
Close ==
  /\ pc = "idle" /\ mode # "closed"
  /\ f_sync
  /\ IF ret' = "FR_OK"
     THEN /\ mode' = "closed" /\ err' = "FR_OK"
          /\ objsize' = 0 /\ fptr' = 0 /\ clust' = None /\ sect' = NoSect
     ELSE UNCHANGED <<mode, err, objsize, fptr, clust, sect>>
  /\ out' = << >>
  /\ UNCHANGED <<chain, free, data, locals>>

Next ==
  \/ Others \/ OpenAppend \/ OpenNew \/ OpenFails \/ Refuse
  \/ \E m \in {"r", "rw"} : Open(m)
  \/ Truncate \/ Sync \/ Close
  \/ \E n \in 1 .. MaxXfer : ReadStart(n) \/ WriteStart(n)
  \/ \E o \in 0 .. MaxDword : SeekStart(o)
  \/ ReadTurn \/ WriteTurn \/ SeekTurn

Spec == Init /\ [][Next]_vars

-----------------------------------------------------------------------------
(* The cluster that holds byte b of the file. *)
ClusterOf(b) == IF b \div bcs < Len(chain) THEN chain[(b \div bcs) + 1] ELSE None

(* The current cluster and sector of an open file are those of the pointer:  *)
(* the cluster is that of the byte before it, and inside a sector fp->sect   *)
(* is the sector it is in.  f_lseek leaves them half-way while it walks.     *)
Position ==
  mode # "closed" /\ err = "FR_OK" =>
    IF pc = "seek"
    THEN clust = ClusterOf(fptr) /\ fptr % bcs = 0
    ELSE /\ fptr > 0 => clust = ClusterOf(fptr - 1)
         /\ fptr % SS # 0 => sect = <<clust, (fptr % bcs) \div SS>>

(* The insanity tests of f_read and f_lseek do not fire: a file is never     *)
(* longer than its chain, even after disk errors.                            *)
NoInternalError == err # "FR_INT_ERR"

(* FA_MODIFIED is not forgotten: between calls the directory entry differs   *)
(* from the file object only when f_sync will write it.                      *)
EntryFollows ==
  mode # "closed" /\ pc = "idle" /\ err = "FR_OK" /\ ~modified =>
    entry = [size |-> objsize, sclust |-> sclust]

(* The entry of a closed file names a chain long enough for its size, also   *)
(* when calls failed before f_close.                                         *)
EntryBacked ==
  mode = "closed" =>
    /\ entry.sclust \in {None, sclust}
    /\ entry.size <= (IF entry.sclust = None THEN 0 ELSE Len(chain) * bcs)

(* The bytes of the file, as the entry or the file object has them; those    *)
(* past the end of the chain would be nobody's.                              *)
Bytes(n) ==
  [i \in 1 .. n |-> LET c == ClusterOf(i - 1) IN IF c = None THEN Junk ELSE data[c][(i - 1) % bcs]]

BF == INSTANCE ByteFile WITH
  Given   <- Val,
  MaxLen  <- MaxDword,
  content <- Bytes(IF mode = "closed" THEN entry.size ELSE objsize),
  pos     <- IF pc = "seek" THEN ifptr ELSE fptr,
  failed  <- err # "FR_OK"

(* The file behaves as a sequence of bytes with a pointer: reads return what *)
(* was written, writes and seeks disturb no other byte, and closing and      *)
(* opening again brings all of it back.                                      *)
ImplementsByteFile == BF!Spec

(* f_sync and f_close return FR_OK only when all the file did has reached    *)
(* the disk.                                                                 *)
SyncOkDurable == [][(Sync \/ Close) /\ ret' = "FR_OK" => synced']_vars
===============================================================================
